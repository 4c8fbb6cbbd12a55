------------------------- MODULE QsoPipelineProofs -------------------------
(***************************************************************************)
(* Proofs about QsoPipeline, for every set of QSOs, capacity of the        *)
(* channel, cap of the spool and number of faults: the invariants of the   *)
(* two tasks over the spool's, and that the pipeline implements            *)
(* QsoDelivery.                                                            *)
(***************************************************************************)
EXTENDS QsoPipeline, QsoSpoolProofs

\* The entry of the record in the listener's hands, once it is appended.
Item == [seq |-> nextSeq - 1, adif |-> hand]

\* What the worker holds, what is in the channel and what is to be replayed.
Held   == {i \in {cur} : cur # None}
Queued == Held \cup ToSet(chan) \cup ToSet(replay)
Sent   == {i \in {Item} : lpc = "send"}

\* The entries a file has text of, those of which the disk has or had text, and
\* all the entries that are anywhere but among those left on disk.
Texts(f) == {c.entry : c \in Chunks(f)}
InFiles  == UNION {Texts(f) : f \in Found}
OnDisk   == InFiles \cup aside \cup damaged \cup exposed
Known    == ToSet(entries) \cup promised \cup OnDisk \cup Queued \cup Sent \cup answered

-----------------------------------------------------------------------------
(* The inductive invariant.                                                *)

PipeTypes ==
    /\ PipeTypeOK
    /\ stray \subseteq Qsos /\ logged \subseteq Qsos /\ refused \subseteq Qsos
    /\ accepted \subseteq Qsos /\ evicted \subseteq Qsos
    /\ answered \subseteq Entry /\ parked \subseteq Entry

\* Which of the two tasks is where, what it holds there, and whose call of the
\* spool is under way.
Control ==
    /\ opened <=> lpc # "off"
    /\ opened <=> wpc # "off"
    /\ shutdown => opened
    /\ ~shutdown => lpc # "done" /\ wpc # "done"
    /\ ~opened => parked = {}
    /\ wpc \in {"off", "done"} => chan = <<>>
    /\ replay # <<>> => lpc = "loop"
    /\ hand # None <=> lpc \in {"append", "appending", "send"}
    /\ cur # None <=> wpc \in {"resolve", "post", "settle", "removing"}
    /\ op.call = "append" <=> lpc = "appending"
    /\ op.call = "remove" <=> wpc = "removing"
    /\ lpc \in {"appending", "send"} => nextSeq > 1

\* What is queued is in ascending order and below the seq given out last.
Order ==
    /\ Ascending(chan) /\ Ascending(replay)
    /\ \A i \in ToSet(chan), j \in ToSet(replay) : i.seq < j.seq
    /\ cur # None => \A i \in ToSet(chan) \cup ToSet(replay) : cur.seq < i.seq
    /\ \A i \in Queued : i.seq < nextSeq
    /\ lpc \in {"appending", "send"} => \A i \in Queued : i.seq < nextSeq - 1

\* An item and an entry of the same seq are the same, the one being handed over
\* included; what is being removed is no longer in memory.
Own ==
    /\ \A i \in Queued \cup Sent, e \in ToSet(entries) : i.seq = e.seq => i = e
    /\ lpc = "appending" => Last(entries) = Item
    /\ wpc = "removing" => cur \notin ToSet(entries)

\* A record is appended once: it has one entry, whatever crashes and replays
\* there were, and none before its append.
Identity ==
    /\ \A a, b \in Known : a.adif = b.adif => a = b
    /\ \A a \in Known : a.adif \notin unsent
    /\ hand \notin unsent
    /\ lpc = "append" => \A a \in Known : a.adif # hand
    /\ (stray \cup accepted) \cap unsent = {}

\* A record accepted is settled, or the spool owes its entry to the disk: the
\* worker removes only what Wavelog has answered.
AccountedFor ==
    \A q \in accepted : q \in logged \cup refused \cup evicted \cup {e.adif : e \in promised}

Account ==
    /\ AccountedFor
    /\ wpc \in {"settle", "removing"} => cur.adif \in logged \cup refused

\* Unless something failed, a record received is in the listener's hands or its
\* append returned; a record that makes it panic is the exception.  The listener
\* lets go of it only then.
Kept ==
    /\ lpc = "send" => hand \in accepted
    /\ crashes = 0 /\ ioErrors = 0 =>
          Qsos \ unsent \subseteq accepted \cup {hand} \cup Unsliceable

\* NoOrphan, in terms of the sets.
Orphans ==
    opened /\ ~shutdown /\ ioErrors = 0 =>
        \A e \in ToSet(entries) :
            e \in Queued \cup Sent \cup parked \/ (lpc = "appending" /\ e = Last(entries))

\* Nothing has failed, and no record has made the listener panic.
Calm == crashes = 0 /\ ioErrors = 0 /\ Unsliceable \subseteq unsent

\* Then the file is whole and nothing answered is queued, in memory or on disk,
\* but the entry the worker is about to remove.
Answered ==
    Calm =>
        /\ ~stale
        /\ op.at # "newline" => file.tail = <<>>
        /\ ~opened => /\ op = Idle
                      /\ Clean(file)
                      /\ answered \cap ToSet(Parsed(file)) = {}
        /\ opened => answered \cap ToSet(entries) \subseteq {i \in {cur} : wpc = "settle"}
        /\ answered \cap (ToSet(chan) \cup ToSet(replay) \cup Sent) = {}
        /\ wpc \in {"resolve", "post"} => cur \notin answered

PInv ==
    /\ IInv /\ MirrorInv /\ FaultFree
    /\ PipeTypes /\ Control /\ Order /\ Own /\ Identity
    /\ Account /\ Kept /\ Orphans /\ Answered

-----------------------------------------------------------------------------
(* What the steps of the spool do to memory and to the text on disk.       *)

\* Empty queues.
LEMMA Empty == ToSet(<<>>) = {} /\ Ascending(<<>>)
BY DEF ToSet, Ascending

\* The chunks of a sequence of lines.
LEMMA ChunkOfLine ==
    ASSUME NEW f, NEW e, e \in Texts(f)
    PROVE  \E i \in DOMAIN Body(f) : \E c \in ToSet(Body(f)[i]) : c.entry = e
BY DEF Texts, Chunks

LEMMA LineOfChunk ==
    ASSUME NEW f, NEW i \in DOMAIN Body(f), NEW c \in ToSet(Body(f)[i])
    PROVE  c.entry \in Texts(f)
BY DEF Texts, Chunks

\* A write leaves text of its own entry only.
LEMMA TextsAfterWrite ==
    ASSUME NEW f \in File, NEW c \in Chunk
    PROVE  Texts(WriteTail(f, c)) \subseteq Texts(f) \cup {c.entry}
<1> DEFINE g == WriteTail(f, c)
           n == Len(f.lines) + 1
<1>0. f.lines \in Seq(Line) /\ f.tail \in Seq(Chunk)
  BY DEF File
<1>1. /\ DOMAIN Body(g) = 1..n
      /\ \A i \in 1..n : i < n => i \in DOMAIN Body(f) /\ Body(g)[i] = Body(f)[i]
      /\ \A d \in ToSet(Body(g)[n]) :
            d = c \/ (n \in DOMAIN Body(f) /\ d \in ToSet(Body(f)[n]))
  <2>1. CASE f.tail = <<>>
    <3>1. Body(f) = f.lines /\ Body(g) = Append(f.lines, <<c>>)
      BY <2>1, WriteTailBody
    <3>2. Body(g)[n] = <<c>> /\ ToSet(<<c>>) = {c}
      BY <1>0, <3>1 DEF ToSet
    <3> QED BY <1>0, <3>1, <3>2
  <2>2. CASE f.tail # <<>>
    <3>1. Body(f) = Append(f.lines, f.tail) /\ Body(g) = Append(f.lines, Append(f.tail, c))
      BY <2>2, WriteTailBody
    <3>2. Body(g)[n] = Append(f.tail, c) /\ Body(f)[n] = f.tail /\ n \in DOMAIN Body(f)
      BY <1>0, <3>1
    <3>3. ToSet(Append(f.tail, c)) \subseteq ToSet(f.tail) \cup {c}
      BY <1>0 DEF ToSet
    <3>4. DOMAIN Body(g) = 1..n
      BY <1>0, <3>1
    <3>5. \A i \in 1..n : i < n => i \in DOMAIN Body(f) /\ Body(g)[i] = Body(f)[i]
      BY <1>0, <3>1
    <3> QED BY <3>2, <3>3, <3>4, <3>5
  <2> QED BY <2>1, <2>2
<1> SUFFICES ASSUME NEW e \in Texts(g) PROVE e \in Texts(f) \cup {c.entry}
  OBVIOUS
<1>2. PICK i \in DOMAIN Body(g) : \E d \in ToSet(Body(g)[i]) : d.entry = e
  BY ChunkOfLine
<1>3. i < n \/ i = n
  BY <1>0, <1>1, <1>2
<1> QED BY <1>1, <1>2, <1>3, LineOfChunk

\* A rewritten file has text of the entries in memory only.
LEMMA TextsOfRewrite ==
    ASSUME NEW es \in Seq(Entry)
    PROVE  Texts(FileOf(es)) \subseteq ToSet(es)
<1> SUFFICES ASSUME NEW e \in Texts(FileOf(es)) PROVE e \in ToSet(es)
  OBVIOUS
<1>1. Body(FileOf(es)) = [i \in 1..Len(es) |-> <<Written("whole", es[i])>>]
  BY FileOfBody
<1>a. PICK i \in DOMAIN Body(FileOf(es)) : \E c \in ToSet(Body(FileOf(es))[i]) : c.entry = e
  BY ChunkOfLine
<1>2. i \in 1..Len(es) /\ \E c \in ToSet(<<Written("whole", es[i])>>) : c.entry = e
  BY <1>1, <1>a
<1>3. e = es[i]
  BY <1>2 DEF ToSet, Written
<1> QED BY <1>2, <1>3 DEF ToSet

\* What the last, unterminated line has text of.
LEMMA TextsOfTail ==
    ASSUME NEW f \in File
    PROVE  {d.entry : d \in ToSet(f.tail)} \subseteq Texts(f)
<1> SUFFICES ASSUME NEW d \in ToSet(f.tail) PROVE d.entry \in Texts(f)
  OBVIOUS
<1>1. f.lines \in Seq(Line) /\ f.tail # <<>>
  BY Empty DEF File
<1>2. Body(f) = Append(f.lines, f.tail)
  BY <1>1 DEF Body
<1>3. Len(f.lines) + 1 \in DOMAIN Body(f) /\ Body(f)[Len(f.lines) + 1] = f.tail
  BY <1>1, <1>2
<1> QED BY <1>3, LineOfChunk

\* A write that fails half-way has text of the entries it was given only.
LEMMA TextsOfBeginning ==
    ASSUME NEW es \in Seq(Entry), Ascending(es), NEW f \in Beginnings(es)
    PROVE  Texts(f) \subseteq ToSet(es)
<1>1. PICK n \in 0..(Len(es) - 1) :
         \/ f = FileOf(SubSeq(es, 1, n))
         \/ \E c \in {Written("whole", es[n + 1])} \cup CutShort(es[n + 1]) :
               f = WriteTail(FileOf(SubSeq(es, 1, n)), c)
  BY DEF Beginnings
<1>2. PICK e : e = es[n + 1]
  OBVIOUS
<1>3. n \in 0..Len(es) /\ n + 1 \in DOMAIN es
  OBVIOUS
<1>4. e \in Entry /\ e \in ToSet(es)
  BY <1>2, <1>3 DEF ToSet
<1>5. PICK rs : rs = SubSeq(es, 1, n)
  OBVIOUS
<1>6. rs \in Seq(Entry) /\ ToSet(rs) \subseteq ToSet(es)
  BY <1>3, <1>5, PrefixFacts
<1>7. FileOf(rs) \in File /\ Texts(FileOf(rs)) \subseteq ToSet(es)
  BY <1>6, FileOfBody, TextsOfRewrite
<1>8. CASE f = FileOf(rs)
  BY <1>7, <1>8
<1>9. CASE f # FileOf(rs)
  <2>1. PICK c \in {Written("whole", e)} \cup CutShort(e) : f = WriteTail(FileOf(rs), c)
    BY <1>1, <1>2, <1>5, <1>9
  <2>2. c \in Chunk /\ c.entry = e
    BY <1>4, <2>1, CutShortFacts DEF Written, Chunk, CutShort
  <2> QED BY <1>4, <1>7, <2>1, <2>2, TextsAfterWrite
<1> QED BY <1>8, <1>9

\* open reads entries of which the file has text.
LEMMA TextsParsed ==
    ASSUME NEW f \in File, Clean(f) \/ Truncated(f), AscendingFile(f)
    PROVE  ToSet(Parsed(f)) \subseteq Texts(f)
<1>1. Parsed(f) \in Seq(Entry) /\ Len(Parsed(f)) <= Len(Body(f)) /\ Body(f) \in Seq(Line)
  BY ParsedFacts, ReadIsMirrored, BodyType
<1> SUFFICES ASSUME NEW i \in DOMAIN Parsed(f) PROVE Parsed(f)[i] \in Texts(f)
  BY DEF ToSet
<1>2. i \in DOMAIN Body(f)
  BY <1>1
<1>3. Parsed(f)[i] = Body(f)[i][1].entry
  BY DEF Parsed
<1>4. Body(f)[i][1] \in ToSet(Body(f)[i])
  <2>1. Body(f)[i] \in Line
    BY <1>1, <1>2
  <2> QED BY <2>1 DEF Line, ToSet
<1> QED BY <1>2, <1>3, <1>4, LineOfChunk

\* The parts of what is on disk.
LEMMA DiskParts ==
    /\ \A f \in Found : Texts(f) \subseteq OnDisk
    /\ aside \subseteq OnDisk /\ damaged \subseteq OnDisk /\ exposed \subseteq OnDisk
<1>1. \A f \in Found : Texts(f) \subseteq InFiles
  BY DEF InFiles
<1> QED BY <1>1 DEF OnDisk

LEMMA DiskWithin ==
    ASSUME NEW S, \A f \in Found' : Texts(f) \subseteq S,
           aside' \subseteq S, damaged' \subseteq S, exposed' \subseteq S
    PROVE  OnDisk' \subseteq S
<1>1. InFiles' \subseteq S
  BY DEF InFiles
<1> QED BY <1>1 DEF OnDisk

\* open takes what it reads from the disk, and finds a process that is not there.
LEMMA OpenFacts ==
    ASSUME IInv, OpenStep
    PROVE  /\ ~opened /\ op = Idle
           /\ \/ opened' /\ op' = Idle
              \/ ~opened' /\ op' = [call |-> "open", at |-> "rename"]
           /\ ToSet(entries') \subseteq OnDisk /\ OnDisk' \subseteq OnDisk
           /\ UNCHANGED <<promised, crashes, ioErrors>>
<1>0. file \in File /\ AscendingFile(file) /\ file \in Found
  BY DEF IInv, TypeOK, ImagesInv, Found
<1>1. ASSUME Clean(file) \/ Truncated(file), entries' = Parsed(file)
      PROVE  ToSet(entries') \subseteq OnDisk
  BY <1>0, <1>1, TextsParsed DEF InFiles, OnDisk
<1>2. ToSet(<<>>) = {} /\ Texts(NoFile) = {}
  BY NoFileFacts DEF ToSet, Texts, Chunks
<1>3. CASE OpenClean
  BY <1>1, <1>3 DEF OpenClean, OpenReading, disk, marks, faults, InFiles, OnDisk, Found
<1>4. CASE OpenTruncated
  BY <1>1, <1>4 DEF OpenTruncated, OpenReading, disk, past, marks, faults, InFiles, OnDisk, Found, Idle
<1>5. CASE OpenCorrupt
  <2>1. /\ ~opened /\ op = Idle /\ opened' = TRUE /\ op' = op
        /\ entries' = <<>> /\ images' = {NoFile} /\ older' = images \cup older \cup {NoFile}
        /\ aside' = aside \cup Texts(file)
        /\ UNCHANGED <<promised, exposed, damaged, crashes, ioErrors>>
    BY <1>5 DEF OpenCorrupt, OpenReading, Forget, marks, faults, Found, Texts
  <2>2. Found' = Found \cup {NoFile}
    BY <2>1 DEF Found
  <2>3. Texts(file) \subseteq OnDisk
    BY <1>0 DEF InFiles, OnDisk
  <2>4. OnDisk' \subseteq OnDisk
    <3>1. \A f \in Found' : Texts(f) \subseteq OnDisk
      BY <1>2, <2>2, DiskParts
    <3>2. aside' \subseteq OnDisk /\ damaged' \subseteq OnDisk /\ exposed' \subseteq OnDisk
      BY <2>1, <2>3, DiskParts
    <3> QED BY <3>1, <3>2, DiskWithin
  <2> QED BY <1>2, <2>1, <2>4
<1> QED BY <1>3, <1>4, <1>5 DEF OpenStep

\* Writing leaves memory alone and puts text of its entries on disk; the last
\* step of an append promises its entry.
LEMMA WriteFacts ==
    ASSUME IInv, WriteStep
    PROVE  /\ op # Idle
           /\ UNCHANGED <<entries, nextSeq, crashes, ioErrors>>
           /\ OnDisk' \subseteq OnDisk \cup ToSet(entries)
           /\ \/ /\ op' # Idle /\ op'.call = op.call
                 /\ opened' = opened /\ promised' = promised
              \/ /\ op' = Idle /\ opened'
                 /\ promised' = promised \cup {e \in {Last(entries)} : op.call = "append"}
<1>0. /\ file \in File /\ file \in images /\ file \in Found /\ entries \in Seq(Entry)
      /\ op \in [call : Calls, at : Steps]
  BY DEF IInv, TypeOK, ImagesInv, Found
<1>t. Texts(file) \subseteq OnDisk
  BY <1>0 DEF InFiles, OnDisk
<1>1. ASSUME NEW at \in Steps \ {"none"}, Goto(at)
      PROVE  op' # Idle /\ op'.call = op.call
  BY <1>0, <1>1 DEF Goto, Idle
<1>2. CASE WriteLine
  <2>1. At("line") /\ op.call = "append" /\ opened
    BY <1>2, LineShape DEF WriteLine, At
  <2>2. /\ file' = WriteTail(file, Written("whole", Last(entries)))
        /\ images' = images \cup {file'} \cup {WriteTail(file, c) : c \in CutShort(Last(entries))}
        /\ damaged' \subseteq damaged \cup {Last(entries)} \cup {d.entry : d \in ToSet(file.tail)}
        /\ Goto("newline")
        /\ UNCHANGED <<older, aside, opened, promised, exposed, entries, nextSeq, crashes, ioErrors>>
    BY <1>2 DEF WriteLine, Glue, memory, faults
  <2>3. /\ Last(entries) \in Entry /\ Last(entries) \in ToSet(entries)
        /\ Written("whole", Last(entries)) \in Chunk
    BY <2>1, LastFacts
  <2>4. \A c \in CutShort(Last(entries)) \cup {Written("whole", Last(entries))} :
           c \in Chunk /\ c.entry = Last(entries)
    BY <2>3, CutShortFacts DEF CutShort, Written
  <2>5. \A c \in CutShort(Last(entries)) \cup {Written("whole", Last(entries))} :
           Texts(WriteTail(file, c)) \subseteq OnDisk \cup ToSet(entries)
    BY <1>0, <1>t, <2>3, <2>4, TextsAfterWrite
  <2>a. \A f \in Found' : Texts(f) \subseteq OnDisk \cup ToSet(entries)
    <3> SUFFICES ASSUME NEW f \in Found' PROVE Texts(f) \subseteq OnDisk \cup ToSet(entries)
      OBVIOUS
    <3>1. f \in Found \/ \E c \in CutShort(Last(entries)) \cup {Written("whole", Last(entries))} :
                            f = WriteTail(file, c)
      BY <2>2 DEF Found
    <3> QED BY <2>5, <3>1 DEF InFiles, OnDisk
  <2>b. /\ damaged' \subseteq OnDisk \cup ToSet(entries)
        /\ aside' \subseteq OnDisk \cup ToSet(entries)
        /\ exposed' \subseteq OnDisk \cup ToSet(entries)
    <3>1. {d.entry : d \in ToSet(file.tail)} \subseteq OnDisk
      BY <1>0, <1>t, TextsOfTail
    <3> QED BY <2>2, <2>3, <3>1, DiskParts
  <2>6. OnDisk' \subseteq OnDisk \cup ToSet(entries)
    BY <2>a, <2>b, DiskWithin
  <2>7. op' # Idle /\ op'.call = op.call
    BY <1>1, <2>2 DEF Steps
  <2>8. op # Idle
    BY <2>1 DEF Idle
  <2> QED BY <2>2, <2>6, <2>7, <2>8
<1>3. CASE WriteNewline
  <2>1. /\ At("newline") /\ file' = EndLine(file) /\ images' = images \cup {file'}
        /\ Goto("sync")
        /\ UNCHANGED <<older, aside, opened, promised, exposed, damaged, entries, nextSeq,
                       crashes, ioErrors>>
    BY <1>3 DEF WriteNewline, memory, past, marks, faults
  <2>2. Body(file') = Body(file)
    BY <1>0, <2>1, EndLineBody DEF IInv, LastWritten
  <2>3. Texts(file') = Texts(file)
    BY <2>2 DEF Texts, Chunks
  <2>4. OnDisk' \subseteq OnDisk
    BY <1>0, <2>1, <2>3 DEF InFiles, OnDisk, Found
  <2>5. op' # Idle /\ op'.call = op.call
    BY <1>1, <2>1 DEF Steps
  <2>6. op # Idle
    BY <2>1 DEF At, Idle
  <2> QED BY <2>1, <2>4, <2>5, <2>6
<1>4. CASE SyncData
  <2>1. /\ At("sync") /\ images' = {file} /\ op' = Idle
        /\ promised' = promised \cup {Last(entries)}
        /\ exposed' \subseteq exposed \cup {Last(entries)}
        /\ UNCHANGED <<file, older, aside, damaged, opened, entries, nextSeq, crashes, ioErrors>>
    BY <1>4 DEF SyncData, Synced, Expose, memory, faults
  <2>2. op.call = "append" /\ opened /\ op # Idle
    BY <2>1, LineShape DEF At, Idle
  <2>3. Last(entries) \in ToSet(entries)
    BY <2>2, LastFacts
  <2>4. Found' \subseteq Found
    BY <1>0, <2>1 DEF Found
  <2>5. OnDisk' \subseteq OnDisk \cup ToSet(entries)
    <3>1. \A f \in Found' : Texts(f) \subseteq OnDisk \cup ToSet(entries)
      BY <2>4, DiskParts
    <3>2. /\ damaged' \subseteq OnDisk \cup ToSet(entries)
          /\ aside' \subseteq OnDisk \cup ToSet(entries)
          /\ exposed' \subseteq OnDisk \cup ToSet(entries)
      BY <2>1, <2>3, DiskParts
    <3> QED BY <3>1, <3>2, DiskWithin
  <2> QED BY <2>1, <2>2, <2>5
<1>5. CASE Rename
  <2>1. /\ At("rename") /\ file' = FileOf(entries) /\ Found' = Found \cup {file'}
        /\ Goto("syncdir")
        /\ UNCHANGED <<aside, opened, promised, exposed, damaged, entries, nextSeq,
                       crashes, ioErrors>>
    BY <1>5 DEF Rename, Renamed, Found, memory, faults
  <2>2. OnDisk' \subseteq OnDisk \cup ToSet(entries)
    BY <1>0, <2>1, TextsOfRewrite DEF InFiles, OnDisk
  <2>3. op' # Idle /\ op'.call = op.call
    BY <1>1, <2>1 DEF Steps
  <2>4. op # Idle
    BY <2>1 DEF At, Idle
  <2> QED BY <2>1, <2>2, <2>3, <2>4
<1>6. CASE SyncDir
  <2>1. /\ At("syncdir") /\ op' = Idle /\ opened' /\ Found' \subseteq Found
        /\ promised' = promised \cup {e \in {Last(entries)} : op.call = "append"}
        /\ exposed' \subseteq exposed \cup (promised' \ promised) /\ damaged' \subseteq damaged
        /\ UNCHANGED <<file, aside, entries, nextSeq, crashes, ioErrors>>
    BY <1>6 DEF SyncDir, Expose, Found, memory, faults
  <2>2. op # Idle
    BY <2>1 DEF At, Idle
  <2>3. op.call = "append" => Last(entries) \in ToSet(entries)
    BY LastFacts DEF IInv, OpShape
  <2>4. promised' \ promised \subseteq ToSet(entries)
    BY <2>1, <2>3
  <2>5. OnDisk' \subseteq OnDisk \cup ToSet(entries)
    <3>1. \A f \in Found' : Texts(f) \subseteq OnDisk \cup ToSet(entries)
      BY <2>1, DiskParts
    <3>2. /\ damaged' \subseteq OnDisk \cup ToSet(entries)
          /\ aside' \subseteq OnDisk \cup ToSet(entries)
          /\ exposed' \subseteq OnDisk \cup ToSet(entries)
      BY <2>1, <2>4, DiskParts
    <3> QED BY <3>1, <3>2, DiskWithin
  <2> QED BY <2>1, <2>2, <2>5
<1> QED BY <1>2, <1>3, <1>4, <1>5, <1>6 DEF WriteStep

\* A write that fails unseen: its call goes on, with no more text on disk.
LEMMA LostWriteFacts ==
    ASSUME IInv, LostWrite
    PROVE  /\ op # Idle /\ op' # Idle /\ op'.call = op.call
           /\ UNCHANGED <<opened, entries, nextSeq, promised, crashes>>
           /\ ioErrors \in Nat /\ ioErrors' = ioErrors + 1
           /\ OnDisk' \subseteq OnDisk \cup ToSet(entries)
<1>0. op \in [call : Calls, at : Steps] /\ ioErrors \in Nat
  BY BoundsAssumption DEF IInv, TypeOK
<1>1. ioErrors' = ioErrors + 1 /\ crashes' = crashes
  BY DEF LostWrite
<1>2. CASE LostNewline
  <2>1. /\ At("newline") /\ Goto("sync")
        /\ UNCHANGED <<images, older, aside, exposed, damaged, opened, entries, nextSeq, promised>>
    BY <1>2 DEF LostNewline, disk, memory, past, marks
  <2>2. OnDisk' = OnDisk
    BY <2>1 DEF InFiles, OnDisk, Found
  <2>3. op # Idle /\ op' # Idle /\ op'.call = op.call
    BY <1>0, <2>1 DEF Goto, At, Idle
  <2> QED BY <1>0, <1>1, <2>1, <2>2, <2>3
<1>3. CASE LostRewrite
  <2>1. /\ At("rename") /\ Goto("syncdir") /\ file' \in Beginnings(entries)
        /\ Found' = Found \cup {file'} /\ damaged' \subseteq damaged \cup ToSet(entries)
        /\ UNCHANGED <<aside, exposed, opened, entries, nextSeq, promised>>
    BY <1>3 DEF LostRewrite, Renamed, Found, memory
  <2>2. op # Idle /\ op' # Idle /\ op'.call = op.call
    BY <1>0, <2>1 DEF Goto, At, Idle
  <2>3. entries \in Seq(Entry) /\ Ascending(entries)
    BY <2>1, <2>2 DEF IInv, TypeOK, OpShape, SeqInv, Loading, At, Idle
  <2>4. Texts(file') \subseteq ToSet(entries)
    BY <2>1, <2>3, TextsOfBeginning
  <2>5. OnDisk' \subseteq OnDisk \cup ToSet(entries)
    <3>1. \A f \in Found' : Texts(f) \subseteq OnDisk \cup ToSet(entries)
      BY <2>1, <2>4, DiskParts
    <3>2. /\ damaged' \subseteq OnDisk \cup ToSet(entries)
          /\ aside' \subseteq OnDisk \cup ToSet(entries)
          /\ exposed' \subseteq OnDisk \cup ToSet(entries)
      BY <2>1, DiskParts
    <3> QED BY <3>1, <3>2, DiskWithin
  <2> QED BY <1>0, <1>1, <2>1, <2>2, <2>5
<1> QED BY <1>2, <1>3 DEF LostWrite

\* A failed call is over: nothing is promised, an open forgets what it read.
LEMMA IoErrorFacts ==
    ASSUME IInv, IoError
    PROVE  /\ op # Idle /\ op' = Idle /\ opened' = opened
           /\ nextSeq' = (IF op.call = "open" THEN 1 ELSE nextSeq)
           /\ entries' = (IF op.call = "open" THEN <<>> ELSE entries)
           /\ ioErrors \in Nat /\ ioErrors' = ioErrors + 1
           /\ OnDisk' \subseteq OnDisk \cup ToSet(entries)
           /\ UNCHANGED <<promised, crashes>>
<1>0. file \in File /\ file \in images /\ file \in Found /\ ioErrors \in Nat
  BY BoundsAssumption DEF IInv, TypeOK, ImagesInv, Found
<1>1. /\ op # Idle /\ op' = Idle /\ opened' = opened
      /\ nextSeq' = (IF op.call = "open" THEN 1 ELSE nextSeq)
      /\ entries' = (IF op.call = "open" THEN <<>> ELSE entries)
      /\ ioErrors' = ioErrors + 1
      /\ UNCHANGED <<older, aside, promised, exposed, crashes>>
      /\ \/ UNCHANGED <<file, images, damaged>>
         \/ /\ At("line")
            /\ \E c \in CutShort(Last(entries)) : file' = WriteTail(file, c)
            /\ images' = images \cup {file'}
            /\ damaged' \subseteq damaged \cup {d.entry : d \in ToSet(file.tail)}
  BY DEF IoError, Forget, memory
<1>t. Texts(file) \subseteq OnDisk
  BY <1>0 DEF InFiles, OnDisk
<1>2. CASE UNCHANGED <<file, images, damaged>>
  BY <1>0, <1>1, <1>2 DEF InFiles, OnDisk, Found
<1>3. CASE /\ At("line")
           /\ \E c \in CutShort(Last(entries)) : file' = WriteTail(file, c)
           /\ images' = images \cup {file'}
           /\ damaged' \subseteq damaged \cup {d.entry : d \in ToSet(file.tail)}
  <2>1. PICK c \in CutShort(Last(entries)) : file' = WriteTail(file, c)
    BY <1>3
  <2>2. Last(entries) \in Entry /\ Last(entries) \in ToSet(entries)
    BY <1>3, LineShape, LastFacts DEF At
  <2>3. c \in Chunk /\ c.entry = Last(entries)
    BY <2>2, CutShortFacts DEF CutShort, Written
  <2>4. Texts(file') \subseteq OnDisk \cup ToSet(entries)
    BY <1>0, <1>t, <2>1, <2>2, <2>3, TextsAfterWrite
  <2>5. Found' = Found \cup {file'}
    BY <1>1, <1>3 DEF Found
  <2>6. damaged' \subseteq OnDisk
    <3>1. {d.entry : d \in ToSet(file.tail)} \subseteq OnDisk
      BY <1>0, <1>t, TextsOfTail
    <3> QED BY <1>3, <3>1, DiskParts
  <2>7. OnDisk' \subseteq OnDisk \cup ToSet(entries)
    <3>1. \A f \in Found' : Texts(f) \subseteq OnDisk \cup ToSet(entries)
      BY <2>4, <2>5, DiskParts
    <3>2. /\ damaged' \subseteq OnDisk \cup ToSet(entries)
          /\ aside' \subseteq OnDisk \cup ToSet(entries)
          /\ exposed' \subseteq OnDisk \cup ToSet(entries)
      BY <1>1, <2>6, DiskParts
    <3> QED BY <3>1, <3>2, DiskWithin
  <2> QED BY <1>0, <1>1, <2>7
<1> QED BY <1>1, <1>2, <1>3

\* The end of the process leaves what is promised, and what was on disk.
LEMMA CrashFacts ==
    ASSUME IInv, Crash
    PROVE  /\ Stop
           /\ OnDisk' \subseteq OnDisk
           /\ promised' = promised
           /\ crashes \in Nat /\ crashes' = crashes + 1
           /\ UNCHANGED ioErrors
<1>0. crashes \in Nat
  BY BoundsAssumption DEF IInv, TypeOK
<1>1. CASE Kill
  BY <1>0, <1>1 DEF Kill, disk, past, marks, InFiles, OnDisk, Found
<1>2. CASE PowerLoss
  <2>1. /\ file' \in Found /\ images' = {file'} /\ older' \subseteq {file'}
        /\ exposed' = {} /\ damaged' \subseteq damaged \cup exposed
        /\ Stop /\ crashes' = crashes + 1
        /\ UNCHANGED <<aside, promised, ioErrors>>
    BY <1>2 DEF PowerLoss
  <2>2. Found' = {file'} /\ Texts(file') \subseteq OnDisk
    BY <2>1 DEF Found, InFiles, OnDisk
  <2>3. OnDisk' \subseteq OnDisk
    BY <2>1, <2>2 DEF InFiles, OnDisk
  <2> QED BY <1>0, <2>1, <2>3
<1> QED BY <1>1, <1>2 DEF Crash

-----------------------------------------------------------------------------
(* Queues of entries.                                                      *)

\* The first of a queue in order, and the others.
LEMMA HeadFacts ==
    ASSUME NEW es \in Seq(Entry), es # <<>>, Ascending(es)
    PROVE  /\ Head(es) \in Entry /\ Tail(es) \in Seq(Entry)
           /\ Len(Tail(es)) = Len(es) - 1
           /\ Ascending(Tail(es))
           /\ ToSet(es) = {Head(es)} \cup ToSet(Tail(es))
           /\ \A i \in ToSet(Tail(es)) : Head(es).seq < i.seq
<1> DEFINE ts == Tail(es)
<1>1. /\ Len(es) \in Nat \ {0} /\ DOMAIN es = 1..Len(es)
      /\ Head(es) = es[1] /\ Head(es) \in Entry
      /\ ts \in Seq(Entry) /\ Len(ts) = Len(es) - 1 /\ DOMAIN ts = 1..(Len(es) - 1)
      /\ \A i \in 1..(Len(es) - 1) : ts[i] = es[i + 1]
  OBVIOUS
<1> HIDE DEF ts
<1>2. Ascending(ts)
  <2> SUFFICES ASSUME NEW i \in DOMAIN ts, NEW j \in DOMAIN ts, i < j
               PROVE  ts[i].seq < ts[j].seq
    BY DEF Ascending
  <2>1. i + 1 \in DOMAIN es /\ j + 1 \in DOMAIN es /\ i + 1 < j + 1
    BY <1>1
  <2>2. es[i + 1].seq < es[j + 1].seq
    BY <2>1 DEF Ascending
  <2> QED BY <1>1, <2>2
<1>3. ToSet(es) = {Head(es)} \cup ToSet(ts)
  <2>1. \A i \in DOMAIN es : i = 1 \/ (i - 1 \in DOMAIN ts /\ ts[i - 1] = es[i])
    BY <1>1
  <2>2. \A i \in DOMAIN ts : i + 1 \in DOMAIN es /\ ts[i] = es[i + 1]
    BY <1>1
  <2>3. 1 \in DOMAIN es
    BY <1>1
  <2>4. ToSet(es) \subseteq {Head(es)} \cup ToSet(ts)
    BY <1>1, <2>1 DEF ToSet
  <2>5. Head(es) \in ToSet(es) /\ ToSet(ts) \subseteq ToSet(es)
    BY <1>1, <2>2, <2>3 DEF ToSet
  <2> QED BY <2>4, <2>5
<1>4. \A i \in DOMAIN ts : Head(es).seq < ts[i].seq
  <2> SUFFICES ASSUME NEW i \in DOMAIN ts PROVE Head(es).seq < ts[i].seq
    OBVIOUS
  <2>1. 1 \in DOMAIN es /\ i + 1 \in DOMAIN es /\ 1 < i + 1
    BY <1>1
  <2>2. es[1].seq < es[i + 1].seq
    BY <2>1 DEF Ascending
  <2> QED BY <1>1, <2>2
<1> QED BY <1>1, <1>2, <1>3, <1>4 DEF ts, ToSet

\* The members of a queue are entries, and their seqs positive numbers.
LEMMA Members ==
    ASSUME NEW es \in Seq(Entry), NEW i \in ToSet(es)
    PROVE  i \in Entry /\ i.seq \in Nat \ {0} /\ i.adif \in Qsos
<1>1. i \in Entry
  BY DEF ToSet
<1> QED BY <1>1 DEF Entry

\* No two entries of a queue in order have the same seq.
LEMMA SameSeq ==
    ASSUME NEW es \in Seq(Entry), Ascending(es), NEW a \in ToSet(es), NEW b \in ToSet(es),
           a.seq = b.seq
    PROVE  a = b
<1>1. PICK i \in DOMAIN es : a = es[i]
  BY DEF ToSet
<1>2. PICK j \in DOMAIN es : b = es[j]
  BY DEF ToSet
<1>3. ~(i < j) /\ ~(j < i)
  BY <1>1, <1>2, Members DEF Ascending
<1> QED BY <1>1, <1>2, <1>3

\* A queue in order followed by another, all of it above, is in order.
LEMMA Concatenation ==
    ASSUME NEW es \in Seq(Entry), NEW fs \in Seq(Entry), Ascending(es), Ascending(fs),
           \A i \in ToSet(es), j \in ToSet(fs) : i.seq < j.seq
    PROVE  /\ es \o fs \in Seq(Entry)
           /\ Ascending(es \o fs)
           /\ ToSet(es \o fs) = ToSet(es) \cup ToSet(fs)
<1> DEFINE gs == es \o fs
           n == Len(es)
<1>1. /\ gs \in Seq(Entry) /\ n \in Nat /\ Len(fs) \in Nat
      /\ DOMAIN es = 1..n /\ DOMAIN fs = 1..Len(fs) /\ DOMAIN gs = 1..(n + Len(fs))
      /\ \A i \in 1..n : gs[i] = es[i]
      /\ \A i \in 1..Len(fs) : gs[n + i] = fs[i]
  OBVIOUS
<1> HIDE DEF gs, n
<1>2. \A i \in DOMAIN gs : \/ i \in DOMAIN es /\ gs[i] = es[i]
                           \/ i > n /\ i - n \in DOMAIN fs /\ gs[i] = fs[i - n]
  <2> SUFFICES ASSUME NEW i \in DOMAIN gs, i > n
               PROVE  i - n \in DOMAIN fs /\ gs[i] = fs[i - n]
    BY <1>1
  <2>1. i - n \in 1..Len(fs) /\ n + (i - n) = i
    BY <1>1
  <2> QED BY <1>1, <2>1
<1>3. Ascending(gs)
  <2> SUFFICES ASSUME NEW i \in DOMAIN gs, NEW j \in DOMAIN gs, i < j
               PROVE  gs[i].seq < gs[j].seq
    BY DEF Ascending
  <2>1. CASE i \in DOMAIN es /\ j \in DOMAIN es
    BY <1>1, <2>1 DEF Ascending
  <2>2. CASE i \in DOMAIN es /\ j \notin DOMAIN es
    <3>1. gs[i] = es[i] /\ j - n \in DOMAIN fs /\ gs[j] = fs[j - n]
      BY <1>1, <1>2, <2>2
    <3>2. es[i] \in ToSet(es) /\ fs[j - n] \in ToSet(fs)
      BY <2>2, <3>1 DEF ToSet
    <3> QED BY <3>1, <3>2
  <2>3. CASE i \notin DOMAIN es
    <3>1. i - n \in DOMAIN fs /\ j - n \in DOMAIN fs /\ i - n < j - n
      BY <1>1, <1>2, <2>3
    <3>2. gs[i] = fs[i - n] /\ gs[j] = fs[j - n]
      BY <1>1, <1>2, <2>3, <3>1
    <3> QED BY <3>1, <3>2 DEF Ascending
  <2> QED BY <2>1, <2>2, <2>3
<1>4. ToSet(gs) = ToSet(es) \cup ToSet(fs)
  <2>1. \A i \in DOMAIN es : i \in DOMAIN gs /\ gs[i] = es[i]
    BY <1>1
  <2>2. \A i \in DOMAIN fs : n + i \in DOMAIN gs /\ gs[n + i] = fs[i]
    BY <1>1
  <2> QED BY <1>2, <2>1, <2>2 DEF ToSet
<1> QED BY <1>1, <1>3, <1>4 DEF gs

-----------------------------------------------------------------------------
(* The steps of the two tasks are steps of the spool.                      *)

\* What is in memory is in order and below the next seq.
LEMMA MemoryFacts ==
    ASSUME IInv, Loading
    PROVE  /\ entries \in Seq(Entry) /\ nextSeq \in Nat \ {0} /\ Ascending(entries)
           /\ \A i \in ToSet(entries) : i \in Entry /\ i.seq < nextSeq
<1>1. /\ entries \in Seq(Entry) /\ nextSeq \in Nat \ {0} /\ Ascending(entries)
      /\ \A i \in DOMAIN entries : entries[i].seq < nextSeq
  BY DEF IInv, TypeOK, SeqInv
<1> QED BY <1>1 DEF ToSet

\* The records in the tasks' hands.
LEMMA HandFacts ==
    ASSUME PipeTypes, Control
    PROVE  /\ None \notin Entry \cup Qsos
           /\ lpc \in {"append", "appending", "send"} => hand \in Qsos
           /\ wpc \in {"resolve", "post", "settle", "removing"} =>
                 cur \in Entry /\ cur.seq \in Nat \ {0} /\ cur.adif \in Qsos
BY NoneAssumption DEF PipeTypes, PipeTypeOK, Control, Items, Entry

\* WSJT-X submits a record once.
LEMMA UnsentShrinks == [PipeNext]_pipeVars => unsent' \subseteq unsent
BY DEF PipeNext, pipeVars, vars, Boot, Exit, L_Recv, Listener, Worker, SpoolWrite, SpoolError, SpoolLoss,
       StrayArrives, Signal, PipeCrash, L_Replay, L_ReplayClosed, L_Append, L_Send, L_Stop,
       W_Recv, W_Closed, W_Resolved, W_Unresolved, W_Answer, W_Fail, W_Remove, W_NoEntry, W_Stop

\* No step of the pipeline does to the spool what its callers do not do.
LEMMA SpoolSteps ==
    ASSUME PInv, [PipeNext]_pipeVars PROVE SpoolStep
<1>0. unsent \subseteq Qsos /\ PipeTypes /\ Control
  BY DEF PInv, IInv, TypeOK
<1>1. unsent' \subseteq unsent
  BY UnsentShrinks
<1>2. CASE Boot \/ SpoolWrite \/ SpoolError \/ SpoolLoss \/ PipeCrash
  BY <1>0, <1>1, <1>2 DEF Boot, SpoolWrite, SpoolError, SpoolLoss, PipeCrash, SpoolStep
<1>3. CASE Exit
  BY <1>0, <1>1, <1>3 DEF Exit, Close, Halt, At, Idle, SpoolStep
<1>4. CASE \E q \in Qsos : L_Recv(q)
  <2>1. PICK q \in Qsos : L_Recv(q)
    BY <1>4
  <2>2. ~At("newline")
    BY <1>0, <2>1 DEF L_Recv, Primed, Control, PInv, IInv, OpShape, At, Idle
  <2> QED BY <1>0, <1>1, <2>1, <2>2 DEF L_Recv, Abort, Halt, SpoolStep
<1>5. CASE L_Append
  BY <1>0, <1>1, <1>5, HandFacts DEF L_Append, SpoolStep
<1>6. CASE W_Remove
  BY <1>0, <1>1, <1>6, HandFacts DEF W_Remove, SpoolStep
<1>7. CASE L_Replay \/ L_ReplayClosed \/ L_Send \/ L_Stop
  BY <1>0, <1>1, <1>7 DEF L_Replay, L_ReplayClosed, L_Send, L_Stop, vars, SpoolStep
<1>8. CASE W_Recv \/ W_Closed \/ W_Resolved \/ W_Unresolved \/ W_Answer \/ W_Fail
           \/ W_NoEntry \/ W_Stop
  BY <1>0, <1>1, <1>8 DEF W_Recv, W_Closed, W_Resolved, W_Unresolved, W_Answer, W_Fail,
                          W_NoEntry, W_Stop, vars, SpoolStep
<1>9. CASE StrayArrives \/ Signal \/ UNCHANGED pipeVars
  BY <1>0, <1>1, <1>9 DEF StrayArrives, Signal, pipeVars, vars, SpoolStep
<1> QED BY <1>2, <1>3, <1>4, <1>5, <1>6, <1>7, <1>8, <1>9 DEF PipeNext, Listener, Worker

\* A task's own step, which leaves the spool as it is.
TaskStep ==
    \/ L_Replay \/ L_ReplayClosed \/ L_Send \/ L_Stop
    \/ W_Recv \/ W_Closed \/ W_Resolved \/ W_Unresolved \/ W_Answer \/ W_Fail
    \/ W_NoEntry \/ W_Stop
    \/ StrayArrives \/ Signal

\* The process ends, one way or another.
Ending ==
    /\ Stop /\ TasksOff
    /\ stray' \subseteq stray \cup {i.adif : i \in Held}
    /\ logged \subseteq logged' /\ logged' \subseteq logged \cup {i.adif : i \in Held}
    /\ OnDisk' \subseteq OnDisk
    /\ UNCHANGED <<promised, refused, accepted, evicted, answered>>

\* The ways for the process to end.
LEMMA Endings ==
    ASSUME PInv, \/ Exit \/ PipeCrash
                 \/ \E q \in Unsliceable : L_Recv(q)
    PROVE  Ending
<1>1. wpc = "post" => cur \in Held
  <2>1. PipeTypes /\ Control
    BY DEF PInv
  <2> QED BY <2>1 DEF Control, Held
<1>k. UNCHANGED <<disk, past>> => OnDisk' = OnDisk
  BY DEF disk, past, marks, InFiles, OnDisk, Found
<1>2. CASE Exit
  BY <1>k, <1>2 DEF Exit, Close, wavelogVars, past, Ending
<1>3. CASE PipeCrash
  <2>1. Stop /\ OnDisk' \subseteq OnDisk /\ promised' = promised
    BY <1>3, CrashFacts DEF PInv, PipeCrash
  <2>2. /\ TasksOff
        /\ RequestCut
        /\ UNCHANGED <<accepted, evicted, answered>>
    BY <1>3 DEF PipeCrash
  <2> QED BY <1>1, <2>1, <2>2 DEF RequestCut, Ending
<1>4. CASE \E q \in Unsliceable : L_Recv(q)
  <2>1. Abort
    BY <1>4 DEF L_Recv
  <2> QED BY <1>1, <1>k, <2>1 DEF Abort, RequestCut, past, Ending
<1> QED BY <1>2, <1>3, <1>4

\* Steps of the pipeline, by what they do to the spool.
LEMMA StepCases ==
    ASSUME [PipeNext]_pipeVars
    PROVE  \/ Boot \/ Exit \/ PipeCrash
           \/ \E q \in Qsos : L_Recv(q)
           \/ L_Append \/ W_Remove \/ SpoolWrite \/ SpoolError \/ SpoolLoss
           \/ TaskStep
           \/ UNCHANGED pipeVars
BY DEF PipeNext, Listener, Worker, TaskStep



\* What a step of a call of the spool does to memory and to the caller: the call
\* goes on, or it returns to main, to the listener or to the worker.
Goes ==
    /\ op' # Idle /\ op'.call = op.call
    /\ UNCHANGED <<opened, memory, promised>>
    /\ UNCHANGED <<shutdown, listenerVars, chan, workerVars, wavelogVars, historyVars>>

Opens ==
    /\ op.call = "open" /\ op' = Idle /\ opened'
    /\ UNCHANGED <<memory, promised>>
    /\ Spawn

OpenFails ==
    /\ op.call = "open" /\ op' = Idle /\ ioErrors' # 0
    /\ Forget
    /\ UNCHANGED <<opened, promised>>
    /\ TasksOff /\ UNCHANGED <<wavelogVars, accepted, evicted, answered>>

Appends ==
    /\ op.call = "append" /\ op' = Idle
    /\ promised' = promised \cup {Last(entries)}
    /\ lpc' = "send" /\ hand' = hand /\ accepted' = accepted \cup {hand}
    /\ UNCHANGED <<opened, memory>>
    /\ UNCHANGED <<shutdown, replay, chan, workerVars, wavelogVars, evicted, answered, parked>>

AppendFails ==
    /\ op.call = "append" /\ op' = Idle /\ ioErrors' # 0
    /\ lpc' = "loop" /\ hand' = None
    /\ UNCHANGED <<opened, memory, promised>>
    /\ UNCHANGED <<shutdown, replay, chan, workerVars, wavelogVars, historyVars>>

Removes ==
    /\ op.call = "remove" /\ op' = Idle
    /\ wpc' = "recv" /\ WorkerIdle
    /\ UNCHANGED <<opened, memory, promised>>
    /\ UNCHANGED <<shutdown, listenerVars, chan, wavelogVars, historyVars>>

\* Every step of a call is one of these.
LEMMA CallCases ==
    ASSUME PInv, SpoolWrite \/ SpoolError \/ SpoolLoss
    PROVE  /\ op # Idle /\ op.call \in {"open", "append", "remove"} /\ unsent' = unsent
           /\ Goes \/ Opens \/ OpenFails \/ Appends \/ AppendFails \/ Removes
           /\ OnDisk' \subseteq OnDisk \cup ToSet(entries)
<1> USE DEF Goes, Opens, OpenFails, Appends, AppendFails, Removes, memory, Forget
<1>0. IInv /\ (op # Idle => op.call \in {"open", "append", "remove"})
      /\ (op.call \in {"append", "remove"} => opened)
  BY DEF PInv, IInv, OpShape, Idle
<1>1. CASE SpoolWrite
  <2>1. /\ op # Idle
        /\ UNCHANGED <<entries, nextSeq, crashes, ioErrors>>
        /\ OnDisk' \subseteq OnDisk \cup ToSet(entries)
        /\ \/ /\ op' # Idle /\ op'.call = op.call
              /\ opened' = opened /\ promised' = promised
           \/ /\ op' = Idle /\ opened'
              /\ promised' = promised \cup {e \in {Last(entries)} : op.call = "append"}
    BY <1>0, <1>1, WriteFacts DEF SpoolWrite
  <2>2. CASE op' # Idle
    BY <1>0, <1>1, <2>1, <2>2 DEF SpoolWrite
  <2>3. CASE op' = Idle
    <3>1. Returned(TRUE)
      BY <1>1, <2>3 DEF SpoolWrite
    <3>2. unsent' = unsent
      BY <1>1 DEF SpoolWrite
    <3>3. CASE op.call = "open"
      BY <1>0, <2>1, <2>3, <3>1, <3>2, <3>3 DEF Returned
    <3>4. CASE op.call = "append"
      BY <1>0, <2>1, <2>3, <3>1, <3>2, <3>4 DEF Returned, IInv, TypeOK
    <3>5. CASE op.call = "remove"
      BY <1>0, <2>1, <2>3, <3>1, <3>2, <3>5 DEF Returned, IInv, TypeOK
    <3> QED BY <1>0, <2>1, <3>3, <3>4, <3>5
  <2> QED BY <2>2, <2>3
<1>2. CASE SpoolError
  <2>1. /\ op # Idle /\ op' = Idle /\ opened' = opened
        /\ nextSeq' = (IF op.call = "open" THEN 1 ELSE nextSeq)
        /\ entries' = (IF op.call = "open" THEN <<>> ELSE entries)
        /\ ioErrors \in Nat /\ ioErrors' = ioErrors + 1
        /\ promised' = promised
        /\ OnDisk' \subseteq OnDisk \cup ToSet(entries)
    BY <1>0, <1>2, IoErrorFacts DEF SpoolError
  <2>2. Returned(FALSE) /\ unsent' = unsent
    BY <1>2 DEF SpoolError
  <2>3. ioErrors' # 0
    BY <2>1
  <2>4. CASE op.call = "open"
    BY <2>1, <2>2, <2>3, <2>4 DEF Returned
  <2>5. CASE op.call = "append"
    BY <2>1, <2>2, <2>3, <2>5 DEF Returned, historyVars
  <2>6. CASE op.call = "remove"
    BY <2>1, <2>2, <2>3, <2>6 DEF Returned
  <2> QED BY <1>0, <2>1, <2>4, <2>5, <2>6
<1>3. CASE SpoolLoss
  <2>1. /\ op # Idle /\ op' # Idle /\ op'.call = op.call
        /\ UNCHANGED <<opened, entries, nextSeq, promised>>
        /\ OnDisk' \subseteq OnDisk \cup ToSet(entries)
    BY <1>0, <1>3, LostWriteFacts DEF SpoolLoss
  <2> QED BY <1>0, <1>3, <2>1 DEF SpoolLoss
<1> QED BY <1>1, <1>2, <1>3


-----------------------------------------------------------------------------
(* Types and control.                                                      *)

\* The first entry to be replayed moves to the end of the channel.
LEMMA ReplayFacts ==
    ASSUME PInv, L_Replay
    PROVE  /\ chan' \in Seq(Entry) /\ Ascending(chan') /\ Len(chan') <= QueueCapacity
           /\ replay' \in Seq(Entry) /\ Ascending(replay')
           /\ ToSet(chan') = ToSet(chan) \cup {Head(replay)}
           /\ ToSet(replay) = {Head(replay)} \cup ToSet(replay')
           /\ \A i \in ToSet(replay') : Head(replay).seq < i.seq
<1>1. /\ chan \in Seq(Entry) /\ replay \in Seq(Entry) /\ QueueCapacity \in Nat
      /\ Ascending(chan) /\ Ascending(replay)
      /\ \A i \in ToSet(chan), j \in ToSet(replay) : i.seq < j.seq
  BY CapacityAssumption DEF PInv, PipeTypes, PipeTypeOK, Order
<1>2. /\ replay # <<>> /\ Len(chan) < QueueCapacity
      /\ chan' = Append(chan, Head(replay)) /\ replay' = Tail(replay)
  BY DEF L_Replay, HasRoom
<1>3. /\ Head(replay) \in Entry /\ replay' \in Seq(Entry) /\ Ascending(replay')
      /\ ToSet(replay) = {Head(replay)} \cup ToSet(replay')
      /\ \A i \in ToSet(replay') : Head(replay).seq < i.seq
  BY <1>1, <1>2, HeadFacts
<1>4. /\ chan' \in Seq(Entry) /\ Ascending(chan') /\ Len(chan') = Len(chan) + 1
      /\ ToSet(chan') = ToSet(chan) \cup {Head(replay)}
  BY <1>1, <1>2, <1>3, AppendFacts
<1> QED BY <1>1, <1>2, <1>3, <1>4

\* The appended entry goes to the end of the channel, or stays on disk.
LEMMA SendFacts ==
    ASSUME PInv, L_Send
    PROVE  /\ Item \in Entry
           /\ chan' \in Seq(Entry) /\ Ascending(chan') /\ Len(chan') <= QueueCapacity
           /\ \/ ToSet(chan') = ToSet(chan) \cup {Item} /\ parked' = parked
              \/ chan' = chan /\ parked' = parked \cup {Item}
<1>1. /\ chan \in Seq(Entry) /\ QueueCapacity \in Nat /\ Ascending(chan)
      /\ Len(chan) <= QueueCapacity
      /\ \A i \in Queued : i.seq < nextSeq - 1
  BY CapacityAssumption DEF PInv, PipeTypes, PipeTypeOK, Order, L_Send
<1>2. Item \in Entry
  <2>1. hand \in Qsos /\ opened
    BY HandFacts DEF L_Send, PInv, Control
  <2>2. nextSeq - 1 \in Nat \ {0}
    BY DEF L_Send, PInv, IInv, TypeOK, Control
  <2> QED BY <2>1, <2>2 DEF Item, Entry
<1>3. \/ /\ Len(chan) < QueueCapacity
         /\ chan' = Append(chan, Item) /\ parked' = parked
      \/ chan' = chan /\ parked' = parked \cup {Item}
  BY DEF L_Send, HasRoom, Item
<1>4. CASE chan' = chan /\ parked' = parked \cup {Item}
  BY <1>1, <1>2, <1>4
<1>5. CASE /\ Len(chan) < QueueCapacity
           /\ chan' = Append(chan, Item) /\ parked' = parked
  <2>1. \A i \in ToSet(chan) : i.seq < Item.seq
    BY <1>1 DEF Queued, Item
  <2>2. /\ chan' \in Seq(Entry) /\ Ascending(chan') /\ Len(chan') = Len(chan) + 1
        /\ ToSet(chan') = ToSet(chan) \cup {Item}
    BY <1>1, <1>2, <1>5, <2>1, AppendFacts
  <2> QED BY <1>1, <1>2, <1>5, <2>2
<1> QED BY <1>3, <1>4, <1>5

\* The first entry of the channel goes to the worker.
LEMMA RecvFacts ==
    ASSUME PInv, W_Recv
    PROVE  /\ cur' \in Entry
           /\ chan' \in Seq(Entry) /\ Ascending(chan') /\ Len(chan') <= QueueCapacity
           /\ ToSet(chan) = {cur'} \cup ToSet(chan')
           /\ \A i \in ToSet(chan') : cur'.seq < i.seq
<1>1. /\ chan \in Seq(Entry) /\ QueueCapacity \in Nat /\ Ascending(chan)
      /\ Len(chan) <= QueueCapacity
  BY CapacityAssumption DEF PInv, PipeTypes, PipeTypeOK, Order
<1>2. chan # <<>> /\ cur' = Head(chan) /\ chan' = Tail(chan)
  BY DEF W_Recv
<1>3. /\ Head(chan) \in Entry /\ chan' \in Seq(Entry) /\ Ascending(chan')
      /\ Len(chan') = Len(chan) - 1
      /\ ToSet(chan) = {Head(chan)} \cup ToSet(chan')
      /\ \A i \in ToSet(chan') : Head(chan).seq < i.seq
  BY <1>1, <1>2, HeadFacts
<1> QED BY <1>1, <1>2, <1>3

\* The types.
LEMMA TypesKeep ==
    ASSUME PInv, [PipeNext]_pipeVars, TypeOK' PROVE PipeTypes'
<1> USE DEF listenerVars, workerVars, wavelogVars, historyVars, Items
<1>0. /\ PipeTypes /\ Control /\ IInv /\ TypeOK'
      /\ QueueCapacity \in Nat \ {0} /\ Len(<<>>) = 0 /\ <<>> \in Seq(Entry)
      /\ 1 \in 1..MaxAttempts
  BY CapacityAssumption DEF PInv, MaxAttempts
<1>a. {i.adif : i \in Held} \subseteq Qsos
  BY <1>0 DEF Held, PipeTypes, PipeTypeOK, Entry
<1>b. ASSUME TasksOff
      PROVE  /\ shutdown' \in BOOLEAN /\ lpc' = "off" /\ wpc' = "off"
             /\ replay' \in Seq(Entry) /\ chan' \in Seq(Entry) /\ Len(chan') <= QueueCapacity
             /\ hand' \in Qsos \cup {None} /\ cur' \in Items
             /\ attempt' \in 1..MaxAttempts /\ parked' \subseteq Entry
  <2>1. 1 \in 1..MaxAttempts /\ <<>> \in Seq(Entry) /\ Len(<<>>) <= QueueCapacity
    BY <1>0
  <2>2. replay' = <<>> /\ chan' = <<>> /\ attempt' = 1
    BY <1>b DEF TasksOff
  <2>3. /\ shutdown' \in BOOLEAN /\ lpc' = "off" /\ wpc' = "off"
        /\ hand' \in Qsos \cup {None} /\ cur' \in Items /\ parked' \subseteq Entry
    BY <1>b DEF TasksOff
  <2> QED BY <2>1, <2>2, <2>3
<1>1. CASE Ending
  <2>1. /\ stray' \subseteq Qsos /\ logged' \subseteq Qsos
        /\ UNCHANGED <<refused, accepted, evicted, answered>>
    BY <1>0, <1>a, <1>1 DEF Ending, PipeTypes
  <2> QED BY <1>0, <1>b, <1>1, <2>1 DEF Ending, PipeTypes, PipeTypeOK
<1>2. CASE Boot
  BY <1>0, <1>2 DEF Boot, Spawn, PipeTypes, PipeTypeOK, TypeOK
<1>3. ASSUME NEW q \in Qsos, L_Recv(q), q \notin Unsliceable PROVE PipeTypes'
  BY <1>0, <1>3 DEF L_Recv, PipeTypes, PipeTypeOK
<1>4. CASE L_Append
  <2>1. {e.adif : e \in ToSet(entries) \ ToSet(entries')} \subseteq Qsos
    BY <1>0, Members DEF IInv, TypeOK
  <2> QED BY <1>0, <1>4, <2>1 DEF L_Append, PipeTypes, PipeTypeOK
<1>5. CASE W_Remove
  BY <1>0, <1>5 DEF W_Remove, PipeTypes, PipeTypeOK
<1>6. CASE SpoolWrite \/ SpoolError \/ SpoolLoss
  <2>1. entries' \in Seq(Entry)
    BY <1>0 DEF TypeOK
  <2>2. op.call = "append" => hand \in Qsos
    BY <1>0, HandFacts DEF Control
  <2>3. CASE Goes
    BY <1>0, <2>3 DEF Goes, PipeTypes, PipeTypeOK
  <2>4. CASE Opens
    BY <1>0, <2>1, <2>4 DEF Opens, Spawn, PipeTypes, PipeTypeOK
  <2>5. CASE OpenFails
    BY <1>0, <1>b, <2>5 DEF OpenFails, PipeTypes, PipeTypeOK
  <2>6. CASE Appends
    BY <1>0, <2>2, <2>6 DEF Appends, PipeTypes, PipeTypeOK
  <2>7. CASE AppendFails
    BY <1>0, <2>7 DEF AppendFails, PipeTypes, PipeTypeOK
  <2>8. CASE Removes
    BY <1>0, <2>8 DEF Removes, WorkerIdle, PipeTypes, PipeTypeOK
  <2> QED BY <1>6, <2>3, <2>4, <2>5, <2>6, <2>7, <2>8, CallCases
<1>7. CASE TaskStep
  <2>1. CASE L_Replay
    BY <1>0, <2>1, ReplayFacts DEF L_Replay, PipeTypes, PipeTypeOK
  <2>2. CASE L_Send
    BY <1>0, <2>2, SendFacts DEF L_Send, PipeTypes, PipeTypeOK
  <2>3. CASE W_Recv
    BY <1>0, <2>3, RecvFacts DEF W_Recv, PipeTypes, PipeTypeOK
  <2>4. CASE L_ReplayClosed \/ L_Stop \/ Signal
    BY <1>0, <2>4 DEF L_ReplayClosed, L_Stop, Signal, PipeTypes, PipeTypeOK
  <2>5. CASE StrayArrives
    BY <1>0, <2>5 DEF StrayArrives, PipeTypes, PipeTypeOK
  <2>6. CASE W_Closed \/ W_Resolved \/ W_NoEntry
    BY <1>0, <2>6 DEF W_Closed, W_Resolved, W_NoEntry, WorkerIdle, PipeTypes, PipeTypeOK
  <2>7. CASE W_Unresolved \/ W_Answer
    BY <1>0, <2>7, HandFacts DEF W_Unresolved, W_Answer, WorkerIdle, PipeTypes, PipeTypeOK
  <2>8. CASE W_Fail
    <3>1. cur \in Entry /\ cur.adif \in Qsos
      BY <1>0, <2>8, HandFacts DEF W_Fail
    <3>2. attempt < MaxAttempts => attempt + 1 \in 1..MaxAttempts
      BY <1>0 DEF PipeTypes, PipeTypeOK, MaxAttempts
    <3> QED BY <1>0, <2>8, <3>1, <3>2
            DEF W_Fail, Unanswered, WorkerIdle, PipeTypes, PipeTypeOK
  <2>9. CASE W_Stop
    <3>1. wpc = "post" => cur.adif \in Qsos
      BY <1>0, HandFacts
    <3> QED BY <1>0, <2>9, <3>1 DEF W_Stop, Unanswered, WorkerIdle, PipeTypes, PipeTypeOK
  <2> QED BY <1>7, <2>1, <2>2, <2>3, <2>4, <2>5, <2>6, <2>7, <2>8, <2>9 DEF TaskStep
<1>8. CASE UNCHANGED pipeVars
  BY <1>0, <1>8 DEF pipeVars, PipeTypes, PipeTypeOK
<1> QED BY <1>1, <1>2, <1>3, <1>4, <1>5, <1>6, <1>7, <1>8, StepCases, Endings

\* Where the tasks are.
LEMMA ControlKeeps ==
    ASSUME PInv, [PipeNext]_pipeVars PROVE Control'
<1> USE DEF listenerVars, workerVars, wavelogVars, historyVars
<1>0. /\ PipeTypes /\ Control /\ IInv
      /\ nextSeq \in Nat \ {0} /\ opened \in BOOLEAN /\ shutdown \in BOOLEAN
      /\ \A q \in Qsos : q # None
      /\ \A i \in Entry : i # None
  BY NoneAssumption DEF PInv, IInv, TypeOK, PipeTypes, PipeTypeOK
<1>1. CASE Ending
  BY <1>1 DEF Ending, Stop, TasksOff, Idle, Control
<1>2. CASE Boot
  <2>1. \/ opened' /\ op' = Idle
        \/ ~opened' /\ op' = [call |-> "open", at |-> "rename"]
    BY <1>0, <1>2, OpenFacts DEF Boot
  <2>2. /\ ~opened /\ lpc = "off" /\ wpc = "off" /\ ~shutdown /\ chan = <<>>
        /\ hand = None /\ cur = None /\ replay = <<>> /\ parked = {}
    BY <1>0, <1>2, OpenFacts DEF Boot, Control
  <2>3. CASE opened' /\ op' = Idle
    <3>1. Spawn
      BY <1>2, <2>3 DEF Boot
    <3> QED BY <2>2, <2>3, <3>1 DEF Spawn, Idle, Control
  <2>4. CASE ~opened' /\ op' = [call |-> "open", at |-> "rename"]
    BY <1>2, <2>2, <2>4 DEF Boot, Control
  <2> QED BY <2>1, <2>3, <2>4
<1>3. ASSUME NEW q \in Qsos, L_Recv(q), q \notin Unsliceable PROVE Control'
  BY <1>0, <1>3 DEF L_Recv, Primed, spoolVars, memory, Control
<1>4. CASE L_Append
  <2>1. /\ op = Idle /\ op'.call = "append" /\ opened' = opened
        /\ nextSeq' = nextSeq + 1
    BY <1>0, <1>4, HandFacts, BeginAppendFacts DEF L_Append
  <2> QED BY <1>0, <1>4, <2>1 DEF L_Append, Idle, Control
<1>5. CASE W_Remove
  <2>1. op = Idle /\ op'.call = "remove" /\ opened' = opened /\ nextSeq' = nextSeq
    BY <1>0, <1>5, BeginRemoveFacts DEF W_Remove
  <2> QED BY <1>0, <1>5, <2>1 DEF W_Remove, Idle, Control
<1>6. CASE SpoolWrite \/ SpoolError \/ SpoolLoss
  <2>1. op.call = "open" => ~opened
    BY <1>0 DEF IInv, OpShape, Idle
  <2>2. CASE Goes
    BY <1>0, <2>2 DEF Goes, memory, Control
  <2>3. CASE Opens
    BY <1>0, <2>1, <2>3 DEF Opens, Spawn, memory, Idle, Control
  <2>4. CASE OpenFails
    BY <1>0, <2>1, <2>4 DEF OpenFails, TasksOff, Idle, Control
  <2>5. CASE Appends
    BY <1>0, <2>5 DEF Appends, memory, Idle, Control
  <2>6. CASE AppendFails
    BY <1>0, <2>6 DEF AppendFails, memory, Idle, Control
  <2>7. CASE Removes
    BY <1>0, <2>7 DEF Removes, WorkerIdle, memory, Idle, Control
  <2> QED BY <1>6, <2>2, <2>3, <2>4, <2>5, <2>6, <2>7, CallCases
<1>7. CASE TaskStep
  <2>0. TaskStep => UNCHANGED <<opened, op, nextSeq>>
    BY DEF TaskStep, L_Replay, L_ReplayClosed, L_Send, L_Stop, W_Recv, W_Closed, W_Resolved,
           W_Unresolved, W_Answer, W_Fail, W_NoEntry, W_Stop, StrayArrives, Signal,
           vars, spoolVars, memory
  <2>1. CASE L_Replay
    BY <1>0, <1>7, <2>0, <2>1 DEF L_Replay, Control
  <2>2. CASE L_Send
    BY <1>0, <1>7, <2>0, <2>2 DEF L_Send, Control
  <2>3. CASE W_Recv
    BY <1>0, <1>7, <2>0, <2>3, RecvFacts DEF W_Recv, Control
  <2>4. CASE L_ReplayClosed \/ L_Stop
    BY <1>0, <1>7, <2>0, <2>4 DEF L_ReplayClosed, L_Stop, Control
  <2>5. CASE Signal
    BY <1>0, <1>7, <2>0, <2>5 DEF Signal, Control
  <2>6. CASE StrayArrives
    BY <1>0, <1>7, <2>0, <2>6 DEF StrayArrives, Control
  <2>7. CASE W_Closed \/ W_Resolved
    BY <1>0, <1>7, <2>0, <2>7 DEF W_Closed, W_Resolved, Control
  <2>8. CASE W_NoEntry \/ W_Unresolved
    BY <1>0, <1>7, <2>0, <2>8 DEF W_NoEntry, W_Unresolved, WorkerIdle, Control
  <2>9. CASE W_Answer
    BY <1>0, <1>7, <2>0, <2>9 DEF W_Answer, Control
  <2>10. CASE W_Fail
    BY <1>0, <1>7, <2>0, <2>10 DEF W_Fail, WorkerIdle, Control
  <2>11. CASE W_Stop
    BY <1>0, <1>7, <2>0, <2>11 DEF W_Stop, WorkerIdle, Cancellable, Control
  <2> QED BY <1>7, <2>1, <2>2, <2>3, <2>4, <2>5, <2>6, <2>7, <2>8, <2>9, <2>10, <2>11 DEF TaskStep
<1>8. CASE UNCHANGED pipeVars
  BY <1>0, <1>8 DEF pipeVars, vars, spoolVars, memory, Control
<1> QED BY <1>1, <1>2, <1>3, <1>4, <1>5, <1>6, <1>7, <1>8, StepCases, Endings

-----------------------------------------------------------------------------
(* Order.                                                                  *)

\* What is queued are entries.
LEMMA QueuedFacts ==
    ASSUME PipeTypes
    PROVE  \A i \in Queued : i \in Entry /\ i.seq \in Nat \ {0} /\ i.adif \in Qsos
BY Members DEF PipeTypes, PipeTypeOK, Items, Queued, Held, Entry

\* Queues may be emptied, and the worker's hands.
LEMMA OrderShrinks ==
    ASSUME Order,
           chan' \in {chan, <<>>}, replay' \in {replay, <<>>}, cur' \in {cur, None},
           nextSeq' = nextSeq,
           lpc' \in {"appending", "send"} => lpc \in {"appending", "send"}
    PROVE  Order' /\ Queued' \subseteq Queued
<1>1. ToSet(chan') \subseteq ToSet(chan) /\ ToSet(replay') \subseteq ToSet(replay)
  BY DEF ToSet
<1>2. Ascending(chan') /\ Ascending(replay')
  BY DEF Order, Ascending
<1>3. Queued' \subseteq Queued /\ (cur' # None => cur' = cur)
  BY <1>1 DEF Queued, Held
<1> QED BY <1>1, <1>2, <1>3 DEF Order

\* Nothing but what is to be replayed.
LEMMA OrderAfresh ==
    ASSUME ToSet(chan') = {}, cur' = None, Ascending(chan'), Ascending(replay'),
           \A i \in ToSet(replay') : i.seq < nextSeq',
           lpc' \notin {"appending", "send"}
    PROVE  Order' /\ Queued' = ToSet(replay')
<1>1. Queued' = ToSet(replay')
  BY DEF Queued, Held
<1> QED BY <1>1 DEF Order

LEMMA OrderKeeps ==
    ASSUME PInv, [PipeNext]_pipeVars, IInv' PROVE Order'
<1> USE DEF listenerVars, workerVars, wavelogVars, historyVars
<1>0. /\ PipeTypes /\ Control /\ IInv /\ Order /\ IInv'
      /\ nextSeq \in Nat \ {0}
  BY DEF PInv, IInv, TypeOK
<1>a. \A i \in Queued : i \in Entry /\ i.seq \in Nat \ {0}
  BY <1>0, QueuedFacts
<1>b. TasksOff => Order'
  BY Empty, OrderAfresh DEF TasksOff
<1>c. ASSUME Spawn, opened', chan = <<>>, cur = None PROVE Order'
  <2>1. Ascending(entries') /\ \A i \in ToSet(entries') : i.seq < nextSeq'
    <3>1. /\ Ascending(entries') /\ \A i \in DOMAIN entries' : entries'[i].seq < nextSeq'
      BY <1>0, <1>c DEF IInv, SeqInv, Loading
    <3> QED BY <3>1 DEF ToSet
  <2> QED BY <1>c, <2>1, Empty, OrderAfresh DEF Spawn
<1>1. CASE Ending
  BY <1>1, <1>b DEF Ending
<1>2. CASE Boot
  <2>1. chan = <<>> /\ cur = None /\ lpc = "off" /\ replay = <<>>
    BY <1>0, <1>2, OpenFacts DEF Boot, Control
  <2>2. CASE opened'
    BY <1>2, <1>c, <2>1, <2>2 DEF Boot
  <2>3. CASE ~opened'
    BY <1>2, <2>1, <2>3, Empty, OrderAfresh DEF Boot
  <2> QED BY <2>2, <2>3
<1>3. ASSUME NEW q \in Qsos, L_Recv(q), q \notin Unsliceable PROVE Order'
  BY <1>0, <1>3, OrderShrinks DEF L_Recv, Primed, spoolVars, memory
<1>4. CASE L_Append
  <2>1. nextSeq' = nextSeq + 1
    BY <1>0, <1>4, HandFacts, BeginAppendFacts DEF L_Append
  <2>2. Queued' = Queued /\ chan' = chan /\ replay' = replay /\ cur' = cur
    BY <1>4 DEF L_Append, Queued, Held
  <2>3. \A i \in Queued : i.seq < nextSeq + 1 /\ i.seq < (nextSeq + 1) - 1
    BY <1>0, <1>a DEF Order
  <2> QED BY <1>0, <2>1, <2>2, <2>3 DEF Order
<1>5. CASE W_Remove
  <2>1. nextSeq' = nextSeq
    BY <1>0, <1>5, BeginRemoveFacts DEF W_Remove
  <2> QED BY <1>0, <1>5, <2>1, OrderShrinks DEF W_Remove
<1>6. CASE SpoolWrite \/ SpoolError \/ SpoolLoss
  <2>1. CASE Goes
    BY <1>0, <2>1, OrderShrinks DEF Goes, memory
  <2>2. CASE Opens
    <3>1. chan = <<>> /\ cur = None
      BY <1>0, <2>2 DEF Opens, IInv, OpShape, Idle, Control
    <3> QED BY <1>c, <2>2, <3>1 DEF Opens
  <2>3. CASE OpenFails
    BY <1>b, <2>3 DEF OpenFails
  <2>4. CASE Appends
    BY <1>0, <2>4, OrderShrinks DEF Appends, memory, Control
  <2>5. CASE AppendFails
    BY <1>0, <2>5, OrderShrinks DEF AppendFails, memory
  <2>6. CASE Removes
    BY <1>0, <2>6, OrderShrinks DEF Removes, WorkerIdle, memory
  <2> QED BY <1>6, <2>1, <2>2, <2>3, <2>4, <2>5, <2>6, CallCases
<1>7. CASE TaskStep
  <2>0. nextSeq' = nextSeq
    BY <1>7 DEF TaskStep, L_Replay, L_ReplayClosed, L_Send, L_Stop, W_Recv, W_Closed, W_Resolved,
           W_Unresolved, W_Answer, W_Fail, W_NoEntry, W_Stop, StrayArrives, Signal,
           vars, spoolVars, memory
  <2>1. CASE L_Replay
    <3>1. /\ ToSet(chan') = ToSet(chan) \cup {Head(replay)}
          /\ ToSet(replay) = {Head(replay)} \cup ToSet(replay')
          /\ \A i \in ToSet(replay') : Head(replay).seq < i.seq
          /\ Ascending(chan') /\ Ascending(replay')
      BY <2>1, ReplayFacts
    <3>2. Queued' = Queued
      BY <2>1, <3>1 DEF L_Replay, Queued, Held
    <3> QED BY <1>0, <2>0, <2>1, <3>1, <3>2 DEF L_Replay, Order
  <2>2. CASE L_Send
    <3>1. replay = <<>> /\ ToSet(replay') = {} /\ cur' = cur /\ replay' = replay
      BY <1>0, <2>2, Empty DEF L_Send, Control
    <3>2. Ascending(chan') /\ ToSet(chan') \subseteq ToSet(chan) \cup {Item}
      BY <2>2, SendFacts
    <3>3. \A i \in Queued : i.seq < Item.seq
      BY <1>0, <2>2 DEF L_Send, Order, Item
    <3>4. Item.seq < nextSeq
      BY <1>0 DEF Item
    <3>5. Queued' \subseteq Queued \cup {Item}
      BY <3>1, <3>2 DEF Queued, Held
    <3>6. lpc' \notin {"appending", "send"}
      BY <2>2 DEF L_Send
    <3> QED BY <1>0, <2>0, <3>1, <3>2, <3>3, <3>4, <3>5, <3>6 DEF Order, Queued, Held
  <2>3. CASE W_Recv
    <3>1. /\ ToSet(chan) = {cur'} \cup ToSet(chan')
          /\ \A i \in ToSet(chan') : cur'.seq < i.seq
          /\ Ascending(chan') /\ replay' = replay /\ lpc' = lpc
      BY <2>3, RecvFacts DEF W_Recv
    <3>2. Queued' \subseteq Queued
      BY <3>1 DEF Queued, Held
    <3>3. \A j \in ToSet(replay) : cur'.seq < j.seq
      BY <1>0, <3>1 DEF Order
    <3> QED BY <1>0, <2>0, <3>1, <3>2, <3>3 DEF Order
  <2>4. CASE L_ReplayClosed \/ L_Stop \/ Signal \/ StrayArrives
    BY <1>0, <2>0, <2>4, OrderShrinks DEF L_ReplayClosed, L_Stop, Signal, StrayArrives
  <2>5. CASE W_Closed \/ W_Resolved \/ W_Answer
    BY <1>0, <2>0, <2>5, OrderShrinks DEF W_Closed, W_Resolved, W_Answer
  <2>6. CASE W_NoEntry \/ W_Unresolved \/ W_Fail \/ W_Stop
    BY <1>0, <2>0, <2>6, OrderShrinks DEF W_NoEntry, W_Unresolved, W_Fail, W_Stop, WorkerIdle
  <2> QED BY <1>7, <2>1, <2>2, <2>3, <2>4, <2>5, <2>6 DEF TaskStep
<1>8. CASE UNCHANGED pipeVars
  BY <1>0, <1>8, OrderShrinks DEF pipeVars, vars, spoolVars, memory
<1> QED BY <1>1, <1>2, <1>3, <1>4, <1>5, <1>6, <1>7, <1>8, StepCases, Endings

-----------------------------------------------------------------------------
(* What a task's own step does.                                            *)

\* Items move on, drop out, or stay on disk; nobody's call of the spool is
\* touched; the record in the listener's hands stays there until it is handed on.
Moves ==
    /\ UNCHANGED <<vars, accepted, evicted>>
    /\ lpc' \in {"append", "appending", "send"} => lpc' = lpc /\ hand' = hand
    /\ lpc = "appending" => lpc' = lpc
    /\ lpc \notin {"append", "appending", "send"} => hand' = hand
    /\ hand' \in {hand, None} /\ (hand' # hand => lpc = "send")
    /\ wpc' = "removing" <=> wpc = "removing"
    /\ Queued' \cup Sent' \subseteq Queued \cup Sent
    /\ answered \subseteq answered' /\ answered' \subseteq answered \cup Held
    /\ logged \subseteq logged' /\ refused \subseteq refused'
    /\ stray' \subseteq stray \cup {i.adif : i \in Held}
    /\ wpc' \in {"settle", "removing"} => cur' = cur /\ cur.adif \in logged' \cup refused'

\* Until a signal comes no entry in memory drops out.
Stays ==
    ~shutdown' => /\ ~shutdown
                  /\ \A e \in ToSet(entries) :
                        e \in Queued \cup Sent \cup parked => e \in Queued' \cup Sent' \cup parked'

LEMMA TaskMoves ==
    ASSUME PInv, TaskStep PROVE Moves /\ Stays
<1> USE DEF listenerVars, workerVars, wavelogVars, historyVars
<1>0. /\ PipeTypes /\ Control /\ IInv /\ Order /\ Account
  BY DEF PInv
<1>a. UNCHANGED <<vars, accepted, evicted>> /\ nextSeq' = nextSeq /\ entries' = entries
  BY DEF TaskStep, L_Replay, L_ReplayClosed, L_Send, L_Stop, W_Recv, W_Closed, W_Resolved,
         W_Unresolved, W_Answer, W_Fail, W_NoEntry, W_Stop, StrayArrives, Signal,
         vars, spoolVars, memory
<1>b. lpc \in {"loop", "off", "done", "append", "appending"} => Sent = {}
  BY DEF Sent
<1>c. lpc' \in {"loop", "off", "done", "append", "appending"} => Sent' = {}
  BY DEF Sent
<1>d. UNCHANGED <<lpc, hand>> => Sent' = Sent
  BY <1>a DEF Sent, Item
<1>e. UNCHANGED <<cur, chan, replay>> => Queued' = Queued
  BY DEF Queued, Held
<1>f. wpc \in {"settle", "removing"} => cur.adif \in logged \cup refused
  BY <1>0 DEF Account
<1>g. wpc \in {"resolve", "post", "settle", "removing"} => Held = {cur}
  BY <1>0 DEF Control, Held
<1>1. CASE L_Replay
  <2>1. Queued' = Queued
    BY <1>a, <1>1, ReplayFacts DEF L_Replay, Queued, Held
  <2> QED BY <1>a, <1>1, <1>d, <1>f, <2>1 DEF L_Replay, Moves, Stays
<1>2. CASE L_Send
  <2>1. lpc' \in {"loop", "done"} /\ hand' = None /\ lpc = "send"
    BY <1>2 DEF L_Send
  <2>2. Sent' = {} /\ Sent = {Item}
    BY <1>c, <2>1 DEF Sent
  <2>3. CASE ToSet(chan') = ToSet(chan) \cup {Item} /\ parked' = parked
    <3>1. Queued' = Queued \cup {Item}
      BY <1>2, <2>3 DEF L_Send, Queued, Held
    <3> QED BY <1>a, <1>2, <1>f, <2>1, <2>2, <2>3, <3>1 DEF L_Send, Moves, Stays
  <2>4. CASE chan' = chan /\ parked' = parked \cup {Item}
    <3>1. Queued' = Queued
      BY <1>2, <1>e, <2>4 DEF L_Send
    <3> QED BY <1>a, <1>2, <1>f, <2>1, <2>2, <2>4, <3>1 DEF L_Send, Moves, Stays
  <2> QED BY <1>2, <2>3, <2>4, SendFacts
<1>3. CASE W_Recv
  <2>1. cur' \in Entry /\ cur' # None /\ cur = None /\ ToSet(chan) = {cur'} \cup ToSet(chan')
    BY <1>0, <1>3, RecvFacts, HandFacts DEF W_Recv, Control
  <2>2. Queued' = Queued
    BY <1>3, <2>1 DEF W_Recv, Queued, Held
  <2> QED BY <1>a, <1>3, <1>d, <2>2 DEF W_Recv, Moves, Stays
<1>4. CASE L_ReplayClosed \/ L_Stop
  <2>1. shutdown /\ shutdown' /\ lpc = "loop" /\ lpc' = "done" /\ hand' = hand
    BY <1>0, <1>4 DEF L_ReplayClosed, L_Stop, Control
  <2>2. Queued' \subseteq Queued /\ Sent' = {}
    BY <1>4, <1>c, <2>1, Empty DEF L_ReplayClosed, L_Stop, Queued, Held
  <2> QED BY <1>a, <1>4, <1>f, <2>1, <2>2 DEF L_ReplayClosed, L_Stop, Moves, Stays
<1>5. CASE Signal \/ StrayArrives
  <2>1. Queued' = Queued /\ Sent' = Sent
    BY <1>5, <1>d, <1>e DEF Signal, StrayArrives
  <2> QED BY <1>a, <1>5, <1>f, <2>1 DEF Signal, StrayArrives, Moves, Stays
<1>6. CASE W_Closed \/ W_Resolved
  <2>1. Queued' = Queued /\ Sent' = Sent
    BY <1>6, <1>d, <1>e DEF W_Closed, W_Resolved
  <2> QED BY <1>a, <1>6, <2>1 DEF W_Closed, W_Resolved, Moves, Stays
<1>7. CASE W_Answer
  <2>1. Queued' = Queued /\ Sent' = Sent
    BY <1>7, <1>d, <1>e DEF W_Answer
  <2> QED BY <1>a, <1>7, <1>g, <2>1 DEF W_Answer, Moves, Stays
<1>8. CASE W_Unresolved
  <2>1. Queued = Queued' \cup {cur} /\ Sent' = Sent
    BY <1>8, <1>d, <1>g DEF W_Unresolved, WorkerIdle, Queued, Held
  <2> QED BY <1>a, <1>8, <2>1 DEF W_Unresolved, Moves, Stays
<1>9. CASE W_Fail
  <2>1. /\ \/ Queued' = Queued /\ parked' = parked /\ wpc' = wpc
           \/ Queued = Queued' \cup {cur} /\ parked' = parked \cup {cur} /\ wpc' = "recv"
        /\ Sent' = Sent
    BY <1>9, <1>d, <1>e, <1>g DEF W_Fail, WorkerIdle, Queued, Held
  <2>2. logged \subseteq logged' /\ refused' = refused /\ stray' \subseteq stray \cup {cur.adif}
    BY <1>9 DEF W_Fail, Unanswered
  <2>3. wpc = "post" /\ Held = {cur} /\ UNCHANGED <<answered, lpc, hand, shutdown>>
    BY <1>9, <1>g DEF W_Fail
  <2> QED BY <1>a, <2>1, <2>2, <2>3 DEF Moves, Stays
<1>10. CASE W_NoEntry
  <2>1. Queued = Queued' \cup {cur} /\ Sent' = Sent
    BY <1>10, <1>d, <1>g DEF W_NoEntry, WorkerIdle, Queued, Held
  <2>2. cur \notin ToSet(entries)
    BY <1>10 DEF W_NoEntry
  <2> QED BY <1>a, <1>10, <2>1, <2>2 DEF W_NoEntry, Moves, Stays
<1>11. CASE W_Stop
  <2>1. /\ shutdown /\ shutdown' /\ wpc' = "done" /\ Sent' = Sent
        /\ wpc \in {"recv", "resolve", "post"}
        /\ UNCHANGED <<answered, lpc, hand>>
    BY <1>11, <1>d DEF W_Stop, Cancellable
  <2>2. Queued' \subseteq Queued
    BY <1>11, Empty DEF W_Stop, WorkerIdle, Queued, Held
  <2>3. logged \subseteq logged' /\ refused' = refused /\ stray' \subseteq stray \cup {i.adif : i \in Held}
    BY <1>11, <1>g DEF W_Stop, Unanswered
  <2> QED BY <1>a, <2>1, <2>2, <2>3 DEF Moves, Stays
<1> QED BY <1>1, <1>2, <1>3, <1>4, <1>5, <1>6, <1>7, <1>8, <1>9, <1>10, <1>11 DEF TaskStep

-----------------------------------------------------------------------------
(* An item and an entry of the same seq are the same.                      *)

\* Items may drop out and entries be removed.
LEMMA OwnShrinks ==
    ASSUME Own, Queued' \cup Sent' \subseteq Queued \cup Sent,
           ToSet(entries') \subseteq ToSet(entries),
           lpc' = "appending" => Last(entries') = Item',
           wpc' = "removing" => cur' \notin ToSet(entries')
    PROVE  Own'
<1>1. \A i \in Queued' \cup Sent', e \in ToSet(entries') : i.seq = e.seq => i = e
  BY DEF Own
<1> QED BY <1>1 DEF Own

\* Only what is in memory is queued.
LEMMA OwnAfresh ==
    ASSUME NEW es \in Seq(Entry), Ascending(es), entries' = es,
           Queued' \cup Sent' \subseteq ToSet(es),
           lpc' # "appending", wpc' # "removing"
    PROVE  Own'
<1>1. \A i \in Queued' \cup Sent', e \in ToSet(entries') : i.seq = e.seq => i = e
  BY SameSeq
<1> QED BY <1>1 DEF Own

LEMMA OwnKeeps ==
    ASSUME PInv, [PipeNext]_pipeVars, IInv' PROVE Own'
<1> USE DEF listenerVars, workerVars, wavelogVars, historyVars
<1>0. /\ PipeTypes /\ Control /\ IInv /\ Order /\ Own /\ IInv'
      /\ nextSeq \in Nat \ {0}
  BY DEF PInv, IInv, TypeOK
<1>a. \A i \in Queued : i \in Entry /\ i.seq \in Nat \ {0} /\ i.seq < nextSeq
  BY <1>0, QueuedFacts DEF Order
<1>b. ASSUME TasksOff PROVE Own'
  <2>1. Queued' = {} /\ Sent' = {}
    BY <1>b, Empty DEF TasksOff, Queued, Held, Sent
  <2> QED BY <1>b, <2>1 DEF TasksOff, Own
<1>c. ASSUME Spawn, opened', chan = <<>>, cur = None PROVE Own'
  <2>1. entries' \in Seq(Entry) /\ Ascending(entries')
    BY <1>0, <1>c DEF IInv, TypeOK, SeqInv, Loading
  <2>2. Queued' = ToSet(entries') /\ Sent' = {}
    BY <1>c, Empty DEF Spawn, Queued, Held, Sent
  <2> QED BY <1>c, <2>1, <2>2, OwnAfresh DEF Spawn
<1>d. op = Idle => lpc # "appending" /\ wpc # "removing"
  BY <1>0 DEF Control, Idle
<1>e. UNCHANGED <<lpc, hand, nextSeq>> => Sent' = Sent /\ Item' = Item
  BY DEF Sent, Item
<1>f. UNCHANGED <<cur, chan, replay>> => Queued' = Queued
  BY DEF Queued, Held
<1>g. lpc' \in {"loop", "off", "done", "append", "appending"} => Sent' = {}
  BY DEF Sent
<1>1. CASE Ending
  BY <1>1, <1>b DEF Ending
<1>2. CASE Boot
  <2>1. chan = <<>> /\ cur = None /\ lpc = "off" /\ wpc = "off" /\ replay = <<>>
    BY <1>0, <1>2, OpenFacts DEF Boot, Control
  <2>2. CASE opened'
    BY <1>2, <1>c, <2>1, <2>2 DEF Boot
  <2>3. CASE ~opened'
    <3>1. lpc' = "off" /\ wpc' = "off" /\ Queued' = {} /\ Sent' = {}
      BY <1>2, <1>g, <2>1, <2>3, Empty DEF Boot, Queued, Held
    <3> QED BY <3>1 DEF Own
  <2> QED BY <2>2, <2>3
<1>3. ASSUME NEW q \in Qsos, L_Recv(q), q \notin Unsliceable PROVE Own'
  <2>1. /\ UNCHANGED <<entries, wpc, cur, chan, replay>> /\ lpc' = "append"
    BY <1>3 DEF L_Recv, spoolVars, memory
  <2> QED BY <1>0, <1>f, <1>g, <2>1, OwnShrinks DEF Own
<1>4. CASE L_Append
  <2>1. /\ hand \in Qsos /\ op = Idle
        /\ nextSeq' = nextSeq + 1
        /\ Last(entries') = [seq |-> nextSeq, adif |-> hand]
        /\ ToSet(entries') \subseteq ToSet(entries) \cup {[seq |-> nextSeq, adif |-> hand]}
    BY <1>0, <1>4, HandFacts, BeginAppendFacts DEF L_Append
  <2>2. /\ lpc' = "appending" /\ hand' = hand /\ wpc' = wpc
        /\ UNCHANGED <<cur, chan, replay>>
    BY <1>4 DEF L_Append
  <2>3. Item' = [seq |-> nextSeq, adif |-> hand]
    BY <1>0, <2>1, <2>2 DEF Item
  <2>4. Queued' = Queued /\ Sent' = {} /\ wpc' # "removing"
    BY <1>d, <1>f, <1>g, <2>1, <2>2
  <2>5. \A i \in Queued : i.seq # [seq |-> nextSeq, adif |-> hand].seq
    BY <1>0, <1>a
  <2>6. \A i \in Queued' \cup Sent', e \in ToSet(entries') : i.seq = e.seq => i = e
    BY <1>0, <2>1, <2>4, <2>5 DEF Own
  <2> QED BY <2>1, <2>3, <2>4, <2>6 DEF Own
<1>5. CASE W_Remove
  <2>1. /\ op = Idle /\ nextSeq' = nextSeq
        /\ \E e \in ToSet(entries) : e.seq = cur.seq /\ ToSet(entries') = ToSet(entries) \ {e}
    BY <1>0, <1>5, BeginRemoveFacts DEF W_Remove
  <2>2. cur \in Queued
    BY <1>0, <1>5 DEF W_Remove, Control, Queued, Held
  <2>3. ToSet(entries') = ToSet(entries) \ {cur}
    BY <1>0, <2>1, <2>2 DEF Own
  <2>4. UNCHANGED <<lpc, hand, cur, chan, replay>>
    BY <1>5 DEF W_Remove
  <2> QED BY <1>0, <1>d, <1>e, <1>f, <2>1, <2>3, <2>4, OwnShrinks
<1>6. CASE SpoolWrite \/ SpoolError \/ SpoolLoss
  <2>0. op.call = "open" => ~opened /\ chan = <<>> /\ cur = None
    BY <1>0 DEF IInv, OpShape, Idle, Control
  <2>1. CASE Goes
    <3>1. UNCHANGED <<entries, nextSeq, lpc, hand, wpc, cur, chan, replay>>
      BY <2>1 DEF Goes, memory
    <3> QED BY <1>0, <1>e, <1>f, <3>1, OwnShrinks DEF Own
  <2>2. CASE Opens
    BY <1>c, <2>0, <2>2 DEF Opens
  <2>3. CASE OpenFails
    BY <1>b, <2>3 DEF OpenFails
  <2>4. CASE Appends
    <3>1. /\ UNCHANGED <<entries, nextSeq, hand, wpc, cur, chan, replay>>
          /\ lpc' = "send" /\ lpc = "appending" /\ wpc # "removing" /\ opened /\ op.call = "append"
      BY <1>0, <2>4 DEF Appends, memory, Control, IInv, OpShape, Idle
    <3>2. Sent' = {Last(entries)} /\ Last(entries) \in ToSet(entries)
      <4>1. Sent' = {Item} /\ Item = Last(entries)
        BY <1>0, <3>1 DEF Sent, Item, Own
      <4> QED BY <1>0, <3>1, <4>1, LastFacts
    <3>3. entries \in Seq(Entry) /\ Ascending(entries)
      BY <1>0, <3>1, MemoryFacts DEF Loading
    <3>4. \A e \in ToSet(entries) : e.seq = Last(entries).seq => e = Last(entries)
      BY <3>2, <3>3, SameSeq
    <3> QED BY <1>0, <1>f, <3>1, <3>2, <3>4 DEF Own
  <2>5. CASE AppendFails
    <3>1. /\ UNCHANGED <<entries, wpc, cur, chan, replay>>
          /\ lpc' = "loop"
      BY <2>5 DEF AppendFails, memory
    <3> QED BY <1>0, <1>f, <1>g, <3>1, OwnShrinks DEF Own
  <2>6. CASE Removes
    <3>1. /\ UNCHANGED <<entries, nextSeq, lpc, hand, chan, replay>>
          /\ cur' = None /\ wpc' = "recv"
      BY <2>6 DEF Removes, WorkerIdle, memory
    <3>2. Queued' \subseteq Queued
      BY <3>1 DEF Queued, Held
    <3> QED BY <1>0, <1>e, <3>1, <3>2, OwnShrinks DEF Own
  <2> QED BY <1>6, <2>1, <2>2, <2>3, <2>4, <2>5, <2>6, CallCases
<1>7. CASE TaskStep
  <2>1. Moves
    BY <1>7, TaskMoves
  <2>2. entries' = entries /\ nextSeq' = nextSeq
    BY <2>1 DEF Moves, vars, spoolVars, memory
  <2>3. lpc' = "appending" => Last(entries') = Item'
    BY <1>0, <1>e, <2>1, <2>2 DEF Moves, Own
  <2>4. wpc' = "removing" => cur' \notin ToSet(entries')
    BY <1>0, <2>1, <2>2 DEF Moves, Own
  <2> QED BY <1>0, <2>1, <2>2, <2>3, <2>4, OwnShrinks DEF Moves
<1>8. CASE UNCHANGED pipeVars
  <2>1. UNCHANGED <<entries, nextSeq, lpc, hand, wpc, cur, chan, replay>>
    BY <1>8 DEF pipeVars, vars, spoolVars, memory
  <2> QED BY <1>0, <1>e, <1>f, <2>1, OwnShrinks DEF Own
<1> QED BY <1>1, <1>2, <1>3, <1>4, <1>5, <1>6, <1>7, <1>8, StepCases, Endings

-----------------------------------------------------------------------------
(* A record has one entry.                                                 *)

\* An append adds its entry to those known; no other step adds any.
LEMMA KnownKeeps ==
    ASSUME PInv, [PipeNext]_pipeVars
    PROVE  Known' \subseteq Known \cup {i \in {Item'} : L_Append}
<1> USE DEF listenerVars, workerVars, wavelogVars, historyVars
<1>0. /\ PipeTypes /\ Control /\ IInv
      /\ nextSeq \in Nat \ {0}
  BY DEF PInv, IInv, TypeOK
<1>a. Known' = ToSet(entries') \cup promised' \cup OnDisk' \cup Queued' \cup Sent' \cup answered'
  BY DEF Known
<1>b. Known = ToSet(entries) \cup promised \cup OnDisk \cup Queued \cup Sent \cup answered
  BY DEF Known
<1>c. UNCHANGED <<images, older, aside, damaged>> /\ exposed' \subseteq exposed
         => OnDisk' \subseteq OnDisk
  BY DEF InFiles, OnDisk, Found
<1>d. TasksOff => Queued' = {} /\ Sent' = {}
  BY Empty DEF TasksOff, Queued, Held, Sent
<1>e. UNCHANGED <<cur, chan, replay>> => Queued' = Queued
  BY DEF Queued, Held
<1>f. lpc' \in {"loop", "off", "done", "append", "appending"} => Sent' = {}
  BY DEF Sent
<1>g. UNCHANGED <<lpc, hand, nextSeq>> => Sent' = Sent
  BY DEF Sent, Item
<1>h. chan = <<>> /\ cur = None /\ Spawn => Queued' = ToSet(entries') /\ Sent' = {}
  BY Empty DEF Spawn, Queued, Held, Sent
<1> HIDE DEF listenerVars, workerVars, wavelogVars, historyVars
<1>1. CASE Ending
  <2>1. ToSet(entries') = {}
    BY <1>1, Empty DEF Ending, Stop, Forget
  <2> QED BY <1>a, <1>b, <1>d, <1>1, <2>1 DEF Ending
<1>2. CASE Boot
  <2>1. chan = <<>> /\ cur = None /\ lpc = "off" /\ replay = <<>>
    BY <1>0, <1>2, OpenFacts DEF Boot, Control
  <2>2. ToSet(entries') \subseteq OnDisk /\ OnDisk' \subseteq OnDisk /\ promised' = promised
    BY <1>0, <1>2, OpenFacts DEF Boot
  <2>3. Queued' \cup Sent' \subseteq ToSet(entries') \cup Queued /\ answered' = answered
    <3>1. CASE opened'
      BY <1>2, <1>h, <2>1, <3>1 DEF Boot, Spawn, historyVars
    <3>2. CASE ~opened'
      BY <1>2, <1>e, <1>f, <2>1, <3>2 DEF Boot, listenerVars, workerVars, historyVars
    <3> QED BY <3>1, <3>2
  <2> QED BY <1>a, <1>b, <2>2, <2>3
<1>3. ASSUME NEW q \in Qsos, L_Recv(q), q \notin Unsliceable PROVE Known' \subseteq Known
  <2>1. /\ UNCHANGED <<entries, promised, images, older, aside, damaged, exposed,
                       cur, chan, replay, answered>>
        /\ lpc' = "append"
    BY <1>3 DEF L_Recv, spoolVars, memory, disk, past, marks, workerVars, historyVars
  <2> QED BY <1>a, <1>b, <1>c, <1>e, <1>f, <2>1
<1>4. CASE L_Append
  <2>1. /\ nextSeq' = nextSeq + 1
        /\ ToSet(entries') \subseteq ToSet(entries) \cup {[seq |-> nextSeq, adif |-> hand]}
        /\ promised' \subseteq promised /\ exposed' \subseteq exposed
        /\ UNCHANGED <<images, older, aside, damaged>>
    BY <1>0, <1>4, HandFacts, BeginAppendFacts DEF L_Append
  <2>2. UNCHANGED <<cur, chan, replay, answered>> /\ lpc' = "appending" /\ hand' = hand
    BY <1>4 DEF L_Append, workerVars
  <2>3. Item' = [seq |-> nextSeq, adif |-> hand]
    BY <1>0, <2>1, <2>2 DEF Item
  <2> QED BY <1>a, <1>b, <1>c, <1>e, <1>f, <1>4, <2>1, <2>2, <2>3
<1>5. CASE W_Remove
  <2>1. /\ nextSeq' = nextSeq /\ UNCHANGED <<images, older, aside, damaged>>
        /\ exposed' \subseteq exposed
        /\ ToSet(entries') \subseteq ToSet(entries) /\ promised' \subseteq promised
    BY <1>0, <1>5, BeginRemoveFacts DEF W_Remove
  <2>2. UNCHANGED <<cur, chan, replay, lpc, hand, answered>>
    BY <1>5 DEF W_Remove, listenerVars, historyVars
  <2> QED BY <1>a, <1>b, <1>c, <1>e, <1>g, <2>1, <2>2
<1>6. CASE SpoolWrite \/ SpoolError \/ SpoolLoss
  <2>0. /\ OnDisk' \subseteq OnDisk \cup ToSet(entries)
        /\ (op.call = "open" => ~opened /\ chan = <<>> /\ cur = None)
        /\ (op.call = "append" => Last(entries) \in ToSet(entries))
    BY <1>0, <1>6, CallCases, LastFacts DEF IInv, OpShape, Idle, Control
  <2>1. CASE Goes
    <3>1. UNCHANGED <<entries, nextSeq, promised, lpc, hand, cur, chan, replay, answered>>
      BY <2>1 DEF Goes, memory, listenerVars, workerVars, historyVars
    <3> QED BY <1>a, <1>b, <1>e, <1>g, <2>0, <3>1
  <2>2. CASE Opens
    <3>1. UNCHANGED <<entries, promised, answered>> /\ Spawn
      BY <2>2 DEF Opens, memory, Spawn, historyVars
    <3> QED BY <1>a, <1>b, <1>h, <2>0, <2>2, <3>1 DEF Opens
  <2>3. CASE OpenFails
    <3>1. ToSet(entries') = {} /\ UNCHANGED <<promised, answered>>
      BY <2>3, Empty DEF OpenFails, Forget
    <3> QED BY <1>a, <1>b, <1>d, <2>0, <2>3, <3>1 DEF OpenFails
  <2>4. CASE Appends
    <3>1. /\ UNCHANGED <<entries, nextSeq, hand, cur, chan, replay, answered>>
          /\ promised' = promised \cup {Last(entries)} /\ Last(entries) \in ToSet(entries)
          /\ lpc' = "send" /\ lpc = "appending"
      BY <1>0, <2>0, <2>4 DEF Appends, memory, workerVars, Control
    <3>2. Sent' \subseteq ToSet(entries)
      <4>1. Sent' = {Item} /\ Item = Last(entries)
        BY <3>1 DEF Sent, Item, PInv, Own
      <4> QED BY <3>1, <4>1
    <3> QED BY <1>a, <1>b, <1>e, <2>0, <3>1, <3>2
  <2>5. CASE AppendFails
    <3>1. UNCHANGED <<entries, promised, cur, chan, replay, answered>> /\ lpc' = "loop"
      BY <2>5 DEF AppendFails, memory, workerVars, historyVars
    <3> QED BY <1>a, <1>b, <1>e, <1>f, <2>0, <3>1
  <2>6. CASE Removes
    <3>1. UNCHANGED <<entries, nextSeq, promised, lpc, hand, chan, replay, answered>> /\ cur' = None
      BY <2>6 DEF Removes, WorkerIdle, memory, listenerVars, historyVars
    <3>2. Queued' \subseteq Queued
      BY <3>1 DEF Queued, Held
    <3> QED BY <1>a, <1>b, <1>g, <2>0, <3>1, <3>2
  <2> QED BY <1>6, <2>1, <2>2, <2>3, <2>4, <2>5, <2>6, CallCases
<1>7. CASE TaskStep
  <2>1. Moves
    BY <1>7, TaskMoves
  <2>2. UNCHANGED <<entries, promised, images, older, aside, damaged, exposed>>
    BY <2>1 DEF Moves, vars, spoolVars, memory, disk, past, marks
  <2>3. Queued' \cup Sent' \subseteq Queued \cup Sent /\ answered' \subseteq answered \cup Queued
    BY <2>1 DEF Moves, Queued
  <2> QED BY <1>a, <1>b, <1>c, <2>2, <2>3
<1>8. CASE UNCHANGED pipeVars
  <2>1. UNCHANGED <<entries, nextSeq, promised, images, older, aside, damaged, exposed,
                    lpc, hand, cur, chan, replay, answered>>
    BY <1>8 DEF pipeVars, vars, spoolVars, memory, disk, past, marks, listenerVars, workerVars,
                historyVars
  <2> QED BY <1>a, <1>b, <1>c, <1>e, <1>g, <2>1
<1> QED BY <1>1, <1>2, <1>3, <1>4, <1>5, <1>6, <1>7, <1>8, StepCases, Endings

\* A record is in the listener's hands before it has an entry, and gets one only.
LEMMA IdentityKeeps ==
    ASSUME PInv, [PipeNext]_pipeVars PROVE Identity'
<1>0. /\ PipeTypes /\ Control /\ IInv /\ Identity /\ None \notin Qsos
      /\ Known' \subseteq Known \cup {i \in {Item'} : L_Append}
      /\ unsent \subseteq Qsos
  BY KnownKeeps, NoneAssumption DEF PInv, IInv, TypeOK
<1>a. Held \subseteq Known
  BY DEF Known, Queued
<1>b. ASSUME Known' \subseteq Known, unsent' \subseteq unsent,
             hand' \in {hand, None},
             lpc' = "append" => lpc = "append" /\ hand' = hand,
             stray' \subseteq stray \cup {i.adif : i \in Held},
             accepted' \subseteq accepted \cup {hand}
      PROVE  Identity'
  <2>1. hand' \notin unsent'
    BY <1>0, <1>b DEF Identity
  <2>2. (stray' \cup accepted') \cap unsent' = {}
    BY <1>0, <1>a, <1>b DEF Identity
  <2>3. \A x, y \in Known' : x.adif = y.adif => x = y
    BY <1>0, <1>b DEF Identity
  <2>4. \A x \in Known' : x.adif \notin unsent'
    BY <1>0, <1>b DEF Identity
  <2>5. lpc' = "append" => \A x \in Known' : x.adif # hand'
    BY <1>0, <1>b DEF Identity
  <2> QED BY <2>1, <2>2, <2>3, <2>4, <2>5 DEF Identity
<1>c. unsent' \subseteq unsent
  BY UnsentShrinks
<1>1. CASE L_Append
  <2>1. /\ lpc = "append" /\ lpc' = "appending" /\ UNCHANGED <<hand, unsent, stray, accepted>>
    BY <1>1 DEF L_Append, wavelogVars
  <2>2. Item'.adif = hand
    BY <2>1 DEF Item
  <2>3. Known' \subseteq Known \cup {Item'} /\ \A x \in Known : x.adif # hand
    BY <1>0, <2>1 DEF Identity
  <2>4. \A x, y \in Known' : x.adif = y.adif => x = y
    BY <1>0, <2>2, <2>3 DEF Identity
  <2>5. \A x \in Known' : x.adif \notin unsent'
    BY <1>0, <2>1, <2>2, <2>3 DEF Identity
  <2> QED BY <1>0, <2>1, <2>4, <2>5 DEF Identity
<1>2. CASE ~L_Append
  <2>0. Known' \subseteq Known
    BY <1>0, <1>2
  <2> USE DEF listenerVars, workerVars, wavelogVars, historyVars
  <2>1. CASE Ending
    BY <1>b, <1>c, <2>0, <2>1 DEF Ending, TasksOff
  <2>2. CASE Boot
    BY <1>b, <1>c, <2>0, <2>2 DEF Boot, Spawn
  <2>3. ASSUME NEW q \in Qsos, L_Recv(q), q \notin Unsliceable PROVE Identity'
    <3>1. /\ q \in unsent /\ unsent' = unsent \ {q} /\ hand' = q
          /\ stray' = stray /\ accepted' = accepted
      BY <2>3 DEF L_Recv
    <3>2. \A x \in Known : x.adif # q
      BY <1>0, <3>1 DEF Identity
    <3> QED BY <1>0, <1>c, <2>0, <3>1, <3>2 DEF Identity
  <2>4. CASE W_Remove
    BY <1>b, <1>c, <2>0, <2>4 DEF W_Remove
  <2>5. CASE SpoolWrite \/ SpoolError \/ SpoolLoss
    <3>1. /\ hand' \in {hand, None} /\ (lpc' = "append" => lpc = "append" /\ hand' = hand)
          /\ stray' = stray /\ accepted' \subseteq accepted \cup {hand}
      BY <2>5, CallCases
         DEF Goes, Opens, OpenFails, Appends, AppendFails, Removes, Spawn, TasksOff
    <3> QED BY <1>b, <1>c, <2>0, <3>1
  <2>6. CASE TaskStep
    BY <1>b, <1>c, <2>0, <2>6, TaskMoves DEF Moves
  <2>7. CASE UNCHANGED pipeVars
    BY <1>b, <1>c, <2>0, <2>7 DEF pipeVars
  <2> QED BY <1>2, <2>1, <2>2, <2>3, <2>4, <2>5, <2>6, <2>7, StepCases, Endings
<1> QED BY <1>1, <1>2

-----------------------------------------------------------------------------
(* What is accounted for, and what is not forgotten.                       *)

\* The counts of faults only grow.
LEMMA FaultsGrow ==
    ASSUME PInv, [PipeNext]_pipeVars
    PROVE  /\ crashes' = 0 => crashes = 0
           /\ ioErrors' = 0 => ioErrors = 0
<1>0. IInv /\ SpoolStep
  BY SpoolSteps DEF PInv
<1>1. CASE OpenStep
  BY <1>0, <1>1, OpenFacts
<1>2. ASSUME NEW q \in Qsos, BeginAppend(q) PROVE UNCHANGED <<crashes, ioErrors>>
  BY <1>0, <1>2, BeginAppendFacts
<1>3. ASSUME NEW s \in Nat, BeginRemove(s) PROVE UNCHANGED <<crashes, ioErrors>>
  BY <1>0, <1>3, BeginRemoveFacts
<1>4. CASE WriteStep
  BY <1>0, <1>4, WriteFacts
<1>5. CASE IoError
  BY <1>0, <1>5, IoErrorFacts
<1>6. CASE Crash
  BY <1>0, <1>6, CrashFacts
<1>7. CASE UNCHANGED faults
  BY <1>7 DEF faults
<1>8. CASE LostWrite
  BY <1>0, <1>8, LostWriteFacts
<1> QED BY <1>0, <1>1, <1>2, <1>3, <1>4, <1>5, <1>6, <1>7, <1>8 DEF SpoolStep, spoolVars, Halt

LEMMA AccountKeeps ==
    ASSUME PInv, [PipeNext]_pipeVars PROVE Account'
<1>0. /\ PipeTypes /\ Control /\ IInv /\ Account /\ Own
  BY DEF PInv
<1>a. ASSUME accepted' = accepted, evicted' = evicted, promised' = promised,
             logged \subseteq logged', refused \subseteq refused',
             wpc' \in {"settle", "removing"} => cur'.adif \in logged' \cup refused'
      PROVE  Account'
  BY <1>0, <1>a DEF Account, AccountedFor
<1>b. wpc' \in {"settle", "removing"} /\ UNCHANGED <<logged, refused, wpc, cur>>
         => cur'.adif \in logged' \cup refused'
  BY <1>0 DEF Account
<1> USE DEF listenerVars, workerVars, wavelogVars, historyVars
<1>1. CASE Ending
  BY <1>a, <1>1 DEF Ending, TasksOff
<1>2. CASE Boot
  <2>1. promised' = promised
    BY <1>0, <1>2, OpenFacts DEF Boot
  <2>2. wpc' \notin {"settle", "removing"} /\ UNCHANGED <<accepted, evicted, logged, refused>>
    BY <1>0, <1>2, OpenFacts DEF Boot, Spawn, Control
  <2> QED BY <1>a, <2>1, <2>2
<1>3. ASSUME NEW q \in Qsos, L_Recv(q), q \notin Unsliceable PROVE Account'
  BY <1>a, <1>b, <1>3 DEF L_Recv, spoolVars, past
<1>4. CASE L_Append
  <2>1. /\ promised' = promised \ (ToSet(entries) \ ToSet(entries'))
        /\ evicted' = evicted \cup {e.adif : e \in ToSet(entries) \ ToSet(entries')}
    BY <1>0, <1>4, HandFacts, BeginAppendFacts DEF L_Append
  <2>2. UNCHANGED <<accepted, logged, refused, wpc, cur>>
    BY <1>4 DEF L_Append
  <2>3. AccountedFor'
    BY <1>0, <2>1, <2>2 DEF Account, AccountedFor
  <2> QED BY <1>b, <2>2, <2>3 DEF Account
<1>5. CASE W_Remove
  <2>1. /\ promised' = promised \ (ToSet(entries) \ ToSet(entries'))
        /\ \E e \in ToSet(entries) : e.seq = cur.seq /\ ToSet(entries') = ToSet(entries) \ {e}
    BY <1>0, <1>5, BeginRemoveFacts DEF W_Remove
  <2>2. wpc = "settle" /\ cur \in Queued /\ UNCHANGED <<accepted, evicted, logged, refused, cur>>
    BY <1>0, <1>5 DEF W_Remove, Control, Queued, Held
  <2>3. promised \subseteq promised' \cup {cur}
    BY <1>0, <2>1, <2>2 DEF Own
  <2>4. cur.adif \in logged \cup refused
    BY <1>0, <2>2 DEF Account
  <2>5. AccountedFor'
    BY <1>0, <2>2, <2>3, <2>4 DEF Account, AccountedFor
  <2> QED BY <2>2, <2>4, <2>5 DEF Account
<1>6. CASE SpoolWrite \/ SpoolError \/ SpoolLoss
  <2>1. CASE Goes
    BY <1>a, <1>b, <2>1 DEF Goes
  <2>2. CASE Opens
    BY <1>a, <2>2 DEF Opens, Spawn
  <2>3. CASE OpenFails
    BY <1>a, <2>3 DEF OpenFails, TasksOff
  <2>4. CASE Appends
    <3>1. /\ promised' = promised \cup {Last(entries)} /\ accepted' = accepted \cup {hand}
          /\ UNCHANGED <<evicted, logged, refused, wpc, cur>>
      BY <2>4 DEF Appends
    <3>2. Last(entries).adif = hand
      BY <1>0, <2>4 DEF Appends, Control, Own, Item
    <3>3. AccountedFor'
      BY <1>0, <3>1, <3>2 DEF Account, AccountedFor
    <3> QED BY <1>b, <3>1, <3>3 DEF Account
  <2>5. CASE AppendFails
    BY <1>a, <1>b, <2>5 DEF AppendFails
  <2>6. CASE Removes
    BY <1>a, <2>6 DEF Removes
  <2> QED BY <1>6, <2>1, <2>2, <2>3, <2>4, <2>5, <2>6, CallCases
<1>7. CASE TaskStep
  BY <1>a, <1>7, TaskMoves DEF Moves, vars, spoolVars, past
<1>8. CASE UNCHANGED pipeVars
  BY <1>a, <1>b, <1>8 DEF pipeVars, vars, spoolVars, past
<1> QED BY <1>1, <1>2, <1>3, <1>4, <1>5, <1>6, <1>7, <1>8, StepCases, Endings

LEMMA KeptKeeps ==
    ASSUME PInv, [PipeNext]_pipeVars PROVE Kept'
<1>0. PipeTypes /\ Control /\ IInv /\ Kept
  BY DEF PInv
<1>a. (crashes' = 0 => crashes = 0) /\ (ioErrors' = 0 => ioErrors = 0)
  BY FaultsGrow
<1>b. ASSUME accepted \subseteq accepted', unsent' = unsent,
             hand' = hand \/ hand = None \/ hand \in accepted',
             lpc' = "send" => hand' \in accepted'
      PROVE  Kept'
  <2>1. unsent \subseteq Qsos /\ None \notin Qsos
    BY <1>0, NoneAssumption DEF IInv, TypeOK
  <2> QED BY <1>0, <1>a, <1>b, <2>1 DEF Kept
<1>c. hand # None => lpc \in {"append", "appending", "send"}
  BY <1>0 DEF Control
<1>d. lpc' = "send" /\ UNCHANGED <<lpc, hand, accepted>> => hand' \in accepted'
  BY <1>0 DEF Kept
<1> USE DEF listenerVars, workerVars, wavelogVars, historyVars
<1>1. CASE Exit
  BY <1>b, <1>c, <1>1 DEF Exit, TasksOff
<1>2. CASE PipeCrash
  <2>1. crashes' # 0 /\ lpc' = "off"
    BY <1>0, <1>2, CrashFacts DEF PipeCrash, TasksOff
  <2> QED BY <2>1 DEF Kept
<1>3. ASSUME NEW q \in Qsos, L_Recv(q) PROVE Kept'
  <2>1. unsent' = unsent \ {q} /\ accepted' = accepted /\ hand = None /\ lpc' # "send"
    BY <1>0, <1>3 DEF L_Recv, Primed, Abort, TasksOff, Control
  <2>2. q \in Unsliceable \/ hand' = q
    BY <1>3 DEF L_Recv
  <2>3. None \notin Qsos
    BY NoneAssumption
  <2> QED BY <1>0, <1>a, <2>1, <2>2, <2>3 DEF Kept
<1>4. CASE Boot
  <2>1. hand = None /\ lpc' # "send"
    BY <1>0, <1>4, OpenFacts DEF Boot, Spawn, Control
  <2> QED BY <1>b, <1>4, <2>1 DEF Boot, Spawn
<1>5. CASE L_Append \/ W_Remove
  BY <1>b, <1>d, <1>5 DEF L_Append, W_Remove
<1>6. CASE SpoolWrite \/ SpoolError \/ SpoolLoss
  <2>0. unsent' = unsent
    BY <1>6, CallCases
  <2>1. CASE Goes \/ Removes
    BY <1>b, <1>d, <2>0, <2>1 DEF Goes, Removes
  <2>2. CASE Opens \/ OpenFails
    <3>1. hand = None
      BY <1>0, <2>2 DEF Opens, OpenFails, IInv, OpShape, Idle, Control
    <3> QED BY <1>b, <2>0, <2>2, <3>1 DEF Opens, OpenFails, Spawn, TasksOff
  <2>3. CASE Appends
    BY <1>b, <2>0, <2>3 DEF Appends
  <2>4. CASE AppendFails
    BY <2>4 DEF AppendFails, Kept
  <2> QED BY <1>6, <2>1, <2>2, <2>3, <2>4, CallCases
<1>7. CASE TaskStep
  <2>1. Moves /\ unsent' = unsent
    BY <1>7, TaskMoves DEF Moves, vars
  <2>2. lpc = "send" => hand \in accepted
    BY <1>0 DEF Kept
  <2> QED BY <1>b, <2>1, <2>2 DEF Moves
<1>8. CASE UNCHANGED pipeVars
  BY <1>b, <1>d, <1>8 DEF pipeVars, vars
<1> QED BY <1>1, <1>2, <1>3, <1>4, <1>5, <1>6, <1>7, <1>8, StepCases

LEMMA OrphansKeep ==
    ASSUME PInv, [PipeNext]_pipeVars PROVE Orphans'
<1>0. PipeTypes /\ Control /\ IInv /\ Own /\ Orphans /\ nextSeq \in Nat \ {0}
  BY DEF PInv, IInv, TypeOK
<1>a. ioErrors' = 0 => ioErrors = 0
  BY FaultsGrow
<1>b. UNCHANGED <<cur, chan, replay>> => Queued' = Queued
  BY DEF Queued, Held
<1>c. UNCHANGED <<lpc, hand, nextSeq>> => Sent' = Sent
  BY DEF Sent, Item
<1>d. ASSUME opened' => opened, ~shutdown' => ~shutdown,
             Queued \cup Sent \cup parked \subseteq Queued' \cup Sent' \cup parked',
             ToSet(entries') \subseteq ToSet(entries),
             lpc = "appending" => lpc' = lpc /\ entries' = entries
      PROVE  Orphans'
  BY <1>0, <1>a, <1>d DEF Orphans
<1>e. Spawn => ToSet(entries') \subseteq Queued'
  BY DEF Spawn, Queued
<1> USE DEF listenerVars, workerVars, wavelogVars, historyVars
<1>1. CASE Ending
  BY <1>1 DEF Ending, Stop, Orphans
<1>2. CASE Boot
  BY <1>2, <1>e DEF Boot, Orphans
<1>3. ASSUME NEW q \in Qsos, L_Recv(q), q \notin Unsliceable PROVE Orphans'
  <2>1. /\ UNCHANGED <<opened, shutdown, entries, cur, chan, replay, parked>>
        /\ lpc = "loop" /\ lpc' = "append"
    BY <1>3 DEF L_Recv, Primed, spoolVars, memory
  <2>2. Sent = {}
    BY <2>1 DEF Sent
  <2> QED BY <1>b, <1>d, <2>1, <2>2
<1>4. CASE L_Append
  <2>1. /\ opened
        /\ Last(entries') = [seq |-> nextSeq, adif |-> hand]
        /\ ToSet(entries') \subseteq ToSet(entries) \cup {[seq |-> nextSeq, adif |-> hand]}
    BY <1>0, <1>4, HandFacts, BeginAppendFacts DEF L_Append
  <2>2. lpc = "append" /\ lpc' = "appending" /\ UNCHANGED <<shutdown, cur, chan, replay, parked>>
    BY <1>4 DEF L_Append
  <2>3. Sent = {} /\ Queued' = Queued
    BY <1>b, <2>2 DEF Sent
  <2> QED BY <1>0, <1>a, <2>1, <2>2, <2>3 DEF Orphans
<1>5. CASE W_Remove
  <2>1. op = Idle /\ opened /\ nextSeq' = nextSeq /\ ToSet(entries') \subseteq ToSet(entries)
    BY <1>0, <1>5, BeginRemoveFacts DEF W_Remove
  <2>2. lpc # "appending"
    BY <1>0, <2>1 DEF Control, Idle
  <2> QED BY <1>5, <1>b, <1>c, <1>d, <2>1, <2>2 DEF W_Remove
<1>6. CASE SpoolWrite \/ SpoolError \/ SpoolLoss
  <2>1. CASE Goes
    <3>1. UNCHANGED <<opened, shutdown, entries, nextSeq, cur, chan, replay, lpc, hand, parked>>
      BY <2>1 DEF Goes, memory
    <3> QED BY <1>b, <1>c, <1>d, <3>1
  <2>2. CASE Opens
    BY <1>e, <2>2 DEF Opens, Orphans
  <2>3. CASE OpenFails \/ AppendFails
    BY <2>3 DEF OpenFails, AppendFails, Orphans
  <2>4. CASE Appends
    <3>1. /\ UNCHANGED <<opened, shutdown, entries, nextSeq, hand, cur, chan, replay, parked>>
          /\ lpc = "appending" /\ lpc' = "send"
      BY <1>0, <2>4 DEF Appends, memory, Control
    <3>2. Sent = {} /\ Queued' = Queued /\ Last(entries) \in Sent'
      BY <1>0, <1>b, <3>1 DEF Sent, Item, Own
    <3> QED BY <1>0, <1>a, <3>1, <3>2 DEF Orphans
  <2>5. CASE Removes
    <3>1. /\ UNCHANGED <<opened, shutdown, entries, nextSeq, lpc, hand, chan, replay, parked>>
          /\ cur' = None /\ wpc = "removing"
      BY <1>0, <2>5 DEF Removes, WorkerIdle, memory, Control
    <3>2. Sent' = Sent /\ Queued \subseteq Queued' \cup {cur} /\ cur \notin ToSet(entries)
      BY <1>0, <1>c, <3>1 DEF Own, Queued, Held
    <3> QED BY <1>0, <1>a, <3>1, <3>2 DEF Orphans
  <2> QED BY <1>6, <2>1, <2>2, <2>3, <2>4, <2>5, CallCases
<1>7. CASE TaskStep
  <2>1. Moves /\ Stays
    BY <1>7, TaskMoves
  <2>2. UNCHANGED <<opened, entries>>
    BY <2>1 DEF Moves, vars, spoolVars, memory
  <2>3. lpc = "appending" => lpc' = "appending"
    BY <2>1 DEF Moves
  <2> QED BY <1>0, <1>a, <2>1, <2>2, <2>3 DEF Stays, Orphans
<1>8. CASE UNCHANGED pipeVars
  <2>1. UNCHANGED <<opened, shutdown, entries, nextSeq, cur, chan, replay, lpc, hand, parked>>
    BY <1>8 DEF pipeVars, vars, spoolVars, memory
  <2> QED BY <1>b, <1>c, <1>d, <2>1
<1> QED BY <1>1, <1>2, <1>3, <1>4, <1>5, <1>6, <1>7, <1>8, StepCases, Endings

-----------------------------------------------------------------------------
(* Nothing answered is queued again.                                       *)

\* What is queued and not in the worker's hands.
Waiting == ToSet(chan) \cup ToSet(replay) \cup Sent

\* What waits came before the item in the worker's hands, and what is in memory
\* and handed over came last.
LEMMA WaitingFacts ==
    ASSUME PInv
    PROVE  /\ cur # None => cur \notin Waiting
           /\ lpc \in {"appending", "send"} => Item \notin Held
<1>1. PipeTypes /\ Control /\ Order /\ nextSeq \in Nat \ {0}
  BY DEF PInv, IInv, TypeOK
<1>2. cur # None => cur \in Queued /\ cur.seq \in Nat
  BY <1>1, QueuedFacts DEF Queued, Held
<1>3. cur # None => cur \notin ToSet(chan) \cup ToSet(replay)
  BY <1>1, <1>2 DEF Order
<1>4. lpc \in {"appending", "send"} => Item \notin Held
  <2> SUFFICES ASSUME lpc \in {"appending", "send"}, Item \in Held PROVE FALSE
    OBVIOUS
  <2>1. Item \in Queued /\ Item.seq = nextSeq - 1
    BY DEF Queued, Item
  <2> QED BY <1>1, <2>1 DEF Order
<1> QED BY <1>3, <1>4 DEF Waiting, Sent, Held

\* While nothing fails the file ends in a newline between two writes, a call is
\* of a process that runs, and no line is glued.
LEMMA CalmWrites ==
    ASSUME PInv, Calm, SpoolWrite
    PROVE  /\ stale' = FALSE /\ opened /\ opened' = TRUE
           /\ op'.at # "newline" => file'.tail = <<>>
           /\ Goes \/ Appends \/ Removes
<1>0. /\ IInv /\ ~stale /\ (op.at # "newline" => file.tail = <<>>)
      /\ (~opened => op = Idle) /\ opened \in BOOLEAN
      /\ op \in [call : Calls, at : Steps]
  BY DEF PInv, IInv, TypeOK, Answered
<1>1. op # Idle /\ WriteStep /\ opened
  BY <1>0, CallCases DEF SpoolWrite
<1>2. op.call # "open"
  BY <1>0, <1>1 DEF IInv, OpShape, Idle
<1>3. Goes \/ Appends \/ Removes
  <2>1. ioErrors' = ioErrors
    BY <1>0, <1>1, WriteFacts
  <2> QED BY <1>2, <2>1, CallCases DEF Opens, OpenFails, AppendFails, Calm
<1>4. \A at : Goto(at) => op'.at = at
  BY <1>0 DEF Goto
<1>5. stale' = FALSE /\ (op'.at # "newline" => file'.tail = <<>>)
  <2>1. CASE WriteLine
    BY <1>0, <1>4, <2>1 DEF WriteLine, Glue, At
  <2>2. CASE WriteNewline
    BY <1>0, <2>2 DEF WriteNewline, EndLine, past
  <2>3. CASE SyncData
    BY <1>0, <2>3 DEF SyncData, At
  <2>4. CASE Rename
    BY <1>0, <2>4 DEF Rename, FileOf
  <2>5. CASE SyncDir
    BY <1>0, <2>5 DEF SyncDir, At
  <2> QED BY <1>1, <2>1, <2>2, <2>3, <2>4, <2>5 DEF WriteStep
<1> QED BY <1>0, <1>1, <1>3, <1>5 DEF Goes, Appends, Removes

LEMMA AnsweredKeeps ==
    ASSUME PInv, [PipeNext]_pipeVars PROVE Answered'
<1> SUFFICES ASSUME Calm' PROVE Answered'
  BY DEF Answered
<1> USE DEF listenerVars, workerVars, wavelogVars, historyVars
<1>0. /\ PipeTypes /\ Control /\ IInv /\ MirrorInv /\ Own /\ Identity
      /\ opened \in BOOLEAN /\ stale \in BOOLEAN /\ file \in File /\ entries \in Seq(Entry)
  BY DEF PInv, IInv, TypeOK
<1>a. Calm
  BY FaultsGrow, UnsentShrinks DEF Calm
<1>b. /\ stale = FALSE
      /\ op.at # "newline" => file.tail = <<>>
      /\ ~opened => /\ op = Idle
                    /\ Clean(file)
                    /\ answered \cap ToSet(Parsed(file)) = {}
      /\ opened => answered \cap ToSet(entries) \subseteq {i \in {cur} : wpc = "settle"}
      /\ answered \cap Waiting = {}
      /\ wpc \in {"resolve", "post"} => cur \notin answered
  BY <1>0, <1>a DEF PInv, Answered, Waiting
<1>c. ASSUME opened', stale' = FALSE, op'.at # "newline" => file'.tail = <<>>,
             answered' \cap ToSet(entries') \subseteq {i \in {cur'} : wpc' = "settle"},
             answered' \cap Waiting' = {},
             wpc' \in {"resolve", "post"} => cur' \notin answered'
      PROVE  Answered'
  BY <1>c DEF Answered, Waiting
<1>d. UNCHANGED <<lpc, hand, nextSeq>> => Sent' = Sent
  BY DEF Sent, Item
<1>e. lpc' \in {"loop", "off", "done", "append", "appending"} => Sent' = {}
  BY DEF Sent
<1>f. op = Idle => op.at # "newline"
  BY DEF Idle
<1>1. CASE Exit
  <2>1. /\ opened /\ op = Idle /\ opened' = FALSE /\ op' = Idle
        /\ UNCHANGED <<file, stale, answered>> /\ wpc = "done"
    BY <1>1 DEF Exit, Close, Stop, disk, past
  <2>2. Mirrored(file, entries)
    BY <1>0, <1>b, <2>1 DEF MirrorInv, Quiet
  <2>3. Clean(file) /\ Parsed(file) = entries
    BY <1>0, <2>2, MirroredIsRead
  <2>4. ToSet(chan') = {} /\ ToSet(replay') = {} /\ Sent' = {} /\ wpc' = "off"
    BY <1>1, <1>e, Empty DEF Exit, TasksOff
  <2>5. (Clean(file) /\ answered \cap ToSet(Parsed(file)) = {})'
    BY <1>b, <2>1, <2>3
  <2> QED BY <1>b, <1>f, <2>1, <2>4, <2>5 DEF Answered
<1>2. CASE PipeCrash
  BY <1>0, <1>2, CrashFacts DEF PipeCrash, Calm
<1>3. ASSUME NEW q \in Qsos, L_Recv(q) PROVE Answered'
  <2>1. q \notin Unsliceable
    BY <1>3 DEF L_Recv, Calm
  <2>2. /\ UNCHANGED <<spoolVars, chan, replay, cur, wpc, answered>>
        /\ lpc = "loop" /\ lpc' = "append"
    BY <1>3, <2>1 DEF L_Recv, Primed
  <2>3. opened
    BY <1>0, <2>2 DEF Control
  <2>4. Waiting' \subseteq Waiting
    BY <1>e, <2>2 DEF Waiting
  <2> QED BY <1>b, <1>c, <2>2, <2>3, <2>4 DEF spoolVars, disk, memory, past
<1>4. CASE Boot
  <2>1. ~opened /\ op = Idle
    BY <1>0, <1>4, OpenFacts DEF Boot
  <2>2. Clean(file) /\ ~Truncated(file) /\ ~Corrupt(file)
    BY <1>b, <2>1 DEF Clean, Truncated, Corrupt
  <2>3. OpenClean
    BY <1>4, <2>2 DEF Boot, OpenStep, OpenTruncated, OpenCorrupt
  <2>4. /\ opened' /\ stale' = FALSE /\ UNCHANGED <<file, op>> /\ entries' = Parsed(file)
    BY <2>3 DEF OpenClean, disk
  <2>5. /\ chan' = <<>> /\ replay' = entries' /\ wpc' = "recv" /\ lpc' = "loop" /\ answered' = answered
    BY <1>0, <1>4, <2>1, <2>4 DEF Boot, Spawn, Control
  <2>6. answered' \cap ToSet(entries') = {} /\ Waiting' = ToSet(entries')
    BY <1>b, <1>e, <2>1, <2>4, <2>5, Empty DEF Waiting
  <2> QED BY <1>b, <1>c, <1>f, <2>1, <2>4, <2>5, <2>6
<1>5. CASE L_Append
  <2>1. /\ op = Idle /\ opened /\ opened' = opened
        /\ op' \in [call : {"append"}, at : {"line", "rename"}]
        /\ ToSet(entries') \subseteq ToSet(entries) \cup {[seq |-> nextSeq, adif |-> hand]}
        /\ UNCHANGED <<file, stale>>
    BY <1>0, <1>5, HandFacts, BeginAppendFacts DEF L_Append
  <2>2. /\ lpc = "append" /\ lpc' = "appending" /\ UNCHANGED <<chan, replay, wpc, cur, answered>>
    BY <1>5 DEF L_Append
  <2>3. [seq |-> nextSeq, adif |-> hand] \notin answered
    <3>1. \A x \in answered : x.adif # hand
      BY <1>0, <2>2 DEF Identity, Known
    <3> QED BY <3>1
  <2>4. Waiting' \subseteq Waiting
    BY <1>e, <2>2 DEF Waiting
  <2>5. op'.at # "newline"
    BY <2>1
  <2> QED BY <1>b, <1>c, <1>f, <2>1, <2>2, <2>3, <2>4, <2>5
<1>6. CASE W_Remove
  <2>1. /\ op = Idle /\ opened /\ opened' = opened
        /\ op' = [call |-> "remove", at |-> "rename"]
        /\ \E e \in ToSet(entries) : e.seq = cur.seq /\ ToSet(entries') = ToSet(entries) \ {e}
        /\ UNCHANGED <<file, stale, nextSeq>>
    BY <1>0, <1>6, BeginRemoveFacts DEF W_Remove
  <2>2. /\ wpc = "settle" /\ wpc' = "removing"
        /\ UNCHANGED <<chan, replay, lpc, hand, cur, answered>>
    BY <1>6 DEF W_Remove
  <2>3. cur \in Queued
    BY <1>0, <2>2 DEF Control, Queued, Held
  <2>4. ToSet(entries') = ToSet(entries) \ {cur}
    BY <1>0, <2>1, <2>3 DEF Own
  <2>5. answered' \cap ToSet(entries') = {}
    BY <1>b, <2>1, <2>2, <2>4
  <2>6. Waiting' = Waiting
    BY <1>d, <2>1, <2>2 DEF Waiting
  <2> QED BY <1>b, <1>c, <1>f, <2>1, <2>2, <2>5, <2>6
<1>7. CASE SpoolWrite
  <2>1. /\ opened /\ opened' /\ stale' = FALSE /\ (op'.at # "newline" => file'.tail = <<>>)
        /\ Goes \/ Appends \/ Removes
    BY <1>a, <1>7, CalmWrites
  <2>2. CASE Goes
    <3>1. UNCHANGED <<entries, nextSeq, lpc, hand, chan, replay, wpc, cur, answered>>
      BY <2>2 DEF Goes, memory
    <3>2. Waiting' = Waiting
      BY <1>d, <3>1 DEF Waiting
    <3> QED BY <1>b, <1>c, <2>1, <3>1, <3>2
  <2>3. CASE Appends
    <3>1. /\ UNCHANGED <<entries, nextSeq, hand, chan, replay, wpc, cur, answered>>
          /\ lpc = "appending" /\ lpc' = "send"
      BY <1>0, <2>3 DEF Appends, memory, Control
    <3>2. Item = Last(entries) /\ Last(entries) \in ToSet(entries) /\ Sent' = {Item}
      BY <1>0, <2>3, <3>1, LastFacts DEF Appends, Own, Sent, Item
    <3>3. Item \notin answered
      <4>1. Item \in answered => Item = cur /\ cur # None
        BY <1>0, <1>b, <2>1, <3>2 DEF Control
      <4> QED BY <3>1, <4>1, WaitingFacts DEF Held
    <3>4. answered' \cap Waiting' = {}
      BY <1>b, <3>1, <3>2, <3>3 DEF Waiting
    <3> QED BY <1>b, <1>c, <2>1, <3>1, <3>4
  <2>4. CASE Removes
    <3>1. /\ UNCHANGED <<entries, nextSeq, lpc, hand, chan, replay, answered>>
          /\ wpc = "removing" /\ wpc' = "recv"
      BY <1>0, <2>4 DEF Removes, memory, Control
    <3>2. Waiting' = Waiting
      BY <1>d, <3>1 DEF Waiting
    <3> QED BY <1>b, <1>c, <2>1, <3>1, <3>2
  <2> QED BY <2>1, <2>2, <2>3, <2>4
<1>8. CASE SpoolError \/ SpoolLoss
  <2>1. ioErrors \in Nat /\ ioErrors' = ioErrors + 1
    BY <1>0, <1>8, IoErrorFacts, LostWriteFacts DEF SpoolError, SpoolLoss
  <2> QED BY <1>0, <2>1 DEF Calm
<1>9. CASE TaskStep
  <2>0. UNCHANGED <<entries, nextSeq, opened, stale, op, file>>
    BY <1>9, TaskMoves DEF Moves, vars, spoolVars, disk, memory, past
  <2>1. CASE StrayArrives \/ Signal
    <3>1. UNCHANGED <<lpc, hand, chan, replay, wpc, cur, answered>>
      BY <2>1 DEF StrayArrives, Signal
    <3> QED BY <2>0, <3>1, <1>b, <1>d DEF Answered, Waiting
  <2>2. CASE L_Replay \/ L_ReplayClosed \/ L_Send \/ L_Stop
    <3>1. /\ UNCHANGED <<wpc, cur, answered>> /\ lpc # "off"
      BY <2>2 DEF L_Replay, L_ReplayClosed, L_Send, L_Stop
    <3>2. Waiting' \subseteq Waiting
      <4>1. CASE L_Replay
        BY <1>d, <2>0, <4>1, ReplayFacts DEF L_Replay, Waiting
      <4>2. CASE L_Send
        <5>1. Sent = {Item} /\ Sent' = {} /\ replay' = replay
          BY <1>e, <4>2 DEF L_Send, Sent
        <5> QED BY <4>2, <5>1, SendFacts DEF Waiting
      <4>3. CASE L_ReplayClosed \/ L_Stop
        BY <1>e, <4>3, Empty DEF L_ReplayClosed, L_Stop, Waiting
      <4> QED BY <2>2, <4>1, <4>2, <4>3
    <3>3. opened
      BY <1>0, <3>1 DEF Control
    <3> QED BY <1>b, <1>c, <2>0, <3>1, <3>2, <3>3
  <2>3. CASE W_Recv
    <3>1. /\ UNCHANGED <<lpc, hand, replay, answered>> /\ wpc = "recv" /\ wpc' = "resolve"
          /\ ToSet(chan) = {cur'} \cup ToSet(chan')
      BY <2>3, RecvFacts DEF W_Recv
    <3>2. Waiting' \subseteq Waiting /\ cur' \in Waiting
      BY <1>d, <2>0, <3>1 DEF Waiting
    <3>3. opened
      BY <1>0, <3>1 DEF Control
    <3> QED BY <1>b, <1>c, <2>0, <3>1, <3>2, <3>3
  <2>4. CASE W_Answer
    <3>1. /\ UNCHANGED <<lpc, hand, chan, replay, cur>> /\ wpc = "post" /\ wpc' = "settle"
          /\ answered' = answered \cup {cur}
      BY <2>4 DEF W_Answer
    <3>2. cur # None /\ opened /\ Waiting' = Waiting
      BY <1>0, <1>d, <2>0, <3>1 DEF Control, Waiting
    <3>3. cur \notin Waiting
      BY <3>2, WaitingFacts
    <3> QED BY <1>b, <1>c, <2>0, <3>1, <3>2, <3>3
  <2>5. CASE W_Closed \/ W_Resolved \/ W_Unresolved \/ W_Fail \/ W_Stop
    <3>1. /\ UNCHANGED <<lpc, hand, replay, answered>> /\ wpc \in {"recv", "resolve", "post"}
          /\ chan' \in {chan, <<>>}
          /\ wpc' \in {"resolve", "post"} => wpc \in {"resolve", "post"} /\ cur' = cur
      BY <2>5 DEF W_Closed, W_Resolved, W_Unresolved, W_Fail, W_Stop, Cancellable
    <3>2. Waiting' \subseteq Waiting
      BY <1>d, <2>0, <3>1, Empty DEF Waiting
    <3>3. opened
      BY <1>0, <3>1 DEF Control
    <3> QED BY <1>b, <1>c, <2>0, <3>1, <3>2, <3>3
  <2>6. CASE W_NoEntry
    <3>1. /\ UNCHANGED <<lpc, hand, chan, replay, answered>> /\ wpc = "settle" /\ wpc' = "recv"
          /\ cur \notin ToSet(entries)
      BY <2>6 DEF W_NoEntry
    <3>2. Waiting' = Waiting
      BY <1>d, <2>0, <3>1 DEF Waiting
    <3>3. opened
      BY <1>0, <3>1 DEF Control
    <3> QED BY <1>b, <1>c, <2>0, <3>1, <3>2, <3>3
  <2> QED BY <1>9, <2>1, <2>2, <2>3, <2>4, <2>5, <2>6 DEF TaskStep
<1>10. CASE UNCHANGED pipeVars
  <2>1. UNCHANGED <<lpc, hand, chan, replay, wpc, cur, answered, spoolVars>>
    BY <1>10 DEF pipeVars, vars
  <2>2. UNCHANGED <<entries, nextSeq, opened, stale, op, file>>
    BY <2>1 DEF spoolVars, disk, memory, past
  <2> QED BY <2>1, <2>2, <1>b, <1>d DEF Answered, Waiting
<1> QED BY <1>1, <1>2, <1>3, <1>4, <1>5, <1>6, <1>7, <1>8, <1>9, <1>10, StepCases

-----------------------------------------------------------------------------
(* The invariant holds in every reachable state.                           *)

LEMMA InitPInv == PipeInit => PInv
<1> SUFFICES ASSUME PipeInit PROVE PInv
  OBVIOUS
<1>0. /\ IInv /\ MirrorInv /\ FaultFree
      /\ QueueCapacity \in Nat \ {0} /\ Len(<<>>) = 0 /\ <<>> \in Seq(Entry)
      /\ 1 \in 1..MaxAttempts
  BY InitIInv, InitMemory, CapacityAssumption DEF PipeInit, MaxAttempts
<1>1. /\ lpc = "off" /\ wpc = "off" /\ hand = None /\ cur = None /\ attempt = 1
      /\ chan = <<>> /\ replay = <<>> /\ shutdown = FALSE
      /\ stray = {} /\ logged = {} /\ refused = {}
      /\ accepted = {} /\ evicted = {} /\ answered = {} /\ parked = {}
      /\ file = NoFile /\ Found = {NoFile} /\ opened = FALSE /\ entries = <<>>
      /\ op = Idle /\ unsent = Qsos /\ promised = {} /\ stale = FALSE
      /\ aside = {} /\ damaged = {} /\ exposed = {}
  BY DEF PipeInit, Init, Found
<1>2. Body(NoFile) = <<>> /\ None \notin Qsos
  BY NoFileFacts, NoneAssumption
<1>3. Queued = {} /\ Sent = {} /\ OnDisk = {} /\ ToSet(entries) = {}
  <2>1. Texts(NoFile) = {}
    BY <1>2 DEF Texts, Chunks
  <2> QED BY <1>1, <2>1, Empty DEF Queued, Held, Sent, InFiles, OnDisk
<1>4. PipeTypes
  <2>1. TypeOK
    BY <1>0 DEF IInv
  <2>2. replay \in Seq(Entry) /\ chan \in Seq(Entry) /\ Len(chan) <= QueueCapacity
    BY <1>0, <1>1
  <2>3. attempt \in 1..MaxAttempts
    BY <1>0, <1>1
  <2> QED BY <1>1, <2>1, <2>2, <2>3 DEF PipeTypes, PipeTypeOK, Items
<1>5. Control
  BY <1>1 DEF Control, Idle
<1>6. Order
  BY <1>1, <1>3, Empty DEF Order
<1>7. Own
  BY <1>1, <1>3 DEF Own
<1>8. Identity
  BY <1>1, <1>2, <1>3 DEF Identity, Known
<1>9. Account /\ Kept /\ Orphans
  BY <1>1 DEF Account, AccountedFor, Kept, Orphans
<1>10. Answered
  <2>1. Clean(file) /\ file.tail = <<>>
    BY <1>1, <1>2 DEF Clean, BadLines, NoFile
  <2> QED BY <1>1, <1>3, <2>1, Empty DEF Answered
<1> QED BY <1>0, <1>4, <1>5, <1>6, <1>7, <1>8, <1>9, <1>10 DEF PInv

LEMMA PipeKeeps ==
    ASSUME PInv, CapInv, [PipeNext]_pipeVars PROVE PInv' /\ CapInv'
<1>1. SpoolStep /\ IInv /\ MirrorInv /\ FaultFree
  BY SpoolSteps DEF PInv
<1>2. IInv' /\ MirrorInv' /\ CapInv' /\ FaultFree'
  BY <1>1, StepKeeps, MirrorKeeps, CapKeeps, FaultFreeKeeps
<1>3. TypeOK'
  BY <1>2 DEF IInv
<1>4. PipeTypes' /\ Control' /\ Order' /\ Own' /\ Identity'
  BY <1>2, <1>3, TypesKeep, ControlKeeps, OrderKeeps, OwnKeeps, IdentityKeeps
<1>5. Account' /\ Kept' /\ Orphans' /\ Answered'
  BY AccountKeeps, KeptKeeps, OrphansKeep, AnsweredKeeps
<1> QED BY <1>2, <1>4, <1>5 DEF PInv

LEMMA PipeAlways == PipeSpec => [](PInv /\ CapInv)
<1>1. PipeInit => PInv /\ CapInv
  BY InitPInv, InitMemory DEF PipeInit
<1>2. PInv /\ CapInv /\ [PipeNext]_pipeVars => PInv' /\ CapInv'
  BY PipeKeeps
<1> QED BY <1>1, <1>2, PTL DEF PipeSpec

-----------------------------------------------------------------------------
(* The theorems.                                                           *)

\* Every variable of the two tasks keeps its type and the channel its capacity,
\* for any capacity, cap and number of faults.
THEOREM PipeTypeCorrect == PipeSpec => []PipeTypeOK
<1>1. PInv => PipeTypeOK
  BY DEF PInv, PipeTypes
<1> QED BY <1>1, PipeAlways, PTL

\* The spool keeps its promises under the callers it has: whatever the two tasks
\* interleave, an acknowledged entry can be read from the disk unless it was damaged
\* or set aside, and after a power failure too unless the file's name was not on
\* the disk; a seq is never given twice; and memory and file agree and keep to the
\* cap, until a call fails or a line is damaged.
THEOREM SpoolInPipe == PipeSpec => [](Durable /\ SeqFresh /\ SpoolMirrorsMemory /\ CapHolds)
<1>1. PInv /\ CapInv => Durable /\ SeqFresh /\ SpoolMirrorsMemory /\ CapHolds
  BY SpoolPromises DEF PInv
<1> QED BY <1>1, PipeAlways, PTL

\* The parts of the pipe and what they hold.
LEMMA PipeFacts ==
    ASSUME PInv
    PROVE  /\ Pipe \in Seq(Entry) /\ Ascending(Pipe)
           /\ ToSet(Pipe) = Queued \cup Sent
<1> DEFINE p == IF cur = None THEN <<>> ELSE <<cur>>
           s == IF lpc = "send" THEN <<[seq |-> nextSeq - 1, adif |-> hand]>> ELSE <<>>
<1>0. /\ PipeTypes /\ Control /\ Order /\ nextSeq \in Nat \ {0}
      /\ chan \in Seq(Entry) /\ replay \in Seq(Entry)
      /\ Ascending(chan) /\ Ascending(replay)
  BY DEF PInv, IInv, TypeOK, PipeTypes, PipeTypeOK, Order
<1>a. \A e \in Entry : <<e>> \in Seq(Entry) /\ Ascending(<<e>>) /\ ToSet(<<e>>) = {e}
  BY DEF ToSet, Ascending
<1>1. p \in Seq(Entry) /\ Ascending(p) /\ ToSet(p) = Held
  <2>1. CASE cur = None
    BY <2>1, Empty DEF Held
  <2>2. CASE cur # None
    <3>1. cur \in Entry /\ Held = {cur}
      BY <1>0, <2>2, HandFacts DEF Control, Held
    <3> QED BY <1>a, <2>2, <3>1
  <2> QED BY <2>1, <2>2
<1>2. s \in Seq(Entry) /\ Ascending(s) /\ ToSet(s) = Sent
  <2>1. CASE lpc # "send"
    BY <2>1, Empty DEF Sent
  <2>2. CASE lpc = "send"
    <3>1. Item \in Entry /\ Sent = {Item}
      BY <1>0, <2>2, HandFacts DEF Control, Sent, Item, Entry
    <3>2. s = <<Item>>
      BY <2>2 DEF Item
    <3> QED BY <1>a, <3>1, <3>2
  <2> QED BY <2>1, <2>2
<1>3. \A i \in Held, j \in ToSet(chan) : i.seq < j.seq
  BY <1>0 DEF Order, Held
<1> HIDE DEF p, s
<1>4. p \o chan \in Seq(Entry) /\ Ascending(p \o chan) /\ ToSet(p \o chan) = Held \cup ToSet(chan)
  BY <1>0, <1>1, <1>3, Concatenation
<1>5. \A i \in Held \cup ToSet(chan), j \in Sent : i.seq < j.seq
  BY <1>0 DEF Order, Sent, Item, Queued
<1>6. /\ (p \o chan) \o s \in Seq(Entry) /\ Ascending((p \o chan) \o s)
      /\ ToSet((p \o chan) \o s) = Held \cup ToSet(chan) \cup Sent
  BY <1>2, <1>4, <1>5, Concatenation
<1>7. \A i \in Held \cup ToSet(chan) \cup Sent, j \in ToSet(replay) : i.seq < j.seq
  <2>1. \A i \in Held \cup ToSet(chan), j \in ToSet(replay) : i.seq < j.seq
    BY <1>0 DEF Order, Held
  <2>2. Sent # {} => ToSet(replay) = {}
    BY <1>0, Empty DEF Control, Sent
  <2> QED BY <2>1, <2>2
<1>8. /\ ((p \o chan) \o s) \o replay \in Seq(Entry) /\ Ascending(((p \o chan) \o s) \o replay)
      /\ ToSet(((p \o chan) \o s) \o replay) = Held \cup ToSet(chan) \cup Sent \cup ToSet(replay)
  BY <1>0, <1>6, <1>7, Concatenation
<1>9. Pipe = ((p \o chan) \o s) \o replay
  BY DEF Pipe, p, s
<1> QED BY <1>8, <1>9 DEF Queued

\* QSOs are submitted in the order WSJT-X logged them and none is queued twice,
\* whatever is replayed, evicted or given up.
THEOREM InOrderAlways == PipeSpec => []InOrder
<1>1. PInv => InOrder
  BY PipeFacts DEF InOrder, Ascending
<1> QED BY <1>1, PipeAlways, PTL

\* remove_persisted never takes another QSO's entry.
THEOREM OwnEntryAlways == PipeSpec => []OwnEntry
<1>1. PInv => OwnEntry
  BY PipeFacts DEF PInv, Own, OwnEntry
<1> QED BY <1>1, PipeAlways, PTL

\* What stands alone on a line can be read.
LEMMA SavedFacts ==
    ASSUME NEW f, NEW e, Alone(e, f) PROVE e.adif \in Saved(f)
<1>1. PICK i \in DOMAIN Body(f) : Body(f)[i] = <<Written("whole", e)>>
  BY DEF Alone
<1>2. Good(Body(f)[i]) /\ Body(f)[i][1].entry = e
  BY <1>1 DEF Good, Written
<1> QED BY <1>2 DEF Saved

\* A QSO whose append returned Ok is logged, refused or evicted, or can be read from
\* every content of the disk that a power failure may uncover: through crashes,
\* restarts, removals, evictions and failed system calls, unless its entry was
\* damaged or set aside, or acknowledged before the file's name was on the disk.
THEOREM EveryQsoAccountedForAlways == PipeSpec => []EveryQsoAccountedFor
<1>1. ASSUME PInv PROVE EveryQsoAccountedFor
  <2> SUFFICES ASSUME NEW q \in accepted, q \notin Spoilt, q \notin {e.adif : e \in exposed},
                      q \notin logged \cup refused \cup evicted,
                      NEW f \in Found
               PROVE  q \in Saved(f)
    BY DEF EveryQsoAccountedFor
  <2>1. PICK e \in promised : q = e.adif
    BY <1>1 DEF PInv, Account, AccountedFor
  <2>2. e \notin damaged \cup aside \cup exposed
    BY <2>1 DEF Spoilt
  <2>3. Alone(e, f)
    BY <1>1, <2>2 DEF PInv, IInv, Durable
  <2> QED BY <2>1, <2>3, SavedFacts
<1> QED BY <1>1, PipeAlways, PTL

\* While the daemon runs no entry of the queue is forgotten.
THEOREM NoOrphanAlways == PipeSpec => []NoOrphan
<1>1. ASSUME PInv PROVE NoOrphan
  <2>1. Orphans /\ ToSet(Pipe) = Queued \cup Sent
    BY <1>1, PipeFacts DEF PInv
  <2> QED BY <2>1 DEF Orphans, NoOrphan
<1> QED BY <1>1, PipeAlways, PTL

\* A signal never makes the listener drop a record it has received: without faults
\* a record is lost only if it makes summarize_adif panic.
THEOREM ReceivedIsKeptAlways ==
    /\ PipeSpec => [](crashes = 0 /\ ioErrors = 0 =>
                        Qsos \ unsent \subseteq accepted \cup {hand} \cup Unsliceable)
    /\ Unsliceable = {} => (PipeSpec => []ReceivedIsKept)
<1>1. PInv => (crashes = 0 /\ ioErrors = 0 =>
                  Qsos \ unsent \subseteq accepted \cup {hand} \cup Unsliceable)
  BY DEF PInv, Kept
<1>2. ASSUME Unsliceable = {} PROVE PInv => ReceivedIsKept
  BY <1>1, <1>2 DEF ReceivedIsKept
<1>3. ASSUME Unsliceable = {} PROVE PipeSpec => []ReceivedIsKept
  BY <1>2, <1>3, PipeAlways, PTL
<1>4. PipeSpec => [](crashes = 0 /\ ioErrors = 0 =>
                        Qsos \ unsent \subseteq accepted \cup {hand} \cup Unsliceable)
  BY <1>1, PipeAlways, PTL
<1> QED BY <1>3, <1>4

\* A graceful shutdown and restart never submits again what Wavelog has answered:
\* the removal is not cancelled.  As long as no record has made the listener panic.
THEOREM AnsweredOnceAlways ==
    /\ PipeSpec => [](Unsliceable \subseteq unsent => AnsweredOnce)
    /\ Unsliceable = {} => (PipeSpec => []AnsweredOnce)
<1>1. PInv => (Unsliceable \subseteq unsent => AnsweredOnce)
  BY DEF PInv, Answered, Calm, AnsweredOnce
<1>2. ASSUME Unsliceable = {} PROVE PInv => AnsweredOnce
  BY <1>1, <1>2
<1>3. ASSUME Unsliceable = {} PROVE PipeSpec => []AnsweredOnce
  BY <1>2, <1>3, PipeAlways, PTL
<1>4. PipeSpec => [](Unsliceable \subseteq unsent => AnsweredOnce)
  BY <1>1, PipeAlways, PTL
<1> QED BY <1>3, <1>4

-----------------------------------------------------------------------------
(* The pipeline implements QsoDelivery.                                    *)

Received == Qsos \ unsent
DiskHolds == accepted \cap Saved(file)
Faulty == crashes + ioErrors > 0

\* What a step of the pipeline may do, seen from outside: it leaves the disk as it
\* is, or it changes the disk only.
Outside ==
    /\ UNCHANGED <<accepted, DiskHolds, Spoilt, Faulty>>
    /\ \/ \E q \in Qsos : /\ q \notin Received /\ Received' = Received \cup {q}
                          /\ UNCHANGED <<logged, refused, evicted>>
       \/ \E q \in Qsos : /\ q \in Received \ refused /\ logged' = logged \cup {q}
                          /\ UNCHANGED <<Received, refused, evicted>>
       \/ \E q \in Qsos : /\ q \in Received \ logged /\ refused' = refused \cup {q}
                          /\ UNCHANGED <<Received, logged, evicted>>
       \/ \E S \in SUBSET Qsos : /\ S \subseteq Received /\ evicted' = evicted \cup S
                                 /\ UNCHANGED <<Received, logged, refused>>
       \/ UNCHANGED <<Received, logged, refused, evicted>>

OnTheDisk ==
    /\ UNCHANGED <<Received, logged, refused, evicted>>
    /\ accepted \subseteq accepted'

LEMMA OutwardSteps ==
    ASSUME PInv, [PipeNext]_pipeVars PROVE Outside \/ OnTheDisk
<1>0. /\ PipeTypes /\ Control /\ IInv /\ Identity
      /\ unsent \subseteq Qsos /\ entries \in Seq(Entry)
  BY DEF PInv, IInv, TypeOK
<1>a. unsent' = unsent => Received' = Received
  BY DEF Received
<1>b. UNCHANGED <<accepted, file, damaged, aside, crashes, ioErrors>> =>
          UNCHANGED <<accepted, DiskHolds, Spoilt, Faulty>>
  BY DEF DiskHolds, Saved, Body, Spoilt, Faulty
<1>c. \A i \in Known : i.adif \notin unsent
  BY <1>0 DEF Identity
<1>d. wpc = "post" => cur.adif \in Received
  BY <1>0, <1>c, HandFacts DEF Control, Known, Queued, Held, Received
<1>f. UNCHANGED <<accepted, file, damaged, aside, crashes, ioErrors>>
          /\ UNCHANGED <<Received, logged, refused, evicted>> => Outside
  BY <1>b DEF Outside
\* An answer that does not arrive: the record is logged, or nothing is seen.
<1>e. ASSUME wpc = "post", Unanswered(cur.adif), UNCHANGED <<Received, evicted>>,
             UNCHANGED <<accepted, file, damaged, aside, crashes, ioErrors>>
      PROVE  Outside
  <2>1. CASE logged' = logged
    BY <1>e, <1>f, <2>1 DEF Unanswered
  <2>2. CASE cur.adif \notin refused /\ logged' = logged \cup {cur.adif}
    BY <1>b, <1>d, <1>e, <2>2 DEF Unanswered, Outside, Received
  <2> QED BY <1>e, <2>1, <2>2 DEF Unanswered
<1>g. UNCHANGED spoolVars => UNCHANGED <<file, damaged, aside, crashes, ioErrors>>
  BY DEF spoolVars, disk, past, marks, faults
<1> USE DEF listenerVars, workerVars, wavelogVars, historyVars
<1>1. CASE Exit
  BY <1>a, <1>f, <1>1 DEF Exit, Close, disk, past, marks, faults
<1>2. CASE PipeCrash
  BY <1>a, <1>2 DEF PipeCrash, RequestCut, OnTheDisk
<1>3. ASSUME NEW q \in Qsos, L_Recv(q) PROVE Outside
  <2>1. /\ q \in unsent /\ unsent' = unsent \ {q}
        /\ UNCHANGED <<accepted, file, damaged, aside, crashes, ioErrors, logged, refused, evicted>>
    BY <1>3 DEF L_Recv, Abort, RequestCut, spoolVars, disk, past, marks, faults
  <2>2. q \notin Received /\ Received' = Received \cup {q}
    BY <1>0, <2>1 DEF Received
  <2> QED BY <1>b, <2>1, <2>2 DEF Outside
<1>4. CASE Boot
  <2>1. UNCHANGED <<unsent, accepted, logged, refused, evicted>>
    BY <1>4 DEF Boot, Spawn
  <2> QED BY <1>a, <2>1 DEF OnTheDisk
<1>5. CASE L_Append
  <2> DEFINE S == {e.adif : e \in ToSet(entries) \ ToSet(entries')}
  <2>1. evicted' = evicted \cup S /\ UNCHANGED <<unsent, accepted, logged, refused>>
    BY <1>5 DEF L_Append
  <2>2. UNCHANGED <<file, damaged, aside, crashes, ioErrors>>
    BY <1>0, <1>5, HandFacts, BeginAppendFacts DEF L_Append
  <2>3. S \subseteq Received
    <3>1. \A e \in ToSet(entries) : e \in Known /\ e.adif \in Qsos
      BY <1>0, Members DEF Known
    <3> QED BY <1>c, <3>1 DEF Received
  <2> HIDE DEF S
  <2>4. S \in SUBSET Qsos
    BY <2>3 DEF Received
  <2> QED BY <1>a, <1>b, <2>1, <2>2, <2>3, <2>4 DEF Outside
<1>6. CASE W_Remove
  <2>1. UNCHANGED <<file, damaged, aside, crashes, ioErrors>>
    BY <1>0, <1>6, BeginRemoveFacts DEF W_Remove
  <2> QED BY <1>a, <1>f, <1>6, <2>1 DEF W_Remove
<1>7. CASE SpoolWrite \/ SpoolError \/ SpoolLoss
  <2>1. unsent' = unsent /\ UNCHANGED <<logged, refused, evicted>> /\ accepted \subseteq accepted'
    BY <1>7, CallCases DEF Goes, Opens, OpenFails, Appends, AppendFails, Removes, Spawn
  <2> QED BY <1>a, <2>1 DEF OnTheDisk
<1>8. CASE TaskStep
  <2>0. /\ Received' = Received /\ evicted' = evicted
        /\ UNCHANGED <<accepted, file, damaged, aside, crashes, ioErrors>>
    BY <1>a, <1>g, <1>8, TaskMoves DEF Moves, vars
  <2>1. CASE W_Answer
    <3>0. cur.adif \in Received /\ cur.adif \in Qsos
      BY <1>d, <2>1 DEF W_Answer, Received
    <3>1. CASE cur.adif \notin refused /\ logged' = logged \cup {cur.adif} /\ refused' = refused
      BY <1>b, <2>0, <3>0, <3>1 DEF Outside
    <3>2. CASE cur.adif \notin logged /\ refused' = refused \cup {cur.adif} /\ logged' = logged
      BY <1>b, <2>0, <3>0, <3>2 DEF Outside
    <3>3. CASE UNCHANGED <<logged, refused>>
      BY <1>f, <2>0, <3>3
    <3> QED BY <2>1, <3>1, <3>2, <3>3 DEF W_Answer
  <2>2. CASE W_Fail
    BY <1>e, <2>0, <2>2 DEF W_Fail
  <2>3. CASE W_Stop
    BY <1>e, <1>f, <2>0, <2>3 DEF W_Stop
  <2>4. CASE StrayArrives
    <3>1. PICK q \in stray : logged' = IF q \in refused THEN logged ELSE logged \cup {q}
      BY <2>4 DEF StrayArrives
    <3>2. q \in Qsos /\ q \in Received
      BY <1>0 DEF PipeTypes, Identity, Received
    <3>3. refused' = refused
      BY <2>4 DEF StrayArrives
    <3>4. CASE q \in refused
      BY <1>f, <2>0, <3>1, <3>3, <3>4
    <3>5. CASE q \notin refused
      BY <1>b, <2>0, <3>1, <3>2, <3>3, <3>5 DEF Outside
    <3> QED BY <3>4, <3>5
  <2>5. CASE \/ L_Replay \/ L_ReplayClosed \/ L_Send \/ L_Stop \/ Signal
             \/ W_Recv \/ W_Closed \/ W_Resolved \/ W_Unresolved \/ W_NoEntry
    <3>1. UNCHANGED <<logged, refused>>
      BY <2>5 DEF L_Replay, L_ReplayClosed, L_Send, L_Stop, Signal,
                  W_Recv, W_Closed, W_Resolved, W_Unresolved, W_NoEntry
    <3> QED BY <1>f, <2>0, <3>1
  <2> QED BY <1>8, <2>1, <2>2, <2>3, <2>4, <2>5 DEF TaskStep
<1>9. CASE UNCHANGED pipeVars
  BY <1>a, <1>f, <1>g, <1>9 DEF pipeVars, vars
<1> QED BY <1>1, <1>2, <1>3, <1>4, <1>5, <1>6, <1>7, <1>8, <1>9, StepCases

\* What the invariant says of the disk: a record accepted is held, spoilt or
\* settled, and records are spoilt only after a fault.
DiskSound ==
    /\ accepted \subseteq Received /\ Spoilt \subseteq Received
    /\ accepted \subseteq DiskHolds \cup Spoilt \cup logged \cup refused \cup evicted
    /\ Spoilt # {} => Faulty

LEMMA DiskFacts == ASSUME PInv PROVE DiskSound
<1>0. /\ IInv /\ Identity /\ AccountedFor /\ FaultFree /\ accepted \subseteq Qsos
      /\ crashes \in Nat /\ ioErrors \in Nat
  BY BoundsAssumption DEF PInv, Account, IInv, TypeOK, PipeTypes
<1>1. accepted \subseteq Received
  BY <1>0 DEF Identity, Received
<1>2. Spoilt \subseteq Received
  <2> SUFFICES ASSUME NEW e \in damaged \cup aside PROVE e.adif \in Received
    BY DEF Spoilt
  <2>1. e \in Entry /\ e \in Known
    BY <1>0, DiskParts DEF IInv, TypeOK, Known
  <2>2. e.adif \in Qsos
    BY <2>1 DEF Entry
  <2> QED BY <1>0, <2>1, <2>2 DEF Identity, Received
<1>3. accepted \subseteq DiskHolds \cup Spoilt \cup logged \cup refused \cup evicted
  <2> SUFFICES ASSUME NEW q \in accepted, q \notin Spoilt, q \notin logged \cup refused \cup evicted
               PROVE  q \in DiskHolds
    OBVIOUS
  <2>1. PICK e \in promised : q = e.adif
    BY <1>0 DEF AccountedFor
  <2>2. e \notin damaged \cup aside
    BY <2>1 DEF Spoilt
  <2>3. Alone(e, file)
    BY <1>0, <2>2 DEF IInv, Durable
  <2> QED BY <2>1, <2>3, SavedFacts DEF DiskHolds
<1>4. Spoilt # {} => Faulty
  <2>1. Spoilt # {} => ~(crashes = 0 /\ ioErrors = 0)
    BY <1>0 DEF FaultFree, Spoilt
  <2>2. ~(crashes = 0 /\ ioErrors = 0) => crashes + ioErrors > 0
    BY <1>0
  <2> QED BY <2>1, <2>2 DEF Faulty
<1> QED BY <1>1, <1>2, <1>3, <1>4 DEF DiskSound

\* The tasks, their queue, the spool and every crash of them deliver at least once:
\* the disk gives up a record accepted only once Wavelog has answered for it or it
\* was evicted at the cap, but for those spoilt, of which there are none before the
\* first crash or failed call.
THEOREM DeliversAlways == PipeSpec => Delivers
<1>1. PipeInit => Delivery!Init
  <2> SUFFICES ASSUME PipeInit PROVE Delivery!Init
    OBVIOUS
  <2>1. /\ unsent = Qsos /\ accepted = {} /\ logged = {} /\ refused = {} /\ evicted = {}
        /\ damaged = {} /\ aside = {} /\ crashes = 0 /\ ioErrors = 0
    BY DEF PipeInit, Init
  <2>2. (crashes + ioErrors > 0) = FALSE
    BY <2>1
  <2> QED BY <2>1, <2>2 DEF Delivery!Init, Spoilt
<1>d. PInv => DiskSound
  BY DiskFacts
<1>a. PInv' => DiskSound'
  BY <1>d, PTL
<1>2. ASSUME PInv, PInv', [PipeNext]_pipeVars
      PROVE  [Delivery!Next]_(Delivery!deliveryVars)
  <2>0. Faulty' \in {Faulty, TRUE}
    <3>1. crashes \in Nat /\ ioErrors \in Nat /\ crashes' \in Nat /\ ioErrors' \in Nat
      BY <1>2, BoundsAssumption DEF PInv, IInv, TypeOK
    <3>2. (crashes' = 0 => crashes = 0) /\ (ioErrors' = 0 => ioErrors = 0)
      BY <1>2, FaultsGrow
    <3>3. crashes + ioErrors > 0 => crashes' + ioErrors' > 0
      <4>1. \A a, b, c, d \in Nat : (c = 0 => a = 0) /\ (d = 0 => b = 0) =>
                                     (a + b > 0 => c + d > 0)
        OBVIOUS
      <4> HIDE <3>1, <3>2
      <4> QED BY <3>1, <3>2, <4>1
    <3>4. CASE Faulty'
      BY <3>4 DEF Faulty
    <3>5. CASE ~Faulty'
      <4>1. ~Faulty
        BY <3>3, <3>5 DEF Faulty
      <4>2. Faulty' = FALSE /\ Faulty = FALSE
        BY <3>5, <4>1 DEF Faulty
      <4> QED BY <4>2
    <3> QED BY <3>4, <3>5
  <2>1. CASE Outside
    BY <2>1 DEF Outside, Received, DiskHolds, Faulty, Delivery!Next, Delivery!deliveryVars,
           Delivery!diskVars, Delivery!settledVars, Delivery!Receive, Delivery!Log,
           Delivery!Refuse, Delivery!Evict
  <2>2. CASE OnTheDisk
    <3>1. /\ accepted' \subseteq Received' /\ Spoilt' \subseteq Received'
          /\ accepted' \subseteq DiskHolds' \cup Spoilt' \cup logged' \cup refused' \cup evicted'
          /\ Spoilt' # {} => Faulty'
      BY <1>2, <1>a DEF DiskSound
    <3>2. /\ accepted' \in SUBSET Received /\ Spoilt' \in SUBSET Received
          /\ DiskHolds' \in SUBSET accepted'
      BY <2>2, <3>1 DEF OnTheDisk, DiskHolds
    <3>3. Delivery!Store
      BY <2>0, <2>2, <3>1, <3>2
         DEF OnTheDisk, Received, DiskHolds, Faulty, Delivery!Store, Delivery!settledVars,
             Delivery!Settled
    <3> QED BY <3>3 DEF Delivery!Next
  <2> QED BY <1>2, <2>1, <2>2, OutwardSteps
<1> QED BY <1>1, <1>2, PipeAlways, PTL DEF PipeSpec, Delivers, Delivery!Spec

=============================================================================
