--------------------------- MODULE QsoSpoolProofs ---------------------------
(***************************************************************************)
(* Proofs about QsoSpool, for every set of QSOs, cap and number of crashes *)
(* and failed system calls.                                                *)
(***************************************************************************)
EXTENDS QsoSpool, TLAPS

Loading == opened \/ op.call = "open"

\* The calls and steps that go together, and what a caller finds in memory.
OpShape ==
    /\ \/ op = Idle
       \/ op \in [call : {"open", "remove"}, at : {"rename", "syncdir"}]
       \/ op \in [call : {"append"}, at : Steps \ {"none"}]
    /\ op.call \in {"append", "remove"} => opened
    /\ op.call = "open" => ~opened
    /\ op.call = "append" => entries # <<>>

Ascending(es) == \A i, j \in DOMAIN es : i < j => es[i].seq < es[j].seq

\* The readable lines of f are in ascending order of seq.
AscendingFile(f) ==
    \A i, j \in DOMAIN Body(f) :
        i < j /\ Good(Body(f)[i]) /\ Good(Body(f)[j]) =>
            Body(f)[i][1].entry.seq < Body(f)[j][1].entry.seq

\* Every entry on a readable line of f has a smaller seq than s.
BelowSeq(f, s) ==
    \A i \in DOMAIN Body(f) : Good(Body(f)[i]) => Body(f)[i][1].entry.seq < s

-----------------------------------------------------------------------------
(* Facts about files and sequences of entries.                             *)

\* Body is a sequence of nonempty lines.
LEMMA BodyType ==
    ASSUME NEW f \in File
    PROVE  Body(f) \in Seq(Line)
<1>1. CASE f.tail = <<>>
  BY <1>1 DEF Body, File
<1>2. CASE f.tail # <<>>
  BY <1>2 DEF Body, File, Line
<1> QED BY <1>1, <1>2

\* A file with another tail.
LEMMA TailUpdate ==
    ASSUME NEW A, NEW B, NEW f \in [lines : A, tail : B], NEW t
    PROVE  [f EXCEPT !.tail = t] = [lines |-> f.lines, tail |-> t]
OBVIOUS

\* A write adds a line, or lengthens the unterminated one.
LEMMA WriteTailBody ==
    ASSUME NEW f \in File, NEW c \in Chunk
    PROVE  /\ WriteTail(f, c) \in File
           /\ f.tail = <<>> => /\ Body(f) = f.lines
                               /\ Body(WriteTail(f, c)) = Append(f.lines, <<c>>)
           /\ f.tail # <<>> => /\ Body(f) = Append(f.lines, f.tail)
                               /\ Body(WriteTail(f, c)) = Append(f.lines, Append(f.tail, c))
<1> DEFINE g == WriteTail(f, c)
<1>1. g = [lines |-> f.lines, tail |-> Append(f.tail, c)]
  <2>1. f \in [lines : Seq(Line), tail : Seq(Chunk)]
    BY DEF File
  <2> QED BY <2>1, TailUpdate DEF WriteTail
<1>2. Append(f.tail, c) \in Seq(Chunk) /\ Append(f.tail, c) # <<>>
  <2>1. f.tail \in Seq(Chunk)
    BY DEF File
  <2> QED BY <2>1
<1>3. g \in File
  BY <1>1, <1>2 DEF File
<1>4. Body(g) = Append(f.lines, Append(f.tail, c))
  BY <1>1, <1>2 DEF Body
<1>5. f.tail = <<>> => Append(f.tail, c) = <<c>>
  OBVIOUS
<1> QED BY <1>3, <1>4, <1>5 DEF Body

\* Ending a line changes no line.
LEMMA EndLineBody ==
    ASSUME NEW f \in File, f.tail # <<>>
    PROVE  /\ EndLine(f) \in File
           /\ Body(EndLine(f)) = Body(f)
<1>1. f.tail \in Line
  BY DEF File, Line
<1> QED BY <1>1 DEF EndLine, Body, File

\* A rewritten file holds the entries, one to a line.
LEMMA FileOfBody ==
    ASSUME NEW es \in Seq(Entry)
    PROVE  /\ FileOf(es) \in File
           /\ Body(FileOf(es)) = [i \in 1..Len(es) |-> <<Written("whole", es[i])>>]
<1>1. \A i \in 1..Len(es) : <<Written("whole", es[i])>> \in Line
  BY DEF Written, Line, Chunk
<1>2. [i \in 1..Len(es) |-> <<Written("whole", es[i])>>] \in Seq(Line)
  BY <1>1
<1> QED BY <1>2 DEF FileOf, File, Body

\* What stands alone on a line stays so under a write, except on a line the
\* write joins.
LEMMA AloneAfterWrite ==
    ASSUME NEW f \in File, NEW c \in Chunk, NEW e, Alone(e, f),
           f.tail # <<>> => e \notin {d.entry : d \in ToSet(f.tail)}
    PROVE  Alone(e, WriteTail(f, c))
<1> DEFINE g == WriteTail(f, c)
<1>0. f.lines \in Seq(Line) /\ f.tail \in Seq(Chunk)
  BY DEF File
<1>1. PICK i \in DOMAIN Body(f) : Body(f)[i] = <<Written("whole", e)>>
  BY DEF Alone
<1>2. CASE f.tail = <<>>
  <2>0. Body(f) = f.lines /\ Body(g) = Append(f.lines, <<c>>)
    BY <1>2, WriteTailBody
  <2>1. i \in DOMAIN Body(g) /\ Body(g)[i] = Body(f)[i]
    BY <1>0, <2>0
  <2> QED BY <1>1, <2>1 DEF Alone
<1>3. CASE f.tail # <<>>
  <2>0. Body(f) = Append(f.lines, f.tail) /\ Body(g) = Append(f.lines, Append(f.tail, c))
    BY <1>3, WriteTailBody
  <2>1. i # Len(f.lines) + 1
    <3> SUFFICES ASSUME i = Len(f.lines) + 1 PROVE FALSE
      OBVIOUS
    <3>1. f.tail = <<Written("whole", e)>>
      BY <1>0, <1>1, <2>0
    <3>2. Written("whole", e) \in ToSet(f.tail) /\ Written("whole", e).entry = e
      BY <3>1 DEF ToSet, Written
    <3> QED BY <1>3, <3>2
  <2>2. i \in DOMAIN Body(g) /\ Body(g)[i] = Body(f)[i]
    BY <1>0, <2>0, <2>1
  <2> QED BY <1>1, <2>2 DEF Alone
<1> QED BY <1>2, <1>3

\* A write keeps the readable lines ascending when the entry it completes is
\* above all of them.
LEMMA AscendingAfterWrite ==
    ASSUME NEW f \in File, NEW c \in Chunk, AscendingFile(f),
           c.kind = "whole" => BelowSeq(f, c.entry.seq)
    PROVE  /\ AscendingFile(WriteTail(f, c))
           /\ \A s \in Nat : BelowSeq(f, s) /\ (c.kind = "whole" => c.entry.seq < s)
                           => BelowSeq(WriteTail(f, c), s)
<1> DEFINE g == WriteTail(f, c)
           n == Len(f.lines) + 1
<1> f.lines \in Seq(Line) /\ f.tail \in Seq(Chunk)
  BY DEF File
<1>0. /\ DOMAIN Body(g) = 1..n
      /\ \A i \in 1..n : i < n => i \in DOMAIN Body(f) /\ Body(g)[i] = Body(f)[i]
      /\ Good(Body(g)[n]) => c.kind = "whole" /\ Body(g)[n][1].entry = c.entry
  <2>1. CASE f.tail = <<>>
    <3>1. Body(f) = f.lines /\ Body(g) = Append(f.lines, <<c>>)
      BY <2>1, WriteTailBody
    <3>2. Body(g)[n] = <<c>>
      BY <3>1
    <3>3. DOMAIN Body(g) = 1..n
      BY <3>1
    <3>4. \A i \in 1..n : i < n => i \in DOMAIN Body(f) /\ Body(g)[i] = Body(f)[i]
      BY <3>1
    <3> QED BY <3>2, <3>3, <3>4 DEF Good
  <2>2. CASE f.tail # <<>>
    <3>1. Body(f) = Append(f.lines, f.tail) /\ Body(g) = Append(f.lines, Append(f.tail, c))
      BY <2>2, WriteTailBody
    <3>2. Len(Append(f.tail, c)) # 1 /\ Body(g)[n] = Append(f.tail, c)
      BY <2>2, <3>1
    <3>3. DOMAIN Body(g) = 1..n
      BY <3>1
    <3>4. \A i \in 1..n : i < n => i \in DOMAIN Body(f) /\ Body(g)[i] = Body(f)[i]
      BY <3>1
    <3> QED BY <3>2, <3>3, <3>4 DEF Good
  <2> QED BY <2>1, <2>2
<1>1. \A i \in DOMAIN Body(g) : i < n => i \in DOMAIN Body(f) /\ Body(g)[i] = Body(f)[i]
  BY <1>0
<1>2. Good(Body(g)[n]) => c.kind = "whole" /\ Body(g)[n][1].entry = c.entry
  BY <1>0
<1>3. AscendingFile(g)
  <2> SUFFICES ASSUME NEW i \in DOMAIN Body(g), NEW j \in DOMAIN Body(g),
                      i < j, Good(Body(g)[i]), Good(Body(g)[j])
               PROVE  Body(g)[i][1].entry.seq < Body(g)[j][1].entry.seq
    BY DEF AscendingFile
  <2>1. i < n /\ (j < n \/ j = n)
    BY <1>0
  <2>2. CASE j < n
    BY <1>1, <2>1, <2>2 DEF AscendingFile
  <2>3. CASE j = n
    BY <1>1, <1>2, <2>1, <2>3 DEF BelowSeq
  <2> QED BY <2>1, <2>2, <2>3
<1>4. ASSUME NEW s \in Nat, BelowSeq(f, s), c.kind = "whole" => c.entry.seq < s
      PROVE  BelowSeq(g, s)
  <2> SUFFICES ASSUME NEW i \in DOMAIN Body(g), Good(Body(g)[i])
               PROVE  Body(g)[i][1].entry.seq < s
    BY DEF BelowSeq
  <2>1. i < n \/ i = n
    BY <1>0
  <2> QED BY <1>1, <1>2, <1>4, <2>1 DEF BelowSeq
<1> QED BY <1>3, <1>4

\* What open reads from a file it does not set aside: the entries of its
\* readable lines, in ascending order.
LEMMA ParsedFacts ==
    ASSUME NEW f \in File, AscendingFile(f), Clean(f) \/ Truncated(f)
    PROVE  /\ Parsed(f) \in Seq(Entry)
           /\ Ascending(Parsed(f))
           /\ \A e : Alone(e, f) => e \in ToSet(Parsed(f))
           /\ \A s \in Nat : (\A i \in DOMAIN Parsed(f) : Parsed(f)[i].seq < s)
                           => BelowSeq(f, s)
<1> DEFINE b == Body(f)
           n == Len(b) - (IF Truncated(f) THEN 1 ELSE 0)
<1>0. b \in Seq(Line)
  BY BodyType
<1>1. n \in Nat /\ \A i \in DOMAIN b : Good(b[i]) <=> i \in 1..n
  <2>1. CASE Truncated(f)
    <3>1. Len(b) \in BadLines(f) /\ n = Len(b) - 1
      BY <2>1 DEF Truncated
    <3>2. Len(b) \in DOMAIN b
      BY <3>1 DEF BadLines
    <3>3. n \in Nat
      BY <1>0, <3>1, <3>2
    <3>4. \A i \in DOMAIN b : Good(b[i]) <=> i # Len(b)
      BY <2>1 DEF Truncated, BadLines
    <3> HIDE DEF n, b
    <3> QED BY <1>0, <3>1, <3>2, <3>3, <3>4
  <2>2. CASE ~Truncated(f)
    <3>1. n = Len(b) /\ \A i \in DOMAIN b : Good(b[i])
      BY <1>0, <2>2 DEF Clean, BadLines
    <3> HIDE DEF n, b
    <3> QED BY <1>0, <3>1
  <2> QED BY <2>1, <2>2
<1>2. Parsed(f) = [i \in 1..n |-> b[i][1].entry]
  BY DEF Parsed
<1>3. 1..n \subseteq DOMAIN b
  <2>1. n <= Len(b) /\ Len(b) \in Nat
    BY <1>0
  <2> HIDE DEF n, b
  <2> QED BY <1>0, <1>1, <2>1
<1> HIDE DEF n, b
<1>4. \A i \in 1..n : b[i][1].entry \in Entry
  <2> SUFFICES ASSUME NEW i \in 1..n PROVE b[i][1].entry \in Entry
    OBVIOUS
  <2>0. i \in DOMAIN b /\ b[i] \in Line /\ Good(b[i])
    BY <1>0, <1>1, <1>3
  <2>1. b[i] \in Seq(Chunk) /\ Len(b[i]) = 1
    BY <2>0 DEF Good, Line
  <2>2. b[i][1] \in Chunk
    BY <2>1
  <2> QED BY <2>2 DEF Chunk
<1>5. Parsed(f) \in Seq(Entry) /\ DOMAIN Parsed(f) = 1..n
  BY <1>1, <1>2, <1>4
<1>6. Ascending(Parsed(f))
  BY <1>1, <1>2, <1>3, <1>5 DEF Ascending, AscendingFile, b
<1>7. ASSUME NEW e, Alone(e, f) PROVE e \in ToSet(Parsed(f))
  <2>1. PICK i \in DOMAIN b : b[i] = <<Written("whole", e)>>
    BY <1>7 DEF Alone, b
  <2>2. Good(b[i]) /\ b[i][1].entry = e
    BY <2>1 DEF Good, Written
  <2>3. i \in DOMAIN Parsed(f) /\ Parsed(f)[i] = e
    BY <1>1, <1>2, <1>5, <2>2
  <2> QED BY <2>3 DEF ToSet
<1>8. ASSUME NEW s \in Nat, \A i \in DOMAIN Parsed(f) : Parsed(f)[i].seq < s
      PROVE  BelowSeq(f, s)
  BY <1>1, <1>2, <1>5, <1>8 DEF BelowSeq, b
<1> QED BY <1>5, <1>6, <1>7, <1>8

\* The seq of an entry is a positive number.
LEMMA SeqOfEntry ==
    ASSUME NEW es \in Seq(Entry), NEW i \in DOMAIN es
    PROVE  es[i] \in Entry /\ es[i].seq \in Nat \ {0}
<1>1. es[i] \in Entry
  OBVIOUS
<1> QED BY <1>1 DEF Entry

\* The next seq is above those of the entries.
LEMMA NextAfterFacts ==
    ASSUME NEW es \in Seq(Entry), Ascending(es)
    PROVE  /\ NextAfter(es) \in Nat \ {0}
           /\ \A i \in DOMAIN es : es[i].seq < NextAfter(es)
<1>1. CASE es = <<>>
  BY <1>1 DEF NextAfter
<1>2. CASE es # <<>>
  <2> DEFINE S == {es[i].seq : i \in DOMAIN es}
             Top(s) == \A i \in DOMAIN es : es[i].seq <= s
  <2>1. \A i \in DOMAIN es : es[i].seq \in Nat
    BY SeqOfEntry
  <2>2. Len(es) \in DOMAIN es /\ \A i \in DOMAIN es : i <= Len(es)
    BY <1>2
  <2>3. es[Len(es)].seq \in S /\ Top(es[Len(es)].seq)
    BY <2>1, <2>2 DEF Ascending
  <2>4. NextAfter(es) = (CHOOSE s \in S : Top(s)) + 1
    BY <1>2 DEF NextAfter
  <2> DEFINE m == CHOOSE s \in S : Top(s)
  <2>5. m \in S /\ Top(m)
    BY <2>3
  <2> HIDE DEF m
  <2>6. m \in Nat
    BY <2>1, <2>5
  <2>7. NextAfter(es) = m + 1
    BY <2>4 DEF m
  <2>8. \A i \in DOMAIN es : es[i].seq <= m
    BY <2>5
  <2> HIDE DEF S, Top
  <2> QED BY <2>1, <2>6, <2>7, <2>8
<1> QED BY <1>1, <1>2

\* Removing an entry or dropping the first ones keeps the rest in order.
LEMMA RemoveAtFacts ==
    ASSUME NEW es \in Seq(Entry), Ascending(es), NEW k \in DOMAIN es
    PROVE  /\ RemoveAt(es, k) \in Seq(Entry)
           /\ Ascending(RemoveAt(es, k))
           /\ ToSet(RemoveAt(es, k)) = ToSet(es) \ {es[k]}
<1> DEFINE rs == RemoveAt(es, k)
           before == SubSeq(es, 1, k - 1)
           after == SubSeq(es, k + 1, Len(es))
<1>1. k \in 1..Len(es) /\ Len(es) \in Nat
  OBVIOUS
<1>2. /\ before \in Seq(Entry) /\ Len(before) = k - 1
      /\ \A i \in 1..(k - 1) : before[i] = es[i]
  BY <1>1
<1>a. /\ after \in Seq(Entry) /\ Len(after) = Len(es) - k
      /\ \A i \in 1..(Len(es) - k) : after[i] = es[i + k]
  BY <1>1
<1>b. rs = before \o after
  BY DEF RemoveAt
<1> HIDE DEF before, after, rs
<1>3. rs \in Seq(Entry) /\ Len(rs) = Len(es) - 1
  BY <1>1, <1>2, <1>a, <1>b
<1>4. /\ DOMAIN rs = 1..(Len(es) - 1)
      /\ \A i \in DOMAIN rs : rs[i] = es[IF i < k THEN i ELSE i + 1]
  <2>1. DOMAIN rs = 1..(Len(es) - 1)
    BY <1>3
  <2>2. ASSUME NEW i \in DOMAIN rs
        PROVE  rs[i] = IF i <= k - 1 THEN before[i] ELSE after[i - (k - 1)]
    BY <1>1, <1>2, <1>a, <1>b
  <2>3. ASSUME NEW i \in DOMAIN rs PROVE rs[i] = es[IF i < k THEN i ELSE i + 1]
    <3>1. CASE i < k
      BY <1>1, <1>2, <2>1, <2>2, <3>1
    <3>2. CASE i >= k
      <4>1. i - (k - 1) \in 1..(Len(es) - k) /\ (i - (k - 1)) + k = i + 1
        BY <1>1, <2>1, <3>2
      <4>2. after[i - (k - 1)] = es[(i - (k - 1)) + k]
        BY <1>a, <4>1
      <4>3. ~(i <= k - 1) /\ ~(i < k)
        BY <1>1, <2>1, <3>2
      <4> QED BY <2>2, <4>1, <4>2, <4>3
    <3> QED BY <1>1, <2>1, <3>1, <3>2
  <2> QED BY <2>1, <2>3
<1>5. \A i \in DOMAIN rs : (IF i < k THEN i ELSE i + 1) \in DOMAIN es
  BY <1>1, <1>4
<1>6. Ascending(rs)
  BY <1>1, <1>4, <1>5 DEF Ascending
<1>7. ToSet(rs) \subseteq ToSet(es)
  BY <1>4, <1>5 DEF ToSet
<1>8. ASSUME NEW i \in DOMAIN rs PROVE rs[i] # es[k]
  <2>1. CASE i < k
    <3>1. es[i].seq < es[k].seq /\ rs[i] = es[i]
      BY <1>1, <1>4, <1>5, <2>1 DEF Ascending
    <3> QED BY <1>1, <1>5, <2>1, <3>1, SeqOfEntry
  <2>2. CASE ~(i < k)
    <3>1. k < i + 1
      BY <1>1, <1>4, <2>2
    <3>2. es[k].seq < es[i + 1].seq /\ rs[i] = es[i + 1]
      BY <1>4, <1>5, <2>2, <3>1 DEF Ascending
    <3> QED BY <1>5, <2>2, <3>2, SeqOfEntry
  <2> QED BY <2>1, <2>2
<1>9. ASSUME NEW i \in DOMAIN es, i # k PROVE es[i] \in ToSet(rs)
  <2> DEFINE j == IF i < k THEN i ELSE i - 1
  <2>1. j \in DOMAIN rs /\ rs[j] = es[i]
    BY <1>1, <1>4, <1>9
  <2> QED BY <2>1 DEF ToSet
<1>10. ToSet(rs) = ToSet(es) \ {es[k]}
  BY <1>7, <1>8, <1>9 DEF ToSet
<1> QED BY <1>3, <1>6, <1>10 DEF rs

\* Dropping the first entries keeps the rest, in order.
LEMMA SuffixFacts ==
    ASSUME NEW es \in Seq(Entry), Ascending(es), NEW k \in 1..Len(es)
    PROVE  /\ SubSeq(es, k, Len(es)) \in Seq(Entry)
           /\ Ascending(SubSeq(es, k, Len(es)))
           /\ SubSeq(es, k, Len(es)) # <<>>
           /\ Last(SubSeq(es, k, Len(es))) = Last(es)
           /\ \A i \in DOMAIN SubSeq(es, k, Len(es)) :
                 \E j \in DOMAIN es : SubSeq(es, k, Len(es))[i] = es[j]
<1> DEFINE rs == SubSeq(es, k, Len(es))
<1>1. rs \in Seq(Entry) /\ Len(rs) = Len(es) - k + 1
  OBVIOUS
<1>2. \A i \in 1..Len(rs) : i + k - 1 \in 1..Len(es) /\ rs[i] = es[i + k - 1]
  OBVIOUS
<1> HIDE DEF rs
<1>3. Ascending(rs)
  <2> SUFFICES ASSUME NEW i \in DOMAIN rs, NEW j \in DOMAIN rs, i < j
               PROVE  rs[i].seq < rs[j].seq
    BY DEF Ascending
  <2>a. i \in 1..Len(rs) /\ j \in 1..Len(rs)
    BY <1>1
  <2>1. /\ i + k - 1 < j + k - 1
        /\ i + k - 1 \in DOMAIN es /\ j + k - 1 \in DOMAIN es
    BY <1>1, <1>2, <2>a
  <2>2. es[i + k - 1].seq < es[j + k - 1].seq
    BY <2>1 DEF Ascending
  <2> QED BY <1>2, <2>a, <2>2
<1>4. rs # <<>> /\ Last(rs) = Last(es)
  BY <1>1, <1>2 DEF Last
<1> QED BY <1>1, <1>2, <1>3, <1>4 DEF rs


-----------------------------------------------------------------------------
(* The inductive invariant.                                                *)

\* The file is one of the images, and all that may be found is in order.
ImagesInv ==
    /\ file \in images
    /\ \A f \in Found : AscendingFile(f)

\* Memory is in order and nextSeq is above it and above the file.
SeqInv ==
    Loading =>
        /\ Ascending(entries)
        /\ \A i \in DOMAIN entries : entries[i].seq < nextSeq
        /\ BelowSeq(file, nextSeq)
        /\ At("line") => BelowSeq(file, Last(entries).seq)

\* What is promised is in memory, so that a rewrite keeps it.
PromisesHeld ==
    Loading => promised \ (damaged \cup aside) \subseteq ToSet(entries)

\* The line being appended ends the file, alone unless it was damaged.
LastWritten ==
    LET line == <<Written("whole", Last(entries))>>
    IN  /\ At("newline") => /\ file.tail # <<>>
                            /\ Last(entries) \in damaged \/ file.tail = line
        /\ At("sync") => Last(entries) \in damaged \/ Alone(Last(entries), file)

\* A rewrite that has renamed has put memory on disk, all but what a failed
\* write left out, and nothing else.
Rewritten ==
    At("syncdir") => /\ images = {file}
                     /\ \A e \in ToSet(entries) \ damaged : Alone(e, file)
                     /\ \A e : Alone(e, file) => e \in ToSet(entries)

IInv == /\ TypeOK /\ OpShape /\ ImagesInv /\ SeqInv
        /\ PromisesHeld /\ LastWritten /\ Rewritten /\ Durable


\* An empty file has no line.
LEMMA NoFileFacts ==
    /\ NoFile \in File
    /\ Body(NoFile) = <<>>
    /\ AscendingFile(NoFile)
    /\ \A s : BelowSeq(NoFile, s)
<1>1. NoFile \in File /\ Body(NoFile) = <<>>
  BY DEF NoFile, File, Body
<1> QED BY <1>1 DEF AscendingFile, BelowSeq

\* The invariant holds at the start.
LEMMA InitIInv == Init => IInv
<1> SUFFICES ASSUME Init PROVE IInv
  OBVIOUS
<1>1. TypeOK
  <2>1. Idle \in [call : Calls, at : Steps]
    BY DEF Idle, Calls, Steps
  <2>2. <<>> \in Seq(Entry) /\ 1 \in Nat \ {0}
    OBVIOUS
  <2>3. 0 \in 0..MaxCrashes /\ 0 \in 0..MaxIoErrors
    BY BoundsAssumption
  <2> QED BY <2>1, <2>2, <2>3, NoFileFacts DEF Init, TypeOK
<1>2. OpShape
  BY DEF Init, OpShape, Idle
<1>3. ImagesInv
  BY NoFileFacts DEF Init, ImagesInv, Found
<1>4. SeqInv /\ PromisesHeld /\ LastWritten /\ Rewritten
  BY DEF Init, SeqInv, PromisesHeld, LastWritten, Rewritten, Loading, Idle, At
<1>5. Durable
  BY DEF Init, Durable
<1> QED BY <1>1, <1>2, <1>3, <1>4, <1>5 DEF IInv

\* Reading the file: what open gets is in order, below the next seq, and holds
\* every promise.
LEMMA ReadingFacts ==
    ASSUME IInv, Clean(file) \/ Truncated(file),
           entries' = Parsed(file), nextSeq' = NextAfter(entries')
    PROVE  /\ entries' \in Seq(Entry) /\ nextSeq' \in Nat \ {0}
           /\ Ascending(entries')
           /\ \A i \in DOMAIN entries' : entries'[i].seq < nextSeq'
           /\ BelowSeq(file, nextSeq')
           /\ promised \ (damaged \cup aside) \subseteq ToSet(entries')
<1>1. file \in File /\ AscendingFile(file) /\ file \in images
  BY DEF IInv, TypeOK, ImagesInv, Found
<1>2. entries' \in Seq(Entry) /\ Ascending(entries')
  BY <1>1, ParsedFacts
<1>3. nextSeq' \in Nat \ {0} /\ \A i \in DOMAIN entries' : entries'[i].seq < nextSeq'
  BY <1>2, NextAfterFacts
<1>4. BelowSeq(file, nextSeq')
  BY <1>1, <1>3, ParsedFacts
<1>5. \A e \in promised \ (damaged \cup aside) : Alone(e, file)
  BY DEF IInv, Durable
<1>6. promised \ (damaged \cup aside) \subseteq ToSet(entries')
  BY <1>1, <1>5, ParsedFacts
<1> QED BY <1>2, <1>3, <1>4, <1>6

\* open reads a file that parses.
LEMMA OpenCleanKeeps ==
    ASSUME IInv, OpenClean, unsent' \subseteq Qsos PROVE IInv'
<1> USE DEF OpenClean, OpenReading, disk, marks, faults
<1>0. /\ entries' \in Seq(Entry) /\ nextSeq' \in Nat \ {0}
      /\ Ascending(entries')
      /\ \A i \in DOMAIN entries' : entries'[i].seq < nextSeq'
      /\ BelowSeq(file, nextSeq')
      /\ promised \ (damaged \cup aside) \subseteq ToSet(entries')
  BY ReadingFacts
<1>1. TypeOK'
  BY <1>0 DEF IInv, TypeOK
<1>2. OpShape'
  BY DEF OpShape, Idle
<1>3. ImagesInv'
  BY DEF IInv, ImagesInv, Found
<1>4. SeqInv'
  BY <1>0 DEF SeqInv, Idle, At
<1>5. PromisesHeld'
  BY <1>0 DEF PromisesHeld
<1>6. LastWritten' /\ Rewritten'
  BY DEF LastWritten, Rewritten, Idle, At
<1>7. Durable'
  BY DEF IInv, Durable, Found
<1> QED BY <1>1, <1>2, <1>3, <1>4, <1>5, <1>6, <1>7 DEF IInv

\* open drops a malformed last line.
LEMMA OpenTruncatedKeeps ==
    ASSUME IInv, OpenTruncated, unsent' \subseteq Qsos PROVE IInv'
<1> USE DEF OpenTruncated, OpenReading, disk, marks, past, faults
<1>0. /\ entries' \in Seq(Entry) /\ nextSeq' \in Nat \ {0}
      /\ Ascending(entries')
      /\ \A i \in DOMAIN entries' : entries'[i].seq < nextSeq'
      /\ BelowSeq(file, nextSeq')
      /\ promised \ (damaged \cup aside) \subseteq ToSet(entries')
  BY ReadingFacts
<1>1. TypeOK'
  BY <1>0 DEF IInv, TypeOK, Calls, Steps
<1>2. OpShape'
  BY DEF OpShape, Idle
<1>3. ImagesInv'
  BY DEF IInv, ImagesInv, Found
<1>4. SeqInv'
  BY <1>0 DEF SeqInv, At
<1>5. PromisesHeld'
  BY <1>0 DEF PromisesHeld
<1>6. LastWritten' /\ Rewritten'
  BY DEF LastWritten, Rewritten, At
<1>7. Durable'
  BY DEF IInv, Durable, Found
<1> QED BY <1>1, <1>2, <1>3, <1>4, <1>5, <1>6, <1>7 DEF IInv

\* open renames the file aside: what it promised is aside too.
LEMMA OpenCorruptKeeps ==
    ASSUME IInv, OpenCorrupt, unsent' \subseteq Qsos PROVE IInv'
<1> USE DEF OpenCorrupt, OpenReading, Forget, marks, faults
<1>0. \A e : Alone(e, file) => e \in aside'
  <2> SUFFICES ASSUME NEW e, Alone(e, file) PROVE e \in {c.entry : c \in Chunks(file)}
    OBVIOUS
  <2>1. PICK i \in DOMAIN Body(file) : Body(file)[i] = <<Written("whole", e)>>
    BY DEF Alone
  <2>2. Written("whole", e) \in ToSet(Body(file)[i]) /\ Written("whole", e).entry = e
    BY <2>1 DEF ToSet, Written
  <2> QED BY <2>2 DEF Chunks
<1>1. {c.entry : c \in Chunks(file)} \subseteq Entry
  <2>1. file \in File
    BY DEF IInv, TypeOK
  <2>2. Body(file) \in Seq(Line)
    BY <2>1, BodyType
  <2>3. \A i \in DOMAIN Body(file) : Body(file)[i] \in Seq(Chunk)
    BY <2>2 DEF Line
  <2>4. Chunks(file) \subseteq Chunk
    BY <2>3 DEF Chunks, ToSet
  <2> QED BY <2>4 DEF Chunk
<1>2. TypeOK'
  <2>1. <<>> \in Seq(Entry) /\ 1 \in Nat \ {0}
    OBVIOUS
  <2>2. older' \subseteq File
    BY NoFileFacts DEF IInv, TypeOK, Found
  <2> QED BY <1>1, <2>1, <2>2, NoFileFacts DEF IInv, TypeOK
<1>3. OpShape'
  BY DEF OpShape, Idle
<1>4. ImagesInv'
  BY NoFileFacts DEF IInv, ImagesInv, Found
<1>5. SeqInv'
  BY NoFileFacts DEF SeqInv, Ascending, Idle, At
<1>6. promised \ (damaged \cup aside') = {}
  <2>1. \A e \in promised \ (damaged \cup aside) : Alone(e, file)
    BY DEF IInv, Durable
  <2> QED BY <1>0, <2>1
<1>7. PromisesHeld' /\ Durable'
  BY <1>6 DEF PromisesHeld, Durable
<1>8. LastWritten' /\ Rewritten'
  BY DEF LastWritten, Rewritten, Idle, At
<1> QED BY <1>2, <1>3, <1>4, <1>5, <1>7, <1>8 DEF IInv


\* The first entries of an append's memory are those it found, the last the one
\* it pushes.
LEMMA AppendFacts ==
    ASSUME NEW es \in Seq(Entry), Ascending(es), NEW e \in Entry,
           \A i \in ToSet(es) : i.seq < e.seq
    PROVE  /\ Append(es, e) \in Seq(Entry) /\ Append(es, e) # <<>>
           /\ Len(Append(es, e)) = Len(es) + 1
           /\ Last(Append(es, e)) = e
           /\ Ascending(Append(es, e))
           /\ ToSet(Append(es, e)) = ToSet(es) \cup {e}
<1> DEFINE new == Append(es, e)
<1>1. /\ new \in Seq(Entry) /\ Len(new) = Len(es) + 1 /\ Len(es) \in Nat
      /\ DOMAIN new = 1..(Len(es) + 1) /\ DOMAIN es = 1..Len(es)
      /\ new[Len(es) + 1] = e
      /\ \A i \in DOMAIN es : new[i] = es[i]
  OBVIOUS
<1>2. new # <<>>
  BY <1>1
<1>3. Last(new) = e
  BY <1>1 DEF Last
<1> HIDE DEF new
<1>4. \A i \in DOMAIN new : i \in DOMAIN es \/ i = Len(es) + 1
  BY <1>1
<1>5. Ascending(new)
  <2> SUFFICES ASSUME NEW i \in DOMAIN new, NEW j \in DOMAIN new, i < j
               PROVE  new[i].seq < new[j].seq
    BY DEF Ascending
  <2>1. i \in DOMAIN es
    BY <1>1
  <2>2. CASE j \in DOMAIN es
    BY <1>1, <2>1, <2>2 DEF Ascending
  <2>3. CASE j = Len(es) + 1
    BY <1>1, <2>1, <2>3 DEF ToSet
  <2> QED BY <1>4, <2>2, <2>3
<1>6. ToSet(new) = ToSet(es) \cup {e}
  BY <1>1, <1>4 DEF ToSet
<1> QED BY <1>1, <1>2, <1>3, <1>5, <1>6 DEF new

\* A record is pushed, and the oldest entries dropped when that is too many.
LEMMA BeginAppendFacts ==
    ASSUME IInv, NEW q \in Qsos, BeginAppend(q)
    PROVE  /\ [seq |-> nextSeq, adif |-> q] \in Entry
           /\ opened /\ op = Idle /\ opened' = opened
           /\ nextSeq' = nextSeq + 1
           /\ op' \in [call : {"append"}, at : {"line", "rename"}]
           /\ entries' \in Seq(Entry) /\ entries' # <<>> /\ Last(entries') = [seq |-> nextSeq, adif |-> q]
           /\ Ascending(entries') /\ \A i \in ToSet(entries') : i.seq < nextSeq'
           /\ ToSet(entries') \subseteq ToSet(entries) \cup {[seq |-> nextSeq, adif |-> q]}
           /\ promised' = promised \ (ToSet(entries) \ ToSet(entries'))
           /\ exposed' = exposed \cap promised'
           /\ UNCHANGED <<file, images, older, aside, damaged, stale, crashes, ioErrors>>
<1> DEFINE e == [seq |-> nextSeq, adif |-> q]
           pushed == Append(entries, e)
           k == Len(pushed) - MaxQueueLen + 1
<1>0. /\ opened /\ op = Idle /\ opened' = opened
      /\ nextSeq' = nextSeq + 1
      /\ \/ /\ entries' = SubSeq(pushed, k, Len(pushed))
            /\ op' = [call |-> "append", at |-> "rename"]
            /\ OverCap(pushed)
         \/ /\ entries' = pushed
            /\ op' = [call |-> "append", at |-> "line"]
      /\ promised' = promised \ (ToSet(entries) \ ToSet(entries'))
      /\ exposed' = exposed \cap promised'
      /\ UNCHANGED <<file, images, older, aside, damaged, stale, crashes, ioErrors>>
  BY DEF BeginAppend, disk, faults
<1> HIDE DEF e, pushed, k
<1>1. /\ entries \in Seq(Entry) /\ nextSeq \in Nat \ {0}
      /\ e \in Entry /\ e.seq = nextSeq
  BY DEF IInv, TypeOK, Entry, e
<1>2. Ascending(entries) /\ \A i \in ToSet(entries) : i \in Entry /\ i.seq < nextSeq
  <2>1. Ascending(entries) /\ \A i \in DOMAIN entries : entries[i].seq < nextSeq
    BY <1>0 DEF IInv, SeqInv, Loading
  <2> QED BY <1>1, <2>1 DEF ToSet
<1>3. /\ pushed \in Seq(Entry) /\ pushed # <<>> /\ Last(pushed) = e
      /\ Ascending(pushed) /\ ToSet(pushed) = ToSet(entries) \cup {e}
  BY <1>1, <1>2, AppendFacts DEF pushed
<1>4. \A i \in ToSet(pushed) : i.seq < nextSeq + 1
  BY <1>1, <1>2, <1>3 DEF Entry
<1>5. /\ entries' \in Seq(Entry) /\ entries' # <<>> /\ Last(entries') = e
      /\ Ascending(entries') /\ ToSet(entries') \subseteq ToSet(pushed)
  <2>1. CASE entries' = pushed
    BY <1>3, <2>1
  <2>2. CASE entries' = SubSeq(pushed, k, Len(pushed)) /\ OverCap(pushed)
    <3>1. k \in 1..Len(pushed)
      BY <1>3, <2>2, BoundsAssumption DEF OverCap, k
    <3>2. \A i \in DOMAIN entries' : \E j \in DOMAIN pushed : entries'[i] = pushed[j]
      BY <1>3, <2>2, <3>1, SuffixFacts
    <3>3. ToSet(entries') \subseteq ToSet(pushed)
      BY <3>2 DEF ToSet
    <3> QED BY <1>3, <2>2, <3>1, <3>3, SuffixFacts
  <2> QED BY <1>0, <2>1, <2>2
<1> QED BY <1>0, <1>1, <1>3, <1>4, <1>5 DEF e

LEMMA BeginAppendKeeps ==
    ASSUME IInv, NEW q \in Qsos, BeginAppend(q), unsent' \subseteq Qsos PROVE IInv'
<1> DEFINE e == [seq |-> nextSeq, adif |-> q]
<1>0. /\ opened /\ op = Idle /\ opened' = opened
      /\ nextSeq' = nextSeq + 1
      /\ op' \in [call : {"append"}, at : {"line", "rename"}]
      /\ promised' = promised \ (ToSet(entries) \ ToSet(entries'))
      /\ exposed' = exposed \cap promised'
      /\ UNCHANGED <<file, images, older, aside, damaged, stale, crashes, ioErrors>>
  BY BeginAppendFacts
<1>1. /\ entries \in Seq(Entry) /\ nextSeq \in Nat \ {0} /\ file \in File
      /\ e.seq = nextSeq
  BY DEF IInv, TypeOK
<1>2. BelowSeq(file, nextSeq)
  BY <1>0 DEF IInv, SeqInv, Loading
<1>3. /\ entries' \in Seq(Entry) /\ entries' # <<>> /\ Last(entries') = e
      /\ Ascending(entries') /\ \A i \in ToSet(entries') : i.seq < nextSeq'
  BY BeginAppendFacts
<1> HIDE DEF e
<1>4. \A i \in DOMAIN entries' : entries'[i].seq < nextSeq'
  BY <1>3 DEF ToSet
<1>5. TypeOK'
  BY <1>0, <1>1, <1>3 DEF IInv, TypeOK, Calls, Steps
<1>6. OpShape'
  BY <1>0, <1>3 DEF OpShape, Steps
<1>7. ImagesInv'
  BY <1>0 DEF IInv, ImagesInv, Found
<1>8. SeqInv'
  <2>1. BelowSeq(file, nextSeq')
    <3> SUFFICES ASSUME NEW i \in DOMAIN Body(file), Good(Body(file)[i])
                 PROVE  Body(file)[i][1].entry.seq < nextSeq + 1
      BY <1>0 DEF BelowSeq
    <3>1. Body(file)[i][1] \in Chunk
      <4>1. Body(file)[i] \in Line
        BY <1>1, BodyType
      <4> QED BY <4>1 DEF Line, Good
    <3>2. Body(file)[i][1].entry.seq \in Nat
      BY <3>1 DEF Chunk, Entry
    <3>3. Body(file)[i][1].entry.seq < nextSeq
      BY <1>2 DEF BelowSeq
    <3> QED BY <1>1, <3>2, <3>3
  <2>2. BelowSeq(file, Last(entries').seq)
    BY <1>1, <1>2, <1>3
  <2> QED BY <1>0, <1>3, <1>4, <2>1, <2>2 DEF SeqInv
<1>9. PromisesHeld'
  <2>1. promised \ (damaged \cup aside) \subseteq ToSet(entries)
    BY <1>0 DEF IInv, PromisesHeld, Loading
  <2> QED BY <1>0, <2>1 DEF PromisesHeld
<1>10. LastWritten' /\ Rewritten'
  BY <1>0 DEF LastWritten, Rewritten, At
<1>11. Durable'
  BY <1>0 DEF IInv, Durable, Found
<1> QED BY <1>5, <1>6, <1>7, <1>8, <1>9, <1>10, <1>11 DEF IInv

\* One entry, the one of that seq, is taken out of memory.
LEMMA BeginRemoveFacts ==
    ASSUME IInv, NEW s, BeginRemove(s)
    PROVE  /\ opened /\ op = Idle /\ opened' = opened
           /\ op' = [call |-> "remove", at |-> "rename"]
           /\ entries' \in Seq(Entry) /\ Ascending(entries')
           /\ \E e \in ToSet(entries) : e.seq = s /\ ToSet(entries') = ToSet(entries) \ {e}
           /\ promised' = promised \ (ToSet(entries) \ ToSet(entries'))
           /\ exposed' = exposed \cap promised'
           /\ UNCHANGED <<file, images, older, aside, nextSeq, damaged, stale, crashes, ioErrors>>
<1>0. /\ opened /\ op = Idle /\ opened' = opened
      /\ op' = [call |-> "remove", at |-> "rename"]
      /\ promised' = promised \ (ToSet(entries) \ ToSet(entries'))
      /\ exposed' = exposed \cap promised'
      /\ UNCHANGED <<file, images, older, aside, nextSeq, damaged, stale, crashes, ioErrors>>
  BY DEF BeginRemove, disk, faults
<1>1. PICK i \in DOMAIN entries : entries[i].seq = s /\ entries' = RemoveAt(entries, i)
  BY DEF BeginRemove
<1>2. entries \in Seq(Entry) /\ Ascending(entries)
  BY <1>0 DEF IInv, TypeOK, SeqInv, Loading
<1>3. /\ entries' \in Seq(Entry) /\ Ascending(entries')
      /\ ToSet(entries') = ToSet(entries) \ {entries[i]}
  BY <1>1, <1>2, RemoveAtFacts
<1>4. entries[i] \in ToSet(entries)
  BY DEF ToSet
<1> QED BY <1>0, <1>1, <1>3, <1>4

\* One entry is taken out of memory, and is promised no more.
LEMMA BeginRemoveKeeps ==
    ASSUME IInv, NEW s, BeginRemove(s), unsent' \subseteq Qsos PROVE IInv'
<1>0. /\ opened /\ op = Idle /\ opened' = opened
      /\ op' = [call |-> "remove", at |-> "rename"]
      /\ promised' = promised \ (ToSet(entries) \ ToSet(entries'))
      /\ exposed' = exposed \cap promised'
      /\ UNCHANGED <<file, images, older, aside, nextSeq, damaged, stale, crashes, ioErrors>>
  BY BeginRemoveFacts
<1>2. BelowSeq(file, nextSeq) /\ \A j \in DOMAIN entries : entries[j].seq < nextSeq
  BY <1>0 DEF IInv, SeqInv, Loading
<1>3. entries' \in Seq(Entry) /\ Ascending(entries') /\ ToSet(entries') \subseteq ToSet(entries)
  BY BeginRemoveFacts
<1>4. \A j \in DOMAIN entries' : entries'[j].seq < nextSeq
  <2> SUFFICES ASSUME NEW j \in DOMAIN entries' PROVE entries'[j].seq < nextSeq
    OBVIOUS
  <2>1. entries'[j] \in ToSet(entries)
    BY <1>3 DEF ToSet
  <2>2. PICK m \in DOMAIN entries : entries'[j] = entries[m]
    BY <2>1 DEF ToSet
  <2> QED BY <1>2, <2>2
<1>5. TypeOK'
  BY <1>0, <1>3 DEF IInv, TypeOK, Calls, Steps
<1>6. OpShape'
  BY <1>0 DEF OpShape
<1>7. ImagesInv'
  BY <1>0 DEF IInv, ImagesInv, Found
<1>8. SeqInv'
  BY <1>0, <1>2, <1>3, <1>4 DEF SeqInv, At
<1>9. PromisesHeld'
  <2>1. promised \ (damaged \cup aside) \subseteq ToSet(entries)
    BY <1>0 DEF IInv, PromisesHeld, Loading
  <2> QED BY <1>0, <2>1 DEF PromisesHeld
<1>10. LastWritten' /\ Rewritten'
  BY <1>0 DEF LastWritten, Rewritten, At
<1>11. Durable'
  BY <1>0 DEF IInv, Durable, Found
<1> QED BY <1>5, <1>6, <1>7, <1>8, <1>9, <1>10, <1>11 DEF IInv


\* What a write of the line of the last entry, whole or cut short, does to the
\* file's order and to the promises.
LEMMA LineWriteFacts ==
    ASSUME IInv, At("line"), NEW c \in Chunk,
           c.kind = "whole" => c = Written("whole", Last(entries))
    PROVE  /\ WriteTail(file, c) \in File
           /\ AscendingFile(WriteTail(file, c))
           /\ BelowSeq(WriteTail(file, c), nextSeq)
           /\ \A e \in promised \ (damaged \cup aside) :
                 \/ Alone(e, WriteTail(file, c))
                 \/ file.tail # <<>> /\ e \in {d.entry : d \in ToSet(file.tail)}
<1>1. /\ file \in File /\ file \in images /\ AscendingFile(file)
      /\ entries \in Seq(Entry) /\ entries # <<>> /\ opened
      /\ nextSeq \in Nat
  BY DEF IInv, TypeOK, OpShape, ImagesInv, Found, At, Idle
<1>2. Last(entries) = entries[Len(entries)] /\ Len(entries) \in DOMAIN entries
  BY <1>1 DEF Last
<1>3. /\ BelowSeq(file, Last(entries).seq) /\ BelowSeq(file, nextSeq)
      /\ Last(entries).seq < nextSeq
  BY <1>1, <1>2 DEF IInv, SeqInv, Loading
<1>4. c.kind = "whole" => c.entry = Last(entries)
  BY DEF Written
<1>5. AscendingFile(WriteTail(file, c)) /\ BelowSeq(WriteTail(file, c), nextSeq)
  BY <1>1, <1>3, <1>4, AscendingAfterWrite
<1>6. \A e \in promised \ (damaged \cup aside) : Alone(e, file)
  BY DEF IInv, Durable
<1> QED BY <1>1, <1>5, <1>6, WriteTailBody, AloneAfterWrite

\* A line cut short is never a whole entry.
LEMMA CutShortFacts ==
    ASSUME NEW e \in Entry, NEW c \in CutShort(e)
    PROVE  c \in Chunk /\ c.kind # "whole"
BY DEF CutShort, Written, Chunk

\* The last entry is one of the entries.
LEMMA LastFacts ==
    ASSUME IInv, op.call = "append"
    PROVE  /\ Last(entries) \in Entry /\ Last(entries) \in ToSet(entries)
           /\ Written("whole", Last(entries)) \in Chunk
           /\ \E i \in DOMAIN entries : Last(entries) = entries[i]
<1>1. entries \in Seq(Entry) /\ entries # <<>>
  BY DEF IInv, TypeOK, OpShape
<1>2. Last(entries) = entries[Len(entries)] /\ Len(entries) \in DOMAIN entries
  BY <1>1 DEF Last
<1>3. Last(entries) \in Entry
  BY <1>1, <1>2
<1> QED BY <1>2, <1>3 DEF ToSet, Written, Chunk

\* Only an append writes lines.
LEMMA LineShape ==
    ASSUME IInv, op.at \in {"line", "newline", "sync"}
    PROVE  op.call = "append" /\ opened
BY DEF IInv, OpShape, Idle

\* The line of the entry is written, cut short in some of the images.
LEMMA WriteLineKeeps ==
    ASSUME IInv, WriteLine, unsent' \subseteq Qsos PROVE IInv'
<1> DEFINE e == Last(entries)
           w == Written("whole", e)
           ends == {d.entry : d \in ToSet(file.tail)}
<1>0. /\ At("line") /\ op' = [op EXCEPT !.at = "newline"]
      /\ file' = WriteTail(file, w)
      /\ images' = images \cup {file'} \cup {WriteTail(file, c) : c \in CutShort(e)}
      /\ damaged' = IF file.tail = <<>> THEN damaged ELSE damaged \cup {e} \cup ends
      /\ stale' \in BOOLEAN
      /\ UNCHANGED <<older, aside, opened, entries, nextSeq, promised, exposed, crashes, ioErrors>>
  BY DEF WriteLine, Glue, Goto, memory, faults, IInv, TypeOK
<1> HIDE DEF ends
<1>1. op.call = "append" /\ opened /\ op' = [call |-> "append", at |-> "newline"]
  BY <1>0, LineShape DEF At, IInv, OpShape, Idle
<1>2. e \in Entry /\ w \in Chunk /\ file \in File
  BY <1>1, LastFacts DEF IInv, TypeOK
<1>3. ASSUME NEW f \in images' \ images
      PROVE  /\ f \in File /\ AscendingFile(f)
             /\ \A p \in promised \ (damaged \cup aside) :
                   Alone(p, f) \/ (file.tail # <<>> /\ p \in ends)
  <2>1. PICK c \in {w} \cup CutShort(e) : f = WriteTail(file, c)
    BY <1>0
  <2>2. c \in Chunk /\ (c.kind = "whole" => c = w)
    BY <1>2, <2>1, CutShortFacts
  <2> QED BY <1>0, <2>1, <2>2, LineWriteFacts DEF ends
<1>4. /\ file' \in File /\ BelowSeq(file', nextSeq) /\ AscendingFile(file')
  BY <1>0, <1>2, LineWriteFacts
<1>5. ends \subseteq Entry
  <2>1. file.tail \in Seq(Chunk)
    BY <1>2 DEF File
  <2>2. ToSet(file.tail) \subseteq Chunk
    BY <2>1 DEF ToSet
  <2> QED BY <2>2 DEF ends, Chunk
<1>6. TypeOK'
  BY <1>0, <1>1, <1>2, <1>3, <1>4, <1>5 DEF IInv, TypeOK, Calls, Steps
<1>7. OpShape'
  BY <1>0, <1>1 DEF IInv, OpShape, Steps
<1>8. ImagesInv'
  BY <1>0, <1>3 DEF IInv, ImagesInv, Found
<1>9. SeqInv'
  BY <1>0, <1>1, <1>4 DEF IInv, SeqInv, Loading, At
<1>10. damaged \subseteq damaged' /\ (file.tail # <<>> => ends \cup {e} \subseteq damaged')
  BY <1>0
<1>11. PromisesHeld'
  BY <1>0, <1>1, <1>10 DEF IInv, PromisesHeld, Loading
<1>12. LastWritten'
  <2>1. file' = [lines |-> file.lines, tail |-> Append(file.tail, w)]
    BY <1>0, <1>2 DEF WriteTail, File
  <2>2. file.tail \in Seq(Chunk)
    BY <1>2 DEF File
  <2>w. w \in Chunk
    BY <1>2
  <2> HIDE DEF w, e
  <2>3. Append(file.tail, w) # <<>> /\ (file.tail = <<>> => Append(file.tail, w) = <<w>>)
    <3>1. Append(file.tail, w) # <<>>
      BY <2>2, <2>w
    <3>2. file.tail = <<>> => Append(file.tail, w) = <<w>>
      OBVIOUS
    <3> QED BY <3>1, <3>2
  <2>4. file'.tail # <<>> /\ (e \in damaged' \/ file'.tail = <<w>>)
    BY <1>10, <2>1, <2>3
  <2> QED BY <1>0, <1>1, <2>4 DEF LastWritten, At, w, e
<1>13. Rewritten'
  BY <1>1 DEF Rewritten, At
<1>14. Durable'
  <2>1. ASSUME NEW p \in promised \ (damaged' \cup aside)
        PROVE  \A f \in images' \ images : Alone(p, f)
    BY <1>3, <1>10, <2>1
  <2>2. \A p \in promised \ (damaged' \cup aside) : Alone(p, file')
    <3>1. ASSUME NEW p \in promised \ (damaged' \cup aside) PROVE Alone(p, file')
      <4>1. \/ Alone(p, WriteTail(file, w))
            \/ file.tail # <<>> /\ p \in ends
        BY <1>0, <1>2, <1>10, <3>1, LineWriteFacts DEF ends
      <4> QED BY <1>0, <1>10, <3>1, <4>1
    <3> QED BY <3>1
  <2> QED BY <1>0, <1>10, <2>1, <2>2 DEF IInv, Durable, Found
<1> QED BY <1>6, <1>7, <1>8, <1>9, <1>11, <1>12, <1>13, <1>14 DEF IInv

\* The newline ends the line and changes none.
LEMMA WriteNewlineKeeps ==
    ASSUME IInv, WriteNewline, unsent' \subseteq Qsos PROVE IInv'
<1>0. /\ At("newline") /\ op' = [op EXCEPT !.at = "sync"]
      /\ file' = EndLine(file) /\ images' = images \cup {file'}
      /\ UNCHANGED <<older, aside, opened, entries, nextSeq, promised, exposed, damaged, stale,
                     crashes, ioErrors>>
  BY DEF WriteNewline, Goto, memory, past, marks, faults
<1>1. op.call = "append" /\ opened /\ op' = [call |-> "append", at |-> "sync"]
  BY <1>0, LineShape DEF At, IInv, OpShape, Idle
<1>2. file \in File /\ file.tail # <<>> /\ file \in images
  BY <1>0 DEF IInv, TypeOK, LastWritten, ImagesInv
<1>3. file' \in File /\ Body(file') = Body(file)
  BY <1>0, <1>2, EndLineBody
<1>4. TypeOK'
  BY <1>0, <1>1, <1>3 DEF IInv, TypeOK, Calls, Steps
<1>5. OpShape'
  BY <1>0, <1>1 DEF IInv, OpShape, Steps
<1>6. ImagesInv'
  BY <1>0, <1>2, <1>3 DEF IInv, ImagesInv, Found, AscendingFile
<1>7. SeqInv'
  BY <1>0, <1>1, <1>3 DEF IInv, SeqInv, Loading, At, BelowSeq
<1>8. PromisesHeld'
  BY <1>0, <1>1 DEF IInv, PromisesHeld, Loading
<1>9. LastWritten'
  <2>1. Last(entries) \in damaged \/ file.tail = <<Written("whole", Last(entries))>>
    BY <1>0 DEF IInv, LastWritten
  <2>2. file.lines \in Seq(Line) /\ file.tail \in Seq(Chunk)
    BY <1>2 DEF File
  <2>3. Len(Body(file)) \in DOMAIN Body(file) /\ Body(file)[Len(Body(file))] = file.tail
    <3>1. Body(file) = Append(file.lines, file.tail)
      BY <1>2 DEF Body
    <3> QED BY <2>2, <3>1
  <2>4. Last(entries) \in damaged \/ Alone(Last(entries), file')
    BY <1>3, <2>1, <2>3 DEF Alone
  <2> QED BY <1>0, <1>1, <2>4 DEF LastWritten, At
<1>10. Rewritten'
  BY <1>1 DEF Rewritten, At
<1>11. Durable'
  BY <1>0, <1>2, <1>3 DEF IInv, Durable, Found, Alone
<1> QED BY <1>4, <1>5, <1>6, <1>7, <1>8, <1>9, <1>10, <1>11 DEF IInv


\* The sync leaves one image, and the entry is promised.
LEMMA SyncDataKeeps ==
    ASSUME IInv, SyncData, unsent' \subseteq Qsos PROVE IInv'
<1>0. /\ At("sync") /\ images' = {file} /\ op' = Idle
      /\ promised' = promised \cup {Last(entries)}
      /\ exposed' = IF older = {} THEN {} ELSE exposed \cup (promised' \ promised)
      /\ UNCHANGED <<file, older, aside, opened, entries, nextSeq, damaged, stale, crashes, ioErrors>>
  BY DEF SyncData, Synced, Expose, memory, faults
<1>1. op.call = "append" /\ opened
  BY <1>0, LineShape DEF At
<1>2. Last(entries) \in Entry /\ Last(entries) \in ToSet(entries)
  BY <1>1, LastFacts
<1>3. file \in File /\ file \in images
  BY DEF IInv, TypeOK, ImagesInv
<1>4. TypeOK'
  BY <1>0, <1>2, <1>3 DEF IInv, TypeOK, Idle, Calls, Steps
<1>5. OpShape'
  BY <1>0 DEF OpShape, Idle
<1>6. ImagesInv'
  BY <1>0, <1>3 DEF IInv, ImagesInv, Found
<1>7. SeqInv'
  BY <1>0, <1>1 DEF IInv, SeqInv, Loading, At, Idle
<1>8. PromisesHeld'
  BY <1>0, <1>1, <1>2 DEF IInv, PromisesHeld, Loading
<1>9. LastWritten' /\ Rewritten'
  BY <1>0 DEF LastWritten, Rewritten, Idle, At
<1>10. Durable'
  <2>1. Last(entries) \in damaged \/ Alone(Last(entries), file)
    BY <1>0 DEF IInv, LastWritten
  <2>2. \A e \in promised' \ (damaged \cup aside) : Alone(e, file)
    BY <1>0, <2>1 DEF IInv, Durable
  <2>3. ASSUME NEW e \in promised' \ (damaged \cup aside), e \notin exposed', NEW f \in {file} \cup older
        PROVE  Alone(e, f)
    <3>1. CASE older = {}
      BY <2>2, <2>3, <3>1
    <3>2. CASE older # {}
      BY <1>0, <1>3, <2>3, <3>2 DEF IInv, Durable, Found
    <3> QED BY <3>1, <3>2
  <2> QED BY <1>0, <2>2, <2>3 DEF Durable, Found
<1> QED BY <1>4, <1>5, <1>6, <1>7, <1>8, <1>9, <1>10 DEF IInv

\* The entries of a rewritten file are those in memory.
LEMMA RewrittenFacts ==
    ASSUME NEW es \in Seq(Entry), Ascending(es)
    PROVE  /\ FileOf(es) \in File
           /\ AscendingFile(FileOf(es))
           /\ \A s : (\A i \in DOMAIN es : es[i].seq < s) => BelowSeq(FileOf(es), s)
           /\ \A e \in ToSet(es) : Alone(e, FileOf(es))
           /\ \A e : Alone(e, FileOf(es)) => e \in ToSet(es)
<1> DEFINE b == Body(FileOf(es))
<1>1. /\ FileOf(es) \in File
      /\ b = [i \in 1..Len(es) |-> <<Written("whole", es[i])>>]
  BY FileOfBody
<1>2. DOMAIN b = DOMAIN es /\ \A i \in DOMAIN es : b[i] = <<Written("whole", es[i])>>
  BY <1>1
<1>3. \A i \in DOMAIN es : b[i][1].entry = es[i]
  BY <1>2 DEF Written
<1> HIDE DEF b
<1>4. AscendingFile(FileOf(es))
  BY <1>2, <1>3 DEF AscendingFile, Ascending, b
<1>5. \A s : (\A i \in DOMAIN es : es[i].seq < s) => BelowSeq(FileOf(es), s)
  BY <1>2, <1>3 DEF BelowSeq, b
<1>6. \A e \in ToSet(es) : Alone(e, FileOf(es))
  BY <1>2 DEF ToSet, Alone, b
<1>7. ASSUME NEW e, Alone(e, FileOf(es)) PROVE e \in ToSet(es)
  <2>1. PICK i \in DOMAIN b : b[i] = <<Written("whole", e)>>
    BY <1>7 DEF Alone, b
  <2>2. b[i][1].entry = e
    BY <2>1 DEF Written
  <2> QED BY <1>2, <1>3, <2>2 DEF ToSet
<1> QED BY <1>1, <1>4, <1>5, <1>6, <1>7

\* The first n entries, as memory has them.
LEMMA PrefixFacts ==
    ASSUME NEW es \in Seq(Entry), Ascending(es), NEW n \in 0..Len(es)
    PROVE  /\ SubSeq(es, 1, n) \in Seq(Entry)
           /\ Ascending(SubSeq(es, 1, n))
           /\ \A i \in DOMAIN SubSeq(es, 1, n) : i \in 1..n /\ SubSeq(es, 1, n)[i] = es[i]
           /\ ToSet(SubSeq(es, 1, n)) \subseteq ToSet(es)
<1> DEFINE rs == SubSeq(es, 1, n)
<1>1. rs \in Seq(Entry) /\ Len(rs) = n /\ 1..n \subseteq DOMAIN es
  OBVIOUS
<1>2. \A i \in 1..n : rs[i] = es[i]
  OBVIOUS
<1> HIDE DEF rs
<1>3. DOMAIN rs = 1..n
  BY <1>1
<1>4. Ascending(rs)
  BY <1>1, <1>2, <1>3 DEF Ascending
<1>5. ToSet(rs) \subseteq ToSet(es)
  BY <1>1, <1>2, <1>3 DEF ToSet
<1> QED BY <1>1, <1>2, <1>3, <1>4, <1>5 DEF rs

\* What a failed write leaves of the entries is in order, and holds nothing but
\* entries that are in memory.
LEMMA BeginningsFacts ==
    ASSUME NEW es \in Seq(Entry), Ascending(es), NEW s \in Nat,
           \A i \in DOMAIN es : es[i].seq < s, NEW f \in Beginnings(es)
    PROVE  /\ f \in File /\ AscendingFile(f) /\ BelowSeq(f, s)
           /\ \A x : Alone(x, f) => x \in ToSet(es)
<1>1. PICK n \in 0..(Len(es) - 1) :
         \/ f = FileOf(SubSeq(es, 1, n))
         \/ \E c \in {Written("whole", es[n + 1])} \cup CutShort(es[n + 1]) :
               f = WriteTail(FileOf(SubSeq(es, 1, n)), c)
  BY DEF Beginnings
<1>2. PICK g : g = FileOf(SubSeq(es, 1, n))
  OBVIOUS
<1>3. PICK e : e = es[n + 1]
  OBVIOUS
<1>4. /\ n \in 0..Len(es) /\ n + 1 \in DOMAIN es /\ \A i \in 1..n : i < n + 1 /\ i \in DOMAIN es
  OBVIOUS
<1>5. e \in Entry /\ e \in ToSet(es) /\ e.seq < s /\ e.seq \in Nat
  <2>1. e \in Entry /\ e.seq < s /\ e \in ToSet(es)
    BY <1>3, <1>4 DEF ToSet
  <2> QED BY <2>1 DEF Entry
<1>6. PICK rs : rs = SubSeq(es, 1, n)
  OBVIOUS
<1>7. /\ rs \in Seq(Entry) /\ Ascending(rs) /\ ToSet(rs) \subseteq ToSet(es)
      /\ \A i \in DOMAIN rs : i \in 1..n /\ rs[i] = es[i]
  BY <1>4, <1>6, PrefixFacts
<1>8. \A i \in DOMAIN rs : rs[i].seq < s /\ rs[i].seq < e.seq
  BY <1>3, <1>4, <1>7 DEF Ascending
<1>9. /\ g \in File /\ AscendingFile(g) /\ BelowSeq(g, s) /\ BelowSeq(g, e.seq)
      /\ \A x : Alone(x, g) => x \in ToSet(es)
  BY <1>2, <1>6, <1>7, <1>8, RewrittenFacts
<1>10. CASE f = g
  BY <1>9, <1>10
<1>11. CASE f # g
  <2>1. PICK c \in {Written("whole", e)} \cup CutShort(e) : f = WriteTail(g, c)
    BY <1>1, <1>2, <1>3, <1>11
  <2>2. c \in Chunk /\ c.entry = e
    BY <1>5, <2>1, CutShortFacts DEF Written, Chunk, CutShort
  <2>3. AscendingFile(f) /\ BelowSeq(f, s) /\ f \in File
    BY <1>5, <1>9, <2>1, <2>2, AscendingAfterWrite, WriteTailBody
  <2>4. ASSUME NEW x, Alone(x, f) PROVE x \in ToSet(es)
    <3>1. g.tail = <<>> /\ g.lines \in Seq(Line)
      BY <1>2, <1>9 DEF FileOf, File
    <3>2. Body(g) = g.lines /\ Body(f) = Append(g.lines, <<c>>)
      BY <1>9, <2>1, <2>2, <3>1, WriteTailBody
    <3>3. PICK i \in DOMAIN Body(f) : Body(f)[i] = <<Written("whole", x)>>
      BY <2>4 DEF Alone
    <3>4. \/ i \in DOMAIN Body(g) /\ Body(g)[i] = Body(f)[i]
          \/ Body(f)[i] = <<c>>
      BY <3>1, <3>2
    <3>5. CASE i \in DOMAIN Body(g) /\ Body(g)[i] = Body(f)[i]
      BY <1>9, <3>3, <3>5 DEF Alone
    <3>6. CASE Body(f)[i] = <<c>>
      <4>1. c = Written("whole", x)
        BY <3>3, <3>6
      <4> QED BY <1>5, <2>2, <4>1 DEF Written
    <3> QED BY <3>4, <3>5, <3>6
  <2> QED BY <2>3, <2>4
<1> QED BY <1>10, <1>11

\* A rewritten file takes the name, and is the image of its own inode.
LEMMA RenamedKeeps ==
    ASSUME IInv, Renamed, unsent' \subseteq Qsos,
           file' \in File, AscendingFile(file'), BelowSeq(file', nextSeq),
           \A e \in ToSet(entries) \ damaged' : Alone(e, file'),
           \A e : Alone(e, file') => e \in ToSet(entries),
           damaged \subseteq damaged', damaged' \subseteq damaged \cup ToSet(entries),
           stale' \in BOOLEAN, crashes' = crashes, ioErrors' \in 0..MaxIoErrors
    PROVE  IInv'
<1>0. /\ At("rename") /\ op' = [op EXCEPT !.at = "syncdir"]
      /\ images' = {file'} /\ older' = images \cup older
      /\ UNCHANGED <<aside, opened, entries, nextSeq, promised, exposed>>
  BY DEF Renamed, Found, Goto, memory
<1>1. /\ op.call \in {"open", "append", "remove"}
      /\ op' = [call |-> op.call, at |-> "syncdir"]
      /\ Loading
  BY <1>0 DEF IInv, OpShape, At, Idle, Loading
<1>2. /\ entries \in Seq(Entry) /\ Ascending(entries) /\ nextSeq \in Nat
      /\ \A i \in DOMAIN entries : entries[i].seq < nextSeq
  BY <1>1 DEF IInv, TypeOK, SeqInv
<1>3. ToSet(entries) \subseteq Entry
  BY <1>2 DEF ToSet
<1>4. TypeOK'
  BY <1>0, <1>1, <1>3 DEF IInv, TypeOK, Calls, Steps
<1>5. OpShape'
  BY <1>0, <1>1 DEF IInv, OpShape, Steps
<1>6. ImagesInv'
  BY <1>0 DEF IInv, ImagesInv, Found
<1>7. SeqInv'
  BY <1>0, <1>1, <1>2 DEF SeqInv, At
<1>8. PromisesHeld'
  BY <1>0, <1>1 DEF IInv, PromisesHeld, Loading
<1>9. LastWritten' /\ Rewritten'
  BY <1>0, <1>1 DEF LastWritten, Rewritten, At
<1>10. Durable'
  <2>1. promised \ (damaged' \cup aside) \subseteq ToSet(entries)
    BY <1>1 DEF IInv, PromisesHeld
  <2>2. \A e \in promised \ (damaged' \cup aside) : Alone(e, file')
    BY <2>1
  <2>3. ASSUME NEW e \in promised \ (damaged' \cup aside), e \notin exposed,
               NEW f \in {file'} \cup (images \cup older)
        PROVE  Alone(e, f)
    BY <2>2, <2>3 DEF IInv, Durable, Found
  <2> QED BY <1>0, <2>2, <2>3 DEF Durable, Found
<1> QED BY <1>4, <1>5, <1>6, <1>7, <1>8, <1>9, <1>10 DEF IInv

\* The rewritten file holds what memory holds.
LEMMA RenameKeeps ==
    ASSUME IInv, Rename, unsent' \subseteq Qsos PROVE IInv'
<1>0. /\ At("rename") /\ Renamed /\ file' = FileOf(entries) /\ stale' = FALSE
      /\ UNCHANGED <<damaged, crashes, ioErrors>>
  BY DEF Rename, Renamed, faults
<1>1. Loading
  BY <1>0 DEF IInv, OpShape, At, Idle, Loading
<1>2. /\ entries \in Seq(Entry) /\ Ascending(entries)
      /\ \A i \in DOMAIN entries : entries[i].seq < nextSeq
  BY <1>1 DEF IInv, TypeOK, SeqInv
<1>3. /\ file' \in File /\ AscendingFile(file') /\ BelowSeq(file', nextSeq)
      /\ \A e \in ToSet(entries) : Alone(e, file')
      /\ \A e : Alone(e, file') => e \in ToSet(entries)
  BY <1>0, <1>2, RewrittenFacts
<1>4. ioErrors' \in 0..MaxIoErrors /\ stale' \in BOOLEAN
  BY <1>0 DEF IInv, TypeOK
<1> QED BY <1>0, <1>3, <1>4, RenamedKeeps

\* The rewritten file lacks what a write left out whose failure nobody sees.
LEMMA LostRewriteKeeps ==
    ASSUME IInv, LostRewrite, unsent' \subseteq Qsos,
           crashes' = crashes, ioErrors' \in 0..MaxIoErrors
    PROVE  IInv'
<1>0. /\ At("rename") /\ Renamed /\ file' \in Beginnings(entries) /\ stale' = TRUE
      /\ damaged' = damaged \cup {e \in ToSet(entries) : ~Alone(e, file')}
  BY DEF LostRewrite, Renamed
<1>1. Loading
  BY <1>0 DEF IInv, OpShape, At, Idle, Loading
<1>2. /\ entries \in Seq(Entry) /\ Ascending(entries) /\ nextSeq \in Nat
      /\ \A i \in DOMAIN entries : entries[i].seq < nextSeq
  BY <1>1 DEF IInv, TypeOK, SeqInv
<1>3. /\ file' \in File /\ AscendingFile(file') /\ BelowSeq(file', nextSeq)
      /\ \A e : Alone(e, file') => e \in ToSet(entries)
  BY <1>0, <1>2, BeginningsFacts
<1>4. /\ \A e \in ToSet(entries) \ damaged' : Alone(e, file')
      /\ damaged \subseteq damaged' /\ damaged' \subseteq damaged \cup ToSet(entries)
      /\ stale' \in BOOLEAN
  BY <1>0
<1> QED BY <1>0, <1>3, <1>4, RenamedKeeps

\* The line of the entry is left without its newline.
LEMMA LostNewlineKeeps ==
    ASSUME IInv, LostNewline, unsent' \subseteq Qsos,
           crashes' = crashes, ioErrors' \in 0..MaxIoErrors
    PROVE  IInv'
<1>0. /\ At("newline") /\ op' = [op EXCEPT !.at = "sync"]
      /\ UNCHANGED <<file, images, older, aside, opened, entries, nextSeq,
                     promised, exposed, damaged, stale>>
  BY DEF LostNewline, Goto, disk, memory, past, marks
<1>1. op.call = "append" /\ opened /\ op' = [call |-> "append", at |-> "sync"]
  BY <1>0, LineShape DEF At, IInv, OpShape, Idle
<1>2. file \in File /\ file.tail # <<>>
  BY <1>0 DEF IInv, TypeOK, LastWritten
<1>3. Last(entries) \in damaged \/ Alone(Last(entries), file)
  <2>1. Last(entries) \in damaged \/ file.tail = <<Written("whole", Last(entries))>>
    BY <1>0 DEF IInv, LastWritten
  <2>2. file.lines \in Seq(Line) /\ file.tail \in Seq(Chunk)
    BY <1>2 DEF File
  <2>3. Body(file) = Append(file.lines, file.tail)
    BY <1>2 DEF Body
  <2>4. Len(Body(file)) \in DOMAIN Body(file) /\ Body(file)[Len(Body(file))] = file.tail
    BY <2>2, <2>3
  <2> QED BY <2>1, <2>4 DEF Alone
<1>4. TypeOK'
  BY <1>0, <1>1 DEF IInv, TypeOK, Calls, Steps
<1>5. OpShape'
  BY <1>0, <1>1 DEF IInv, OpShape, Steps
<1>6. ImagesInv' /\ Durable'
  BY <1>0 DEF IInv, ImagesInv, Durable, Found
<1>7. SeqInv'
  BY <1>0, <1>1 DEF IInv, SeqInv, Loading, At
<1>8. PromisesHeld'
  BY <1>0, <1>1 DEF IInv, PromisesHeld, Loading
<1>9. LastWritten' /\ Rewritten'
  BY <1>0, <1>1, <1>3 DEF LastWritten, Rewritten, At
<1> QED BY <1>4, <1>5, <1>6, <1>7, <1>8, <1>9 DEF IInv

\* A write fails and nobody sees it.
LEMMA LostWriteKeeps ==
    ASSUME IInv, LostWrite, unsent' \subseteq Qsos PROVE IInv'
<1>1. /\ LostNewline \/ LostRewrite
      /\ crashes' = crashes /\ ioErrors < MaxIoErrors /\ ioErrors' = ioErrors + 1
  BY DEF LostWrite
<1>2. ioErrors' \in 0..MaxIoErrors
  BY <1>1, BoundsAssumption DEF IInv, TypeOK
<1> QED BY <1>1, <1>2, LostNewlineKeeps, LostRewriteKeeps

\* The call returns.  Once the directory is synced the rewritten file is all
\* that can be found, and what it holds is no longer damaged.
LEMMA SyncDirKeeps ==
    ASSUME IInv, SyncDir, unsent' \subseteq Qsos PROVE IInv'
<1>0. /\ At("syncdir") /\ op' = Idle /\ opened' = TRUE
      /\ older' = (IF HasParent THEN {} ELSE older)
      /\ promised' = IF op.call = "append" THEN promised \cup {Last(entries)} ELSE promised
      /\ exposed' = IF older' = {} THEN {} ELSE exposed \cup (promised' \ promised)
      /\ damaged' = IF older' = {} THEN {e \in damaged : ~Alone(e, file)} ELSE damaged
      /\ UNCHANGED <<file, images, aside, entries, nextSeq, stale, crashes, ioErrors>>
  BY DEF SyncDir, Expose, memory, faults
<1>1. Loading
  BY <1>0 DEF IInv, OpShape, At, Idle, Loading
<1>2. /\ entries \in Seq(Entry) /\ images = {file} /\ file \in File
      /\ \A e \in ToSet(entries) \ damaged : Alone(e, file)
      /\ \A e : Alone(e, file) => e \in ToSet(entries)
  BY <1>0 DEF IInv, TypeOK, Rewritten
<1>3. older' \subseteq older
  BY <1>0
<1>4. promised' \subseteq Entry /\ promised' \subseteq promised \cup ToSet(entries)
  BY <1>0, LastFacts DEF IInv, TypeOK
<1>5. \A e \in promised' \ (damaged' \cup aside) : Alone(e, file)
  <2> SUFFICES ASSUME NEW e \in promised' \ (damaged' \cup aside), e \notin damaged
               PROVE  Alone(e, file)
    BY <1>0
  <2>1. CASE e \in ToSet(entries)
    BY <1>2, <2>1
  <2>2. CASE e \in promised
    BY <1>0, <2>2 DEF IInv, Durable
  <2> QED BY <1>4, <2>1, <2>2
<1>6. promised' \ (damaged' \cup aside) \subseteq ToSet(entries)
  BY <1>2, <1>5
<1>7. TypeOK'
  BY <1>0, <1>3, <1>4 DEF IInv, TypeOK, Idle, Calls, Steps
<1>8. OpShape'
  BY <1>0 DEF OpShape, Idle
<1>9. ImagesInv'
  BY <1>0, <1>3 DEF IInv, ImagesInv, Found
<1>10. SeqInv'
  BY <1>0, <1>1 DEF IInv, SeqInv, At, Idle
<1>11. PromisesHeld'
  BY <1>0, <1>6 DEF PromisesHeld
<1>12. LastWritten' /\ Rewritten'
  BY <1>0 DEF LastWritten, Rewritten, Idle, At
<1>13. Durable'
  <2>1. ASSUME NEW e \in promised' \ (damaged' \cup aside), e \notin exposed',
               NEW f \in images \cup older'
        PROVE  Alone(e, f)
    <3>1. CASE f = file
      BY <1>5, <2>1, <3>1
    <3>2. CASE f # file
      <4>1. older' # {} /\ f \in older
        BY <1>2, <1>3, <2>1, <3>2
      <4>2. e \notin damaged /\ e \notin exposed /\ e \in promised
        BY <1>0, <2>1, <4>1
      <4> QED BY <2>1, <4>1, <4>2 DEF IInv, Durable, Found
    <3> QED BY <3>1, <3>2
  <2> QED BY <1>0, <1>5, <2>1 DEF Durable, Found
<1> QED BY <1>7, <1>8, <1>9, <1>10, <1>11, <1>12, <1>13 DEF IInv


\* A system call fails, and may have written the beginning of a line.
LEMMA IoErrorKeeps ==
    ASSUME IInv, IoError, unsent' \subseteq Qsos PROVE IInv'
<1> DEFINE ends == {d.entry : d \in ToSet(file.tail)}
<1>0. /\ op # Idle /\ op' = Idle
      /\ ioErrors' = ioErrors + 1 /\ ioErrors < MaxIoErrors
      /\ IF op.call = "open" THEN entries' = <<>> /\ nextSeq' = 1
         ELSE entries' = entries /\ nextSeq' = nextSeq
      /\ stale' \in BOOLEAN
      /\ UNCHANGED <<older, aside, opened, promised, exposed, crashes>>
  BY DEF IoError, Forget, memory, IInv, TypeOK
<1>1. \/ UNCHANGED <<file, images, damaged>>
      \/ /\ At("line")
         /\ \E c \in CutShort(Last(entries)) : file' = WriteTail(file, c)
         /\ images' = images \cup {file'}
         /\ damaged' = IF file.tail = <<>> THEN damaged ELSE damaged \cup ends
  BY DEF IoError
<1> HIDE DEF ends
<1>2. /\ entries' \in Seq(Entry) /\ nextSeq' \in Nat \ {0}
      /\ ioErrors' \in 0..MaxIoErrors
      /\ opened => op.call # "open"
  <2>1. <<>> \in Seq(Entry) /\ 1 \in Nat \ {0}
    OBVIOUS
  <2>2. ioErrors' \in 0..MaxIoErrors
    BY <1>0, BoundsAssumption DEF IInv, TypeOK
  <2> QED BY <1>0, <2>1, <2>2 DEF IInv, TypeOK, OpShape
\* What the written part leaves of the file.
<1>3. /\ file' \in File /\ images' \subseteq File /\ damaged' \subseteq Entry
      /\ damaged \subseteq damaged'
      /\ file' \in images' /\ images \subseteq images'
      /\ images' \ images \subseteq {file'} /\ AscendingFile(file')
      /\ opened => BelowSeq(file', nextSeq)
      /\ \A p \in promised \ (damaged' \cup aside) : Alone(p, file')
  <2>1. CASE UNCHANGED <<file, images, damaged>>
    BY <2>1 DEF IInv, TypeOK, ImagesInv, Found, SeqInv, Loading, Durable
  <2>2. CASE /\ At("line")
             /\ \E c \in CutShort(Last(entries)) : file' = WriteTail(file, c)
             /\ images' = images \cup {file'}
             /\ damaged' = IF file.tail = <<>> THEN damaged ELSE damaged \cup ends
    <3>1. PICK c \in CutShort(Last(entries)) : file' = WriteTail(file, c)
      BY <2>2
    <3>2. op.call = "append" /\ Last(entries) \in Entry
      BY <2>2, LineShape, LastFacts DEF At
    <3>3. c \in Chunk /\ c.kind # "whole"
      BY <3>1, <3>2, CutShortFacts
    <3>4. /\ file' \in File /\ AscendingFile(file') /\ BelowSeq(file', nextSeq)
          /\ \A p \in promised \ (damaged \cup aside) :
                Alone(p, file') \/ (file.tail # <<>> /\ p \in ends)
      BY <2>2, <3>1, <3>3, LineWriteFacts DEF ends
    <3>5. ends \subseteq Entry
      <4>1. file.tail \in Seq(Chunk)
        BY DEF IInv, TypeOK, File
      <4>2. ToSet(file.tail) \subseteq Chunk
        BY <4>1 DEF ToSet
      <4> QED BY <4>2 DEF ends, Chunk
    <3>6. images \subseteq File /\ damaged \subseteq Entry
      BY DEF IInv, TypeOK
    <3>7. damaged \subseteq damaged' /\ damaged' \subseteq Entry /\ (file.tail # <<>> => ends \subseteq damaged')
      BY <2>2, <3>5, <3>6
    <3> QED BY <2>2, <3>4, <3>6, <3>7
  <2> QED BY <1>1, <2>1, <2>2
<1>4. TypeOK'
  BY <1>0, <1>2, <1>3 DEF IInv, TypeOK, Idle, Calls, Steps
<1>5. OpShape'
  BY <1>0 DEF OpShape, Idle
<1>6. ImagesInv'
  BY <1>0, <1>3 DEF IInv, ImagesInv, Found
<1>7. SeqInv'
  BY <1>0, <1>2, <1>3 DEF IInv, SeqInv, Loading, Idle, At
<1>8. PromisesHeld'
  BY <1>0, <1>2, <1>3 DEF IInv, PromisesHeld, Loading, Idle
<1>9. LastWritten' /\ Rewritten'
  BY <1>0 DEF LastWritten, Rewritten, Idle, At
<1>10. Durable'
  BY <1>0, <1>3 DEF IInv, Durable, Found
<1> QED BY <1>4, <1>5, <1>6, <1>7, <1>8, <1>9, <1>10 DEF IInv

\* The process ends, one way or another: what the disk keeps is in order.
LEMMA StopKeeps ==
    ASSUME IInv, Stop, UNCHANGED <<aside, promised>>, unsent' \subseteq Qsos,
           crashes' \in 0..MaxCrashes, ioErrors' \in 0..MaxIoErrors, stale' \in BOOLEAN,
           images' \subseteq Found, older' \subseteq Found, file' \in images',
           exposed' \subseteq Entry, damaged' \subseteq Entry, Durable'
    PROVE  IInv'
<1>1. TypeOK'
  <2>1. <<>> \in Seq(Entry) /\ 1 \in Nat \ {0}
    OBVIOUS
  <2> QED BY <2>1 DEF IInv, TypeOK, Found, Stop, Forget, Idle, Calls, Steps
<1>2. OpShape'
  BY DEF OpShape, Stop, Idle
<1>3. ImagesInv'
  BY DEF IInv, ImagesInv, Found
<1>4. SeqInv' /\ PromisesHeld' /\ LastWritten' /\ Rewritten'
  BY DEF SeqInv, PromisesHeld, LastWritten, Rewritten, Loading, At, Stop, Idle
<1> QED BY <1>1, <1>2, <1>3, <1>4 DEF IInv

\* The kernel keeps what was written.
LEMMA HaltKeeps ==
    ASSUME IInv, Stop, UNCHANGED <<disk, past>>, unsent' \subseteq Qsos,
           crashes' \in 0..MaxCrashes, ioErrors' \in 0..MaxIoErrors
    PROVE  IInv'
<1>1. UNCHANGED <<file, images, older, aside, promised, exposed, damaged, stale>>
  BY DEF disk, past, marks
<1>2. Durable'
  BY <1>1 DEF IInv, Durable, Found
<1>3. /\ images' \subseteq Found /\ older' \subseteq Found /\ file' \in images'
      /\ stale' \in BOOLEAN /\ exposed' \subseteq Entry /\ damaged' \subseteq Entry
  BY <1>1 DEF IInv, TypeOK, ImagesInv, Found
<1> QED BY <1>1, <1>2, <1>3, StopKeeps

\* The machine comes back with a content a power failure may uncover: what it
\* lacks of the entries exposed is damaged.
LEMMA PowerLossKeeps ==
    ASSUME IInv, PowerLoss, unsent' \subseteq Qsos PROVE IInv'
<1>0. /\ crashes < MaxCrashes /\ crashes' = crashes + 1 /\ ioErrors' = ioErrors
      /\ file' \in Found /\ images' = {file'} /\ older' \subseteq {file'}
      /\ exposed' = {}
      /\ damaged' = {e \in damaged \cup exposed : ~Alone(e, file')}
      /\ Stop /\ UNCHANGED <<aside, promised, stale>>
  BY DEF PowerLoss
<1>1. crashes' \in 0..MaxCrashes
  BY <1>0, BoundsAssumption DEF IInv, TypeOK
<1>2. Durable'
  <2>1. ASSUME NEW e \in promised \ (damaged' \cup aside) PROVE Alone(e, file')
    <3>1. CASE e \in damaged \cup exposed
      BY <1>0, <2>1, <3>1
    <3>2. CASE e \notin damaged \cup exposed
      BY <1>0, <2>1, <3>2 DEF IInv, Durable
    <3> QED BY <3>1, <3>2
  <2>2. \A f \in images' \cup older' : f = file'
    BY <1>0
  <2> QED BY <1>0, <2>1, <2>2 DEF Durable, Found
<1>3. /\ images' \subseteq Found /\ older' \subseteq Found /\ file' \in images'
      /\ stale' \in BOOLEAN /\ exposed' \subseteq Entry /\ damaged' \subseteq Entry
      /\ ioErrors' \in 0..MaxIoErrors
  BY <1>0 DEF IInv, TypeOK
<1> QED BY <1>0, <1>1, <1>2, <1>3, StopKeeps

\* The process ends without a fault, between two lines.
Halt == Stop /\ ~At("newline") /\ UNCHANGED <<disk, past, faults>>

\* What one step of the spool is for its callers: whoever appends and removes,
\* whatever becomes of the records not yet received, and whichever way the
\* process ends.  The steps of Next are such steps, and so are QsoPipeline's.
SpoolStep ==
    /\ \/ OpenStep
       \/ \E q \in Qsos : BeginAppend(q)
       \/ \E s \in Nat : BeginRemove(s)
       \/ WriteStep
       \/ IoError
       \/ LostWrite
       \/ Crash
       \/ Halt
       \/ UNCHANGED spoolVars
    /\ unsent' \subseteq Qsos

\* Every step keeps the invariant.
LEMMA StepKeeps == ASSUME IInv, SpoolStep PROVE IInv'
<1>0. /\ file \in images /\ crashes \in 0..MaxCrashes /\ ioErrors \in 0..MaxIoErrors
      /\ unsent' \subseteq Qsos
  BY DEF IInv, TypeOK, ImagesInv, SpoolStep
<1>1. CASE OpenStep
  BY <1>0, <1>1, OpenCleanKeeps, OpenTruncatedKeeps, OpenCorruptKeeps DEF OpenStep
<1>2. ASSUME NEW q \in Qsos, BeginAppend(q) PROVE IInv'
  BY <1>0, <1>2, BeginAppendKeeps
<1>3. ASSUME NEW s \in Nat, BeginRemove(s) PROVE IInv'
  BY <1>0, <1>3, BeginRemoveKeeps
<1>4. CASE WriteStep
  BY <1>0, <1>4, WriteLineKeeps, WriteNewlineKeeps, SyncDataKeeps, RenameKeeps, SyncDirKeeps
     DEF WriteStep
<1>5. CASE IoError
  BY <1>0, <1>5, IoErrorKeeps
<1>6. CASE LostWrite
  BY <1>0, <1>6, LostWriteKeeps
<1>7. CASE Kill
  <2>1. crashes' \in 0..MaxCrashes
    BY <1>0, <1>7, BoundsAssumption DEF Kill
  <2> QED BY <1>0, <1>7, <2>1, HaltKeeps DEF Kill
<1>8. CASE PowerLoss
  BY <1>0, <1>8, PowerLossKeeps
<1>9. CASE Halt
  <2>1. crashes' \in 0..MaxCrashes /\ ioErrors' \in 0..MaxIoErrors
    BY <1>0, <1>9 DEF Halt, faults
  <2> QED BY <1>0, <1>9, <2>1, HaltKeeps DEF Halt
<1>10. CASE UNCHANGED spoolVars
  BY <1>0, <1>10 DEF spoolVars, disk, memory, past, marks, faults, IInv, TypeOK, OpShape,
              ImagesInv, Found, SeqInv, PromisesHeld, LastWritten, Rewritten, Durable, Loading, At
<1> QED BY <1>1, <1>2, <1>3, <1>4, <1>5, <1>6, <1>7, <1>8, <1>9, <1>10 DEF SpoolStep, Crash

\* Next takes no other steps.
LEMMA NextIsSpoolStep == IInv /\ [Next]_vars => SpoolStep
<1> SUFFICES ASSUME IInv, [Next]_vars PROVE SpoolStep
  OBVIOUS
<1>1. unsent \subseteq Qsos /\ nextSeq \in Nat
  BY DEF IInv, TypeOK
<1>2. unsent' \subseteq unsent
  BY DEF Next, vars
<1>3. Close => Halt
  BY DEF Close, Halt, At, Idle
<1> QED BY <1>1, <1>2, <1>3 DEF Next, vars, SpoolStep

-----------------------------------------------------------------------------
(* Memory and file agree, and both keep to the cap.                        *)

\* f holds es and nothing else, one entry to a line.
Mirrored(f, es) == Body(f) = [i \in 1..Len(es) |-> <<Written("whole", es[i])>>]

\* Calls that have just begun to write, or that have written everything.
Quiet == op = Idle \/ At("newline") \/ At("sync")

\* The file holds what memory holds; before the line of the new entry is
\* written, all of it but that entry.
MirrorInv ==
    ~stale => /\ opened /\ Quiet => Mirrored(file, entries)
              /\ opened /\ At("line") => Mirrored(file, Front(entries))
              /\ At("syncdir") => Mirrored(file, entries)

\* While nothing has failed, memory and all that may be found on disk stay within
\* the cap, and the file has no more lines than memory has entries, so that an
\* append that is within the cap in memory is so on disk too.
CapInv ==
    ioErrors = 0 =>
        /\ Len(entries) <= MaxQueueLen
        /\ \A f \in Found : Len(Body(f)) <= MaxQueueLen
        /\ (opened /\ Quiet) \/ At("syncdir") => Len(Body(file)) <= Len(entries)
        /\ At("line") => Len(Body(file)) < Len(entries)

-----------------------------------------------------------------------------
(* Facts about files that mirror memory.                                   *)

\* A file that mirrors es parses to es.
LEMMA MirroredIsRead ==
    ASSUME NEW f \in File, NEW es \in Seq(Entry), Mirrored(f, es)
    PROVE  Clean(f) /\ Parsed(f) = es
<1> DEFINE b == Body(f)
<1>1. b = [i \in 1..Len(es) |-> <<Written("whole", es[i])>>]
  BY DEF Mirrored
<1>2. Len(es) \in Nat /\ DOMAIN b = 1..Len(es) /\ Len(b) = Len(es)
  <2>1. b \in Seq(Line)
    BY BodyType
  <2>2. DOMAIN b = 1..Len(es) /\ DOMAIN b = 1..Len(b)
    BY <1>1, <2>1
  <2> HIDE DEF b
  <2> QED BY <2>1, <2>2
<1>3. \A i \in DOMAIN b : Good(b[i]) /\ b[i][1].entry = es[i]
  BY <1>1, <1>2 DEF Good, Written
<1>4. BadLines(f) = {}
  BY <1>3 DEF BadLines
<1>5. Clean(f) /\ ~Truncated(f)
  BY <1>4 DEF Clean, Truncated
<1>6. Parsed(f) = [i \in 1..Len(es) |-> b[i][1].entry]
  <2>1. Parsed(f) = [i \in 1..(Len(b) - 0) |-> b[i][1].entry]
    BY <1>5 DEF Parsed
  <2>2. Len(b) - 0 = Len(es)
    BY <1>2
  <2> HIDE DEF b
  <2> QED BY <2>1, <2>2
<1>7. Parsed(f) = [i \in 1..Len(es) |-> es[i]]
  <2>1. \A i \in 1..Len(es) : b[i][1].entry = es[i]
    BY <1>2, <1>3
  <2> HIDE DEF b
  <2> QED BY <1>6, <2>1
<1>8. es = [i \in 1..Len(es) |-> es[i]]
  OBVIOUS
<1> QED BY <1>5, <1>7, <1>8

\* Sequences with the same indices are of the same length.
LEMMA SameRange ==
    ASSUME NEW m \in Nat, NEW n \in Nat, 1..m = 1..n
    PROVE  m = n
<1>1. CASE m < n
  BY <1>1
<1>2. CASE n < m
  BY <1>2
<1> QED BY <1>1, <1>2

LEMMA ShortRange ==
    ASSUME NEW m \in Nat, NEW n \in Int, NEW l \in Nat, n <= l, 1..m = 1..n
    PROVE  m <= l
<1>1. CASE m = 0
  BY <1>1
<1>2. CASE m > 0
  <2>1. m \in 1..n
    BY <1>2
  <2> QED BY <2>1
<1> QED BY <1>1, <1>2

\* A file whose every line parses mirrors what it parses to; a file of which
\* open drops the last line has one line more.
LEMMA ReadIsMirrored ==
    ASSUME NEW f \in File, AscendingFile(f), Clean(f) \/ Truncated(f)
    PROVE  /\ Clean(f) => Mirrored(f, Parsed(f))
           /\ Len(Parsed(f)) <= Len(Body(f))
<1> DEFINE b == Body(f)
           n == Len(b) - (IF Truncated(f) THEN 1 ELSE 0)
           ps == Parsed(f)
<1>1. b \in Seq(Line)
  BY BodyType
<1>2. ps = [i \in 1..n |-> b[i][1].entry]
  BY DEF Parsed
<1>a. ps \in Seq(Entry)
  BY ParsedFacts
<1>3. n \in Int /\ n <= Len(b) /\ (~Truncated(f) => n = Len(b))
  BY <1>1
<1>4. Clean(f) => ~Truncated(f) /\ \A i \in DOMAIN b : Good(b[i])
  BY DEF Clean, Truncated, BadLines
<1> HIDE DEF b, n, ps
<1>5. DOMAIN ps = 1..n /\ \A i \in 1..n : ps[i] = b[i][1].entry
  BY <1>2
<1>6. Len(b) \in Nat /\ DOMAIN b = 1..Len(b)
  BY <1>1
<1>7. Len(ps) \in Nat /\ DOMAIN ps = 1..Len(ps)
  BY <1>a
<1>8. Len(ps) <= Len(b)
  <2>1. 1..Len(ps) = 1..n
    BY <1>5, <1>7
  <2> DEFINE k == Len(ps)
             m == Len(b)
  <2>2. k \in Nat /\ m \in Nat /\ n \in Int /\ n <= m /\ 1..k = 1..n
    BY <1>3, <1>6, <1>7, <2>1
  <2> HIDE DEF k, m
  <2>3. k <= m
    BY <2>2, ShortRange
  <2> QED BY <2>3 DEF k, m
<1>9. ASSUME Clean(f) PROVE b = [i \in 1..Len(ps) |-> <<Written("whole", ps[i])>>]
  <2>1. n = Len(b) /\ Len(ps) = n
    <3>1. n = Len(b)
      BY <1>3, <1>4, <1>9
    <3>2. 1..n = 1..Len(ps)
      BY <1>5, <1>7
    <3> QED BY <1>6, <1>7, <3>1, <3>2, SameRange
  <2>2. ASSUME NEW i \in 1..n PROVE b[i] = <<Written("whole", ps[i])>>
    <3>1. b[i] \in Line /\ Good(b[i])
      BY <1>1, <1>4, <1>6, <1>9, <2>1
    <3>2. b[i] \in Seq(Chunk) /\ Len(b[i]) = 1 /\ b[i][1].kind = "whole"
      BY <3>1 DEF Good, Line
    <3>3. b[i] = <<b[i][1]>> /\ b[i][1] \in Chunk
      BY <3>2
    <3>4. \A c \in Chunk : c.kind = "whole" => c = Written("whole", c.entry)
      BY DEF Written, Chunk
    <3>5. b[i][1] = Written("whole", ps[i])
      BY <1>5, <3>2, <3>3, <3>4
    <3> QED BY <3>3, <3>5
  <2>3. b = [i \in 1..n |-> b[i]]
    BY <1>1, <1>6, <2>1
  <2> QED BY <2>1, <2>2, <2>3
<1> QED BY <1>8, <1>9 DEF b, ps, Mirrored

\* A file that mirrors es has as many lines as es has entries.
LEMMA MirroredLength ==
    ASSUME NEW f \in File, NEW es \in Seq(Entry), Mirrored(f, es)
    PROVE  Len(Body(f)) = Len(es)
<1> DEFINE b == Body(f)
<1>1. b \in Seq(Line)
  BY BodyType
<1>2. DOMAIN b = 1..Len(es)
  BY DEF Mirrored
<1> HIDE DEF b
<1>3. Len(b) \in Nat /\ DOMAIN b = 1..Len(b) /\ Len(es) \in Nat
  BY <1>1
<1>4. Len(b) = Len(es)
  BY <1>2, <1>3, SameRange
<1> QED BY <1>4 DEF b

\* A rewritten file mirrors memory; an empty one mirrors an empty memory.
LEMMA RewrittenIsMirrored ==
    /\ \A es \in Seq(Entry) : Mirrored(FileOf(es), es)
    /\ Mirrored(NoFile, <<>>)
<1>1. \A es \in Seq(Entry) : Mirrored(FileOf(es), es)
  BY FileOfBody DEF Mirrored
<1>2. FileOf(<<>>) = NoFile
  BY DEF FileOf, NoFile
<1>3. <<>> \in Seq(Entry)
  OBVIOUS
<1>4. Mirrored(FileOf(<<>>), <<>>)
  BY <1>1, <1>3
<1> QED BY <1>1, <1>2, <1>4

\* The first entries of a sequence, without the last.
LEMMA FrontFacts ==
    ASSUME NEW es \in Seq(Entry), es # <<>>
    PROVE  /\ Front(es) \in Seq(Entry) /\ Len(Front(es)) = Len(es) - 1
           /\ \A i \in 1..(Len(es) - 1) : Front(es)[i] = es[i]
<1> DEFINE n == Len(es) - 1
<1>1. n \in Nat /\ n <= Len(es)
  OBVIOUS
<1>2. Front(es) = SubSeq(es, 1, n)
  BY DEF Front
<1> HIDE DEF n
<1>3. /\ Front(es) \in Seq(Entry) /\ Len(Front(es)) = n
      /\ \A i \in 1..n : Front(es)[i] = es[i]
  BY <1>1, <1>2
<1> QED BY <1>3 DEF n

\* The line of the last entry joins a file that mirrors the others.
LEMMA MirroredAfterWrite ==
    ASSUME NEW f \in File, f.tail = <<>>, NEW es \in Seq(Entry), es # <<>>,
           Mirrored(f, Front(es))
    PROVE  Mirrored(WriteTail(f, Written("whole", Last(es))), es)
<1> DEFINE w == Written("whole", Last(es))
           b == Body(f)
           c == Body(WriteTail(f, w))
           n == Len(es)
<1>1. n \in Nat \ {0} /\ es[n] \in Entry /\ Last(es) = es[n]
  BY DEF Last
<1>2. w \in Chunk
  BY <1>1 DEF Written, Chunk
<1>3. b = f.lines /\ c = Append(f.lines, <<w>>) /\ f.lines \in Seq(Line)
  BY <1>2, WriteTailBody DEF File
<1>4. /\ Front(es) \in Seq(Entry) /\ Len(Front(es)) = n - 1
      /\ \A i \in 1..(n - 1) : Front(es)[i] = es[i]
  BY FrontFacts
<1>5. Len(b) = n - 1
  BY <1>4, MirroredLength
<1>6. \A i \in 1..(n - 1) : b[i] = <<Written("whole", es[i])>>
  BY <1>4 DEF Mirrored
<1>7. c = Append(b, <<w>>) /\ b \in Seq(Line) /\ w = Written("whole", es[n])
  BY <1>1, <1>3
<1> HIDE DEF b, c, w, n
<1>a. <<w>> \in Line
  BY <1>2 DEF Line
<1>8. DOMAIN c = 1..n /\ \A i \in 1..n : c[i] = IF i < n THEN b[i] ELSE <<w>>
  BY <1>1, <1>5, <1>7
<1>9. \A i \in 1..n : c[i] = <<Written("whole", es[i])>>
  BY <1>1, <1>6, <1>7, <1>8
<1>10. c = [i \in 1..n |-> c[i]]
  <2>1. c \in Seq(Line)
    BY <1>7, <1>a
  <2> QED BY <1>8, <2>1
<1> QED BY <1>9, <1>10 DEF Mirrored, c, w, n

-----------------------------------------------------------------------------
(* Memory and file.                                                        *)

\* The first entries of an append's memory are those it found.
LEMMA FrontOfAppend ==
    ASSUME NEW es \in Seq(Entry), NEW e \in Entry
    PROVE  Front(Append(es, e)) = es
<1>1. Len(Append(es, e)) - 1 = Len(es)
  OBVIOUS
<1>2. Front(Append(es, e)) = SubSeq(Append(es, e), 1, Len(es))
  BY <1>1 DEF Front
<1> QED BY <1>2

\* Every step keeps memory and file in agreement.
LEMMA MirrorKeeps ==
    ASSUME IInv, MirrorInv, SpoolStep PROVE MirrorInv'
<1>0. /\ file \in File /\ entries \in Seq(Entry) /\ nextSeq \in Nat \ {0}
      /\ AscendingFile(file) /\ unsent \subseteq Qsos
  BY DEF IInv, TypeOK, ImagesInv, Found
<1>1. CASE OpenClean
  <2>1. op' = Idle /\ file' = file /\ entries' = Parsed(file) /\ Clean(file)
    BY <1>1 DEF OpenClean, OpenReading, disk
  <2>2. Mirrored(file', entries')
    BY <1>0, <2>1, ReadIsMirrored
  <2> QED BY <2>1, <2>2 DEF MirrorInv, At, Idle
<1>2. CASE OpenTruncated
  BY <1>2 DEF OpenTruncated, OpenReading, MirrorInv, At, Quiet, Idle
<1>3. CASE OpenCorrupt
  <2>1. op' = Idle /\ file' = NoFile /\ entries' = <<>>
    BY <1>3 DEF OpenCorrupt, OpenReading, Forget
  <2> QED BY <2>1, RewrittenIsMirrored DEF MirrorInv, At, Idle
<1>4. ASSUME NEW q \in Qsos, BeginAppend(q) PROVE MirrorInv'
  <2> DEFINE e == [seq |-> nextSeq, adif |-> q]
  <2>1. e \in Entry
    BY <1>0 DEF Entry
  <2>2. opened /\ op = Idle /\ opened' = opened /\ stale' = stale /\ file' = file
    BY <1>4 DEF BeginAppend, disk
  <2>3. \/ op' = [call |-> "append", at |-> "rename"]
        \/ entries' = Append(entries, e) /\ op' = [call |-> "append", at |-> "line"]
    BY <1>4 DEF BeginAppend
  <2>4. CASE op' = [call |-> "append", at |-> "rename"]
    BY <2>4 DEF MirrorInv, Quiet, At, Idle
  <2>5. CASE entries' = Append(entries, e) /\ op' = [call |-> "append", at |-> "line"]
    <3>1. ~stale => Mirrored(file, entries)
      BY <2>2 DEF MirrorInv, Quiet
    <3>2. Front(entries') = entries
      BY <1>0, <2>1, <2>5, FrontOfAppend
    <3> QED BY <2>2, <2>5, <3>1, <3>2 DEF MirrorInv, Quiet, At, Idle
  <2> QED BY <2>3, <2>4, <2>5
<1>5. ASSUME NEW s \in Nat, BeginRemove(s) PROVE MirrorInv'
  BY <1>5 DEF BeginRemove, MirrorInv, Quiet, At, Idle
<1>6. CASE WriteLine
  <2>1. /\ At("line") /\ op' = [op EXCEPT !.at = "newline"]
        /\ file' = WriteTail(file, Written("whole", Last(entries)))
        /\ entries' = entries /\ opened' = opened
        /\ stale' = (stale \/ file.tail # <<>>)
    BY <1>6 DEF WriteLine, Goto, Glue, memory
  <2>2. entries # <<>> /\ opened
    BY <2>1, LineShape DEF IInv, OpShape, At
  <2>3. op'.at = "newline"
    BY <2>1 DEF IInv, TypeOK
  <2>4. ASSUME ~stale' PROVE Mirrored(file', entries')
    <3>1. file.tail = <<>> /\ Mirrored(file, Front(entries))
      BY <2>1, <2>2, <2>4 DEF MirrorInv
    <3> QED BY <1>0, <2>1, <2>2, <3>1, MirroredAfterWrite
  <2> QED BY <2>3, <2>4 DEF MirrorInv, At
<1>7. CASE WriteNewline
  <2>1. /\ At("newline") /\ op' = [op EXCEPT !.at = "sync"] /\ file' = EndLine(file)
        /\ entries' = entries /\ opened' = opened /\ stale' = stale
    BY <1>7 DEF WriteNewline, Goto, memory, past
  <2>2. Body(file') = Body(file)
    BY <1>0, <2>1, EndLineBody DEF IInv, LastWritten
  <2>3. op'.at = "sync"
    BY <2>1 DEF IInv, TypeOK
  <2> QED BY <2>1, <2>2, <2>3 DEF MirrorInv, Quiet, At, Mirrored
<1>8. CASE SyncData
  BY <1>8 DEF SyncData, memory, MirrorInv, Quiet, At, Idle
<1>9. CASE Rename
  <2>1. /\ op' = [op EXCEPT !.at = "syncdir"] /\ file' = FileOf(entries) /\ entries' = entries
        /\ At("rename")
    BY <1>9 DEF Rename, Renamed, Goto, memory
  <2>2. op' # Idle /\ op'.at = "syncdir"
    BY <2>1 DEF IInv, TypeOK, Idle
  <2>3. Mirrored(file', entries')
    BY <1>0, <2>1, RewrittenIsMirrored
  <2> QED BY <2>2, <2>3 DEF MirrorInv, Quiet, At
<1>10. CASE SyncDir
  <2>1. At("syncdir") /\ op' = Idle /\ file' = file /\ entries' = entries /\ stale' = stale
    BY <1>10 DEF SyncDir, memory
  <2> QED BY <2>1 DEF MirrorInv, At, Idle
<1>11. CASE IoError
  BY <1>11 DEF IoError, IInv, OpShape, MirrorInv, At, Idle
<1>12. CASE LostWrite
  <2>1. CASE LostRewrite
    BY <2>1 DEF LostRewrite, MirrorInv
  <2>2. CASE LostNewline
    <3>1. /\ At("newline") /\ op' = [op EXCEPT !.at = "sync"]
          /\ UNCHANGED <<file, entries, opened, stale>>
      BY <2>2 DEF LostNewline, Goto, disk, memory, past
    <3>2. op'.at = "sync"
      BY <3>1 DEF IInv, TypeOK
    <3> QED BY <3>1, <3>2 DEF MirrorInv, Quiet, At
  <2> QED BY <1>12, <2>1, <2>2 DEF LostWrite
<1>13. CASE Crash \/ Halt
  BY <1>13 DEF Crash, Kill, PowerLoss, Halt, Stop, MirrorInv, At, Idle
<1>14. CASE UNCHANGED spoolVars
  BY <1>14 DEF spoolVars, disk, memory, past, MirrorInv, Quiet, At
<1> QED BY <1>1, <1>2, <1>3, <1>4, <1>5, <1>6, <1>7, <1>8, <1>9, <1>10, <1>11, <1>12, <1>13, <1>14
        DEF SpoolStep, OpenStep, WriteStep

-----------------------------------------------------------------------------
(* The cap.                                                                *)

\* A write adds at most one line.
LEMMA WriteTailLength ==
    ASSUME NEW f \in File, NEW c \in Chunk
    PROVE  /\ Len(Body(f)) \in Nat
           /\ Len(Body(WriteTail(f, c))) <= Len(Body(f)) + 1
<1>1. f.lines \in Seq(Line) /\ f.tail \in Seq(Chunk)
  BY DEF File
<1>2. CASE f.tail = <<>>
  <2>1. Body(f) = f.lines /\ Body(WriteTail(f, c)) = Append(f.lines, <<c>>)
    BY <1>2, WriteTailBody
  <2> QED BY <1>1, <2>1
<1>3. CASE f.tail # <<>>
  <2>1. /\ Body(f) = Append(f.lines, f.tail)
        /\ Body(WriteTail(f, c)) = Append(f.lines, Append(f.tail, c))
    BY <1>3, WriteTailBody
  <2> QED BY <1>1, <2>1
<1> QED BY <1>2, <1>3

\* The lengths of a removal, an append and an eviction.
LEMMA RemoveAtLength ==
    ASSUME NEW es \in Seq(Entry), NEW k \in DOMAIN es
    PROVE  Len(RemoveAt(es, k)) = Len(es) - 1
<1> DEFINE before == SubSeq(es, 1, k - 1)
           after == SubSeq(es, k + 1, Len(es))
<1>1. k \in 1..Len(es) /\ Len(es) \in Nat
  OBVIOUS
<1>2. before \in Seq(Entry) /\ Len(before) = k - 1
  BY <1>1
<1>3. after \in Seq(Entry) /\ Len(after) = Len(es) - k
  BY <1>1
<1>4. RemoveAt(es, k) = before \o after
  BY DEF RemoveAt
<1> HIDE DEF before, after
<1> QED BY <1>1, <1>2, <1>3, <1>4

LEMMA EvictedLength ==
    ASSUME NEW es \in Seq(Entry), NEW n \in Nat \ {0}, Len(es) > n
    PROVE  Len(SubSeq(es, Len(es) - n + 1, Len(es))) = n
OBVIOUS

\* Every step keeps to the cap.
LEMMA CapKeeps ==
    ASSUME IInv, CapInv, SpoolStep PROVE CapInv'
<1>0. /\ file \in File /\ entries \in Seq(Entry) /\ nextSeq \in Nat \ {0}
      /\ images \subseteq File /\ older \subseteq File /\ file \in images
      /\ AscendingFile(file) /\ unsent \subseteq Qsos
      /\ MaxQueueLen \in Nat \ {0}
  BY BoundsAssumption DEF IInv, TypeOK, ImagesInv, Found
<1>a. \A f \in File : Len(Body(f)) \in Nat
  BY BodyType
<1>b. Len(Body(NoFile)) = 0 /\ Len(<<>>) = 0
  BY NoFileFacts
<1> SUFFICES ASSUME ioErrors' = 0 PROVE CapInv'
  BY DEF CapInv
<1>1. CASE OpenClean
  <2>1. /\ op' = Idle /\ file' = file /\ entries' = Parsed(file) /\ Clean(file)
        /\ Found' = Found /\ file \in Found /\ ioErrors' = ioErrors
    BY <1>0, <1>1 DEF Found, OpenClean, OpenReading, disk, faults
  <2>2. /\ Parsed(file) \in Seq(Entry) /\ Mirrored(file, Parsed(file))
        /\ Len(Parsed(file)) <= Len(Body(file))
    BY <1>0, <2>1, ParsedFacts, ReadIsMirrored
  <2>3. Len(Body(file)) = Len(Parsed(file))
    BY <1>0, <2>2, MirroredLength
  <2>4. Len(Body(file)) <= MaxQueueLen
    BY <1>0, <2>1 DEF CapInv
  <2>5. Len(entries') <= MaxQueueLen /\ Len(Body(file')) <= Len(entries')
    BY <1>0, <1>a, <2>1, <2>3, <2>4
  <2> QED BY <2>1, <2>5 DEF CapInv, At, Idle
<1>2. CASE OpenTruncated
  <2>1. /\ entries' = Parsed(file) /\ Truncated(file) /\ op' = [call |-> "open", at |-> "rename"]
        /\ Found' = Found /\ file \in Found /\ ioErrors' = ioErrors
    BY <1>0, <1>2 DEF Found, OpenTruncated, OpenReading, disk, faults
  <2>2. Parsed(file) \in Seq(Entry) /\ Len(Parsed(file)) <= Len(Body(file))
    BY <1>0, <2>1, ParsedFacts, ReadIsMirrored
  <2>3. Len(Body(file)) <= MaxQueueLen
    BY <1>0, <2>1 DEF CapInv
  <2>4. Len(entries') <= MaxQueueLen
    BY <1>0, <1>a, <2>1, <2>2, <2>3
  <2> QED BY <2>1, <2>4 DEF CapInv, Quiet, At, Idle
<1>3. CASE OpenCorrupt
  <2>1. /\ op' = Idle /\ file' = NoFile /\ entries' = <<>>
        /\ Found' = Found \cup {NoFile} /\ ioErrors' = ioErrors
    BY <1>3 DEF Found, OpenCorrupt, OpenReading, Forget, faults
  <2> QED BY <1>0, <1>b, <2>1 DEF CapInv, At, Idle
<1>4. ASSUME NEW q \in Qsos, BeginAppend(q) PROVE CapInv'
  <2> DEFINE e == [seq |-> nextSeq, adif |-> q]
             pushed == Append(entries, e)
             kept == SubSeq(pushed, Len(pushed) - MaxQueueLen + 1, Len(pushed))
  <2>1. e \in Entry
    BY <1>0 DEF Entry
  <2>2. pushed \in Seq(Entry) /\ Len(pushed) = Len(entries) + 1
    BY <1>0, <2>1
  <2>3. /\ opened /\ op = Idle /\ file' = file /\ Found' = Found
        /\ ioErrors' = ioErrors
    BY <1>4 DEF Found, BeginAppend, disk, faults
  <2>4. /\ Len(entries) <= MaxQueueLen /\ Len(Body(file)) <= Len(entries)
        /\ \A f \in Found : Len(Body(f)) <= MaxQueueLen
    BY <2>3 DEF CapInv, Quiet
  <2>5. IF Len(pushed) > MaxQueueLen
          THEN entries' = kept /\ op' = [call |-> "append", at |-> "rename"]
          ELSE entries' = pushed /\ op' = [call |-> "append", at |-> "line"]
    BY <1>4 DEF BeginAppend, OverCap
  <2> HIDE DEF pushed, e
  <2>6. CASE Len(pushed) > MaxQueueLen
    <3>1. Len(kept) = MaxQueueLen
      BY <1>0, <2>2, <2>6, EvictedLength
    <3>2. Len(entries') <= MaxQueueLen /\ op' = [call |-> "append", at |-> "rename"]
      BY <1>0, <2>5, <2>6, <3>1
    <3> QED BY <2>3, <2>4, <3>2 DEF CapInv, Quiet, At, Idle
  <2>7. CASE ~(Len(pushed) > MaxQueueLen)
    <3>1. entries' = pushed /\ op' = [call |-> "append", at |-> "line"]
      BY <2>5, <2>7
    <3>2. Len(entries') <= MaxQueueLen /\ Len(Body(file')) < Len(entries')
      BY <1>0, <1>a, <2>2, <2>3, <2>4, <2>7, <3>1
    <3> QED BY <2>3, <2>4, <3>1, <3>2 DEF CapInv, Quiet, At, Idle
  <2> QED BY <2>6, <2>7
<1>5. ASSUME NEW s \in Nat, BeginRemove(s) PROVE CapInv'
  <2>1. /\ op' = [call |-> "remove", at |-> "rename"] /\ Found' = Found
        /\ ioErrors' = ioErrors
    BY <1>5 DEF Found, BeginRemove, disk, faults
  <2>2. PICK i \in DOMAIN entries : entries' = RemoveAt(entries, i)
    BY <1>5 DEF BeginRemove
  <2>3. Len(entries') <= MaxQueueLen
    <3>1. Len(entries') = Len(entries) - 1 /\ Len(entries) <= MaxQueueLen
      BY <1>0, <2>1, <2>2, RemoveAtLength DEF CapInv
    <3> QED BY <1>0, <3>1
  <2> QED BY <2>1, <2>3 DEF CapInv, Quiet, At, Idle
<1>6. CASE WriteLine
  <2> DEFINE w == Written("whole", Last(entries))
             cut == CutShort(Last(entries))
  <2>1. /\ At("line") /\ op' = [op EXCEPT !.at = "newline"]
        /\ file' = WriteTail(file, w)
        /\ Found' = Found \cup {file'} \cup {WriteTail(file, c) : c \in cut}
        /\ entries' = entries /\ ioErrors' = ioErrors
    BY <1>6 DEF Found, WriteLine, Goto, memory, faults
  <2>2. op'.at = "newline"
    BY <2>1 DEF IInv, TypeOK
  <2>3. op.call = "append"
    BY <2>1, LineShape DEF At
  <2>4. w \in Chunk /\ cut \subseteq Chunk
    BY <2>3, LastFacts, CutShortFacts
  <2>5. /\ Len(entries) <= MaxQueueLen /\ Len(Body(file)) < Len(entries)
        /\ \A f \in Found : Len(Body(f)) <= MaxQueueLen
    BY <2>1 DEF CapInv
  <2>6. ASSUME NEW c \in Chunk PROVE Len(Body(WriteTail(file, c))) <= Len(entries)
    <3>1. WriteTail(file, c) \in File
      BY <1>0, WriteTailBody
    <3>2. Len(Body(WriteTail(file, c))) <= Len(Body(file)) + 1
      BY <1>0, WriteTailLength
    <3> QED BY <1>0, <1>a, <2>5, <3>1, <3>2
  <2> HIDE DEF w, cut
  <2>7. ASSUME NEW f \in Found' PROVE Len(Body(f)) <= MaxQueueLen
    <3>1. CASE f \in Found
      BY <2>5, <3>1
    <3>2. CASE f \notin Found
      <4>1. PICK c \in Chunk : f = WriteTail(file, c)
        BY <2>1, <2>4, <3>2
      <4>2. f \in File
        BY <1>0, <4>1, WriteTailBody
      <4>3. Len(Body(f)) <= Len(entries) /\ Len(Body(f)) \in Nat
        BY <1>a, <2>6, <4>1, <4>2
      <4> QED BY <1>0, <2>5, <4>3
    <3> QED BY <3>1, <3>2
  <2>8. Len(Body(file')) <= Len(entries')
    BY <2>1, <2>4, <2>6
  <2> QED BY <2>1, <2>2, <2>5, <2>7, <2>8 DEF CapInv, At
<1>7. CASE WriteNewline
  <2>1. /\ At("newline") /\ op' = [op EXCEPT !.at = "sync"] /\ file' = EndLine(file)
        /\ entries' = entries /\ opened' = opened /\ ioErrors' = ioErrors
        /\ Found' = Found \cup {file'} /\ file \in Found
    BY <1>0, <1>7 DEF Found, WriteNewline, Goto, memory, faults
  <2>2. Body(file') = Body(file)
    BY <1>0, <2>1, EndLineBody DEF IInv, LastWritten
  <2>3. op'.at = "sync"
    BY <2>1 DEF IInv, TypeOK
  <2> QED BY <1>0, <2>1, <2>2, <2>3 DEF CapInv, Quiet, At
<1>8. CASE SyncData
  <2>1. /\ At("sync") /\ op' = Idle /\ file' = file /\ Found' \subseteq Found
        /\ UNCHANGED <<entries, opened, ioErrors>>
    BY <1>0, <1>8 DEF SyncData, Synced, Found, memory, faults
  <2> QED BY <2>1 DEF CapInv, Quiet, At, Idle
<1>9. CASE Rename
  <2>1. /\ op' = [op EXCEPT !.at = "syncdir"] /\ file' = FileOf(entries)
        /\ Found' = Found \cup {file'} /\ entries' = entries /\ ioErrors' = ioErrors
    BY <1>9 DEF Rename, Renamed, Found, Goto, memory, faults
  <2>2. op'.at = "syncdir" /\ op' # Idle
    BY <2>1 DEF IInv, TypeOK, Idle
  <2>3. Len(Body(file')) = Len(entries)
    BY <1>0, <2>1, FileOfBody, RewrittenIsMirrored, MirroredLength
  <2>4. Len(entries) <= MaxQueueLen /\ \A f \in Found : Len(Body(f)) <= MaxQueueLen
    BY <2>1 DEF CapInv
  <2>5. Len(Body(file')) <= Len(entries') /\ \A f \in Found' : Len(Body(f)) <= MaxQueueLen
    BY <1>0, <2>1, <2>3, <2>4
  <2> QED BY <2>1, <2>2, <2>4, <2>5 DEF CapInv, Quiet, At
<1>10. CASE SyncDir
  <2>1. /\ At("syncdir") /\ op' = Idle /\ file' = file /\ Found' \subseteq Found
        /\ UNCHANGED <<entries, ioErrors>>
    BY <1>0, <1>10 DEF SyncDir, Found, memory, faults
  <2> QED BY <2>1 DEF CapInv, At, Idle
<1>11. CASE IoError \/ LostWrite
  <2>1. ioErrors \in Nat /\ ioErrors' = ioErrors + 1
    BY <1>11, BoundsAssumption DEF IoError, LostWrite, IInv, TypeOK
  <2> QED BY <2>1
<1>12. CASE Crash \/ Halt
  <2>1. /\ op' = Idle /\ ~opened' /\ entries' = <<>> /\ ioErrors' = ioErrors
    BY <1>12 DEF Crash, Kill, PowerLoss, Halt, Stop, Forget, faults
  <2>2. Found' \subseteq Found
    BY <1>12 DEF Crash, Kill, PowerLoss, Halt, Found, disk
  <2> QED BY <1>0, <1>b, <2>1, <2>2 DEF CapInv, At, Idle
<1>13. CASE UNCHANGED spoolVars
  BY <1>13 DEF spoolVars, disk, memory, past, faults, CapInv, Found, Quiet, At
<1> QED BY <1>1, <1>2, <1>3, <1>4, <1>5, <1>6, <1>7, <1>8, <1>9, <1>10, <1>11, <1>12, <1>13
        DEF SpoolStep, OpenStep, WriteStep

-----------------------------------------------------------------------------
(* The disk without faults.                                                *)

\* While nothing has failed every line of the file is whole and, but for the
\* one being written, ended; nothing is damaged or set aside.
FaultFree ==
    crashes = 0 /\ ioErrors = 0 =>
        /\ damaged = {} /\ aside = {}
        /\ Clean(file)
        /\ At("newline") \/ file.tail = <<>>

\* Every step keeps the disk so.
LEMMA FaultFreeKeeps ==
    ASSUME IInv, FaultFree, SpoolStep PROVE FaultFree'
<1>0. file \in File /\ entries \in Seq(Entry) /\ crashes \in Nat /\ ioErrors \in Nat
  BY BoundsAssumption DEF IInv, TypeOK
<1> SUFFICES ASSUME crashes' = 0, ioErrors' = 0 PROVE FaultFree'
  BY DEF FaultFree
<1>1. CASE OpenStep
  BY <1>1 DEF OpenStep, OpenClean, OpenTruncated, OpenCorrupt, OpenReading, Corrupt,
              disk, marks, past, faults, FaultFree, At, Idle
<1>2. ASSUME NEW q \in Qsos, BeginAppend(q) PROVE FaultFree'
  BY <1>2 DEF BeginAppend, disk, faults, FaultFree, At, Idle
<1>3. ASSUME NEW s \in Nat, BeginRemove(s) PROVE FaultFree'
  BY <1>3 DEF BeginRemove, disk, faults, FaultFree, At, Idle
<1>4. CASE WriteLine
  <2>1. PICK w : w = Written("whole", Last(entries))
    OBVIOUS
  <2>2. /\ At("line") /\ op' = [op EXCEPT !.at = "newline"] /\ file' = WriteTail(file, w)
        /\ damaged' = (IF file.tail = <<>> THEN damaged
                       ELSE damaged \cup {Last(entries)} \cup {c.entry : c \in ToSet(file.tail)})
        /\ UNCHANGED <<aside, crashes, ioErrors>>
    BY <1>4, <2>1 DEF WriteLine, Glue, Goto, faults
  <2>3. damaged = {} /\ aside = {} /\ Clean(file) /\ file.tail = <<>>
    BY <2>2 DEF FaultFree, At
  <2>4. w \in Chunk /\ w.kind = "whole"
    BY <2>1, <2>2, LineShape, LastFacts DEF At, Written
  <2>5. /\ Body(file) = file.lines /\ Body(file') = Append(file.lines, <<w>>)
        /\ file.lines \in Seq(Line)
    BY <1>0, <2>2, <2>3, <2>4, WriteTailBody DEF File
  <2>6. \A i \in DOMAIN Body(file) : Good(Body(file)[i])
    BY <2>3 DEF Clean, BadLines
  <2>7. Good(<<w>>)
    BY <2>4 DEF Good
  <2>8. \A i \in DOMAIN Body(file') :
           Body(file')[i] = <<w>> \/ (i \in DOMAIN Body(file) /\ Body(file')[i] = Body(file)[i])
    BY <2>5
  <2>9. Clean(file')
    BY <2>6, <2>7, <2>8 DEF Clean, BadLines
  <2>10. op'.at = "newline"
    BY <2>2 DEF IInv, TypeOK
  <2> QED BY <2>2, <2>3, <2>9, <2>10 DEF FaultFree, At
<1>5. CASE WriteNewline
  <2>1. /\ At("newline") /\ file' = EndLine(file)
        /\ UNCHANGED <<damaged, aside, crashes, ioErrors>>
    BY <1>5 DEF WriteNewline, past, marks, faults
  <2>2. Body(file') = Body(file) /\ file'.tail = <<>>
    BY <1>0, <2>1, EndLineBody DEF IInv, LastWritten, EndLine
  <2> QED BY <2>1, <2>2 DEF FaultFree, Clean, BadLines
<1>6. CASE SyncData
  BY <1>6 DEF SyncData, faults, FaultFree, At, Idle
<1>7. CASE Rename
  <2>1. file' = FileOf(entries) /\ UNCHANGED <<damaged, aside, crashes, ioErrors>>
    BY <1>7 DEF Rename, Renamed, faults
  <2>2. file' \in File /\ Mirrored(file', entries) /\ file'.tail = <<>>
    BY <1>0, <2>1, FileOfBody, RewrittenIsMirrored DEF FileOf
  <2>3. Clean(file')
    BY <1>0, <2>2, MirroredIsRead
  <2> QED BY <2>1, <2>2, <2>3 DEF FaultFree
<1>8. CASE SyncDir
  BY <1>8 DEF SyncDir, faults, FaultFree, At, Idle
<1>9. CASE IoError \/ LostWrite \/ Crash
  <2>1. crashes' = crashes + 1 \/ ioErrors' = ioErrors + 1
    BY <1>9 DEF IoError, LostWrite, Crash, Kill, PowerLoss
  <2> QED BY <1>0, <2>1
<1>10. CASE Halt
  BY <1>10 DEF Halt, disk, past, marks, faults, FaultFree
<1>11. CASE UNCHANGED spoolVars
  BY <1>11 DEF spoolVars, disk, past, marks, faults, FaultFree, At
<1> QED BY <1>1, <1>2, <1>3, <1>4, <1>5, <1>6, <1>7, <1>8, <1>9, <1>10, <1>11
        DEF SpoolStep, WriteStep

\* Nothing is in memory or in the file at the start.
LEMMA InitMemory == Init => MirrorInv /\ CapInv /\ FaultFree
<1> SUFFICES ASSUME Init PROVE MirrorInv /\ CapInv /\ FaultFree
  OBVIOUS
<1>1. MaxQueueLen \in Nat \ {0} /\ Len(<<>>) = 0 /\ Body(NoFile) = <<>>
  BY BoundsAssumption, NoFileFacts
<1>2. FaultFree
  BY <1>1 DEF Init, FaultFree, Clean, BadLines, NoFile
<1> QED BY <1>1, <1>2 DEF Init, MirrorInv, CapInv, Found, At, Idle

\* The four invariants hold in every reachable state.
LEMMA SpoolAlways == Spec => [](IInv /\ MirrorInv /\ CapInv /\ FaultFree)
<1>1. Init => IInv /\ MirrorInv /\ CapInv /\ FaultFree
  BY InitIInv, InitMemory
<1>2. IInv /\ MirrorInv /\ CapInv /\ FaultFree /\ [Next]_vars
         => IInv' /\ MirrorInv' /\ CapInv' /\ FaultFree'
  BY NextIsSpoolStep, StepKeeps, MirrorKeeps, CapKeeps, FaultFreeKeeps
<1> QED BY <1>1, <1>2, PTL DEF Spec

\* What the invariants say of the spool.
LEMMA SpoolPromises ==
    ASSUME IInv, MirrorInv, CapInv
    PROVE  Durable /\ SeqFresh /\ SpoolMirrorsMemory /\ CapHolds
<1>1. SeqFresh
  <2> SUFFICES ASSUME opened PROVE SeqFresh
    BY DEF SeqFresh
  <2>1. /\ Ascending(entries) /\ \A i \in DOMAIN entries : entries[i].seq < nextSeq
        /\ BelowSeq(file, nextSeq)
    BY DEF IInv, SeqInv, Loading
  <2>2. \A e \in ToSet(entries) : e.seq < nextSeq
    BY <2>1 DEF ToSet
  <2> QED BY <2>1, <2>2 DEF SeqFresh, Ascending, BelowSeq
<1>2. SpoolMirrorsMemory
  <2> SUFFICES ASSUME opened, op = Idle, ~stale PROVE Clean(file) /\ Parsed(file) = entries
    BY DEF SpoolMirrorsMemory
  <2>1. Mirrored(file, entries)
    BY DEF MirrorInv, Quiet
  <2> QED BY <2>1, MirroredIsRead DEF IInv, TypeOK
<1>3. Durable
  BY DEF IInv
<1>4. CapHolds
  BY DEF CapInv, CapHolds
<1> QED BY <1>1, <1>2, <1>3, <1>4

-----------------------------------------------------------------------------
(* The theorems.                                                           *)

\* Every variable keeps its type, for any cap and any number of faults: next_seq
\* stays positive and no closed line of the file is empty.
THEOREM TypeCorrect == Spec => []TypeOK
<1>1. IInv => TypeOK
  BY DEF IInv
<1> QED BY <1>1, SpoolAlways, PTL

\* Whatever crashes, power fails or system calls fail, noticed or not, and whether
\* or not the path names a directory to sync, an acknowledged entry can be read
\* from the file until it is removed or evicted, and so after any power failure
\* if its name was on the disk when it was acknowledged: lost are only entries
\* whose line was glued, that an unseen write failure left out, or in a file set
\* aside.
THEOREM DurableAlways == Spec => []Durable
BY SpoolAlways, SpoolPromises, PTL

\* The next_seq that open computes and append advances never collides with a seq
\* in memory or on a readable line, so that remove takes the entry meant.
THEOREM SeqFreshAlways == Spec => []SeqFresh
BY SpoolAlways, SpoolPromises, PTL

\* Between operations the file parses to exactly the entries in memory, through
\* evictions, removals, recoveries and crashes at any step, for any cap: a remove
\* and a replay see what the file holds, unless a call failed or a line was damaged.
THEOREM SpoolMirrorsMemoryAlways == Spec => []SpoolMirrorsMemory
BY SpoolAlways, SpoolPromises, PTL

\* While no system call fails the spool holds at most MAX_QUEUE_LEN entries, in
\* memory and in whatever file a crash leaves, also when replays begin with the
\* most a file may hold.
THEOREM CapHoldsAlways == Spec => []CapHolds
BY SpoolAlways, SpoolPromises, PTL

=============================================================================
