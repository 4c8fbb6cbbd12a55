------------------------- MODULE WsBroadcastProofs --------------------------
(***************************************************************************)
(* Proofs about WsBroadcast: the types, and that a client is never shown   *)
(* frames with a gap between them, whatever the number of clients and the  *)
(* capacity of the channel.                                                *)
(***************************************************************************)
EXTENDS WsBroadcast, TLAPS, SequenceTheorems

\* The number after n.
Succ(n) == (n + 1) % Numbers

\* Numbers stay in range.
LEMMA SuccType == \A n \in 0..(Numbers - 1) : Succ(n) \in 0..(Numbers - 1)
  BY NumbersAssumption DEF Succ

\* What the channel holds after frame f was sent.
LEMMA KeptFrames ==
    ASSUME NEW s \in Seq(Frames), Len(s) <= ChannelCapacity, NEW f \in Frames
    PROVE  /\ Kept(Append(s, f)) \in Seq(Frames)
           /\ Len(Kept(Append(s, f))) = IF Len(s) = ChannelCapacity THEN Len(s) ELSE Len(s) + 1
           /\ Kept(Append(s, f))[Len(Kept(Append(s, f)))] = f
           /\ \A i \in 1..(Len(Kept(Append(s, f))) - 1) :
                 Kept(Append(s, f))[i] = s[i + Len(s) + 1 - Len(Kept(Append(s, f)))]
<1> DEFINE a == Append(s, f)
           k == Kept(a)
<1>0. SUFFICES /\ k \in Seq(Frames)
               /\ Len(k) = IF Len(s) = ChannelCapacity THEN Len(s) ELSE Len(s) + 1
               /\ k[Len(k)] = f
               /\ \A i \in 1..(Len(k) - 1) : k[i] = s[i + Len(s) + 1 - Len(k)]
  OBVIOUS
<1>1. /\ a \in Seq(Frames) /\ Len(a) = Len(s) + 1 /\ a[Len(s) + 1] = f
      /\ \A i \in 1..Len(s) : a[i] = s[i]
  BY AppendProperties
<1>2. Len(s) \in Nat /\ ChannelCapacity \in Nat /\ ChannelCapacity > 0
  BY LenProperties, CapacityAssumption
<1>3. k = IF Len(a) > ChannelCapacity THEN Tail(a) ELSE a
  BY DEF Kept
<1> HIDE DEF a, k
<1>4. CASE Len(s) = ChannelCapacity
  <2>1. k = Tail(a)
    BY <1>1, <1>2, <1>3, <1>4
  <2>2. a # << >>
    BY <1>1, <1>2, EmptySeq
  <2>3. /\ Tail(a) \in Seq(Frames) /\ Len(Tail(a)) = Len(a) - 1
        /\ \A i \in 1..Len(Tail(a)) : Tail(a)[i] = a[i + 1]
    BY <1>1, <2>2, HeadTailProperties
  <2>4. Len(k) = Len(s) /\ k \in Seq(Frames)
    BY <1>1, <1>2, <2>1, <2>3
  <2>5. \A i \in 1..Len(s) : k[i] = a[i + 1]
    BY <2>1, <2>3, <2>4
  <2>6. k[Len(k)] = f
    BY <1>1, <1>2, <1>4, <2>4, <2>5
  <2>7. ASSUME NEW i \in 1..(Len(k) - 1) PROVE k[i] = s[i + Len(s) + 1 - Len(k)]
    <3>1. i \in 1..Len(s) /\ i + 1 \in 1..Len(s) /\ i + Len(s) + 1 - Len(k) = i + 1
      BY <1>2, <2>4
    <3>2. k[i] = a[i + 1]
      BY <2>5, <3>1
    <3>3. a[i + 1] = s[i + 1]
      BY <1>1, <3>1
    <3> QED BY <3>1, <3>2, <3>3
  <2> QED BY <1>4, <2>4, <2>6, <2>7
<1>5. CASE Len(s) # ChannelCapacity
  <2>1. k = a /\ Len(k) = Len(s) + 1
    BY <1>1, <1>2, <1>3, <1>5
  <2>2. ASSUME NEW i \in 1..(Len(k) - 1) PROVE k[i] = s[i + Len(s) + 1 - Len(k)]
    <3>1. i \in 1..Len(s) /\ i + Len(s) + 1 - Len(k) = i
      BY <1>2, <2>1
    <3> QED BY <1>1, <2>1, <3>1
  <2> QED BY <1>1, <1>5, <2>1, <2>2
<1> QED BY <1>4, <1>5

-----------------------------------------------------------------------------
(* Types.                                                                  *)

\* The types, with the rig's state, which TypeOK leaves out.
Typed == TypeOK /\ rig \in States

\* What a task may read next: the frames kept are consecutive up to the last
\* one sent, and what a client has not taken continues what it has.
RunsOn == /\ \A i \in 1..(Len(kept) - 1) : kept[i + 1].number = Succ(kept[i].number)
          /\ kept # << >> => kept[Len(kept)].number = number

Fresh(c) == task[c] \in {"out", "upgraded"} => behind[c] = 0 /\ frame[c] = NoFrame

Reach(c) == Subscribed(c) /\ behind[c] <= ChannelCapacity => behind[c] <= Len(kept)

Follows(c) ==
    Subscribed(c) /\ behind[c] <= ChannelCapacity /\ frame[c] # NoFrame =>
        IF behind[c] = 0 THEN frame[c].number = number
        ELSE kept[Len(kept) - behind[c] + 1].number = Succ(frame[c].number)

IInv == Typed /\ RunsOn /\ \A c \in Clients : Fresh(c) /\ Reach(c) /\ Follows(c)

\* It holds at first.
LEMMA InitIInv == Init => IInv
<1> SUFFICES ASSUME Init PROVE IInv
  OBVIOUS
<1>1. Len(kept) = 0 /\ kept \in Seq(Frames)
  BY EmptySeq DEF Init
<1>2. Typed
  <2>1. 0 \in 0..(Numbers - 1) /\ 0 \in 0..(ChannelCapacity + 1) /\ 0 <= ChannelCapacity
    BY CapacityAssumption, NumbersAssumption
  <2> QED BY <1>1, <2>1 DEF Init, Typed, TypeOK
<1>3. RunsOn
  BY <1>1 DEF Init, RunsOn
<1>4. ASSUME NEW c \in Clients PROVE Fresh(c) /\ Reach(c) /\ Follows(c)
  BY <1>1, <1>4 DEF Init, Fresh, Reach, Follows
<1> QED BY <1>2, <1>3, <1>4 DEF IInv

\* A broadcast keeps the types and the order.
LEMMA BroadcastKeeps == ASSUME IInv, Broadcast PROVE IInv'
<1> DEFINE next == [number |-> Succ(number), state |-> rig]
<1>1. next \in Frames
  BY SuccType DEF IInv, Typed, TypeOK, Frames
<1>2. kept \in Seq(Frames) /\ Len(kept) <= ChannelCapacity /\ Len(kept) \in Nat
  BY LenProperties DEF IInv, Typed, TypeOK
<1>3. /\ kept' = Kept(Append(kept, next)) /\ number' = next.number
      /\ behind' = [c \in Clients |->
                       IF Subscribed(c) /\ behind[c] <= ChannelCapacity THEN behind[c] + 1
                       ELSE behind[c]]
      /\ UNCHANGED <<rig, shutdown, serving, task, frame>>
  BY DEF Broadcast, Succ
<1>4. number' = Succ(number)
  BY <1>3
<1>4a. next.number = Succ(number)
  OBVIOUS
<1> HIDE DEF next
<1>5. /\ kept' \in Seq(Frames)
      /\ Len(kept') = IF Len(kept) = ChannelCapacity THEN Len(kept) ELSE Len(kept) + 1
      /\ kept'[Len(kept')] = next
      /\ \A i \in 1..(Len(kept') - 1) : kept'[i] = kept[i + Len(kept) + 1 - Len(kept')]
  <2> DEFINE k == Kept(Append(kept, next))
  <2>1. /\ k \in Seq(Frames)
        /\ Len(k) = IF Len(kept) = ChannelCapacity THEN Len(kept) ELSE Len(kept) + 1
        /\ k[Len(k)] = next
        /\ \A i \in 1..(Len(k) - 1) : k[i] = kept[i + Len(kept) + 1 - Len(k)]
    BY <1>1, <1>2, KeptFrames
  <2>2. kept' = k
    BY <1>3
  <2> HIDE DEF k
  <2> QED BY <2>1, <2>2
<1>6. ChannelCapacity \in Nat /\ ChannelCapacity > 0
  BY CapacityAssumption
<1>7. Typed'
  <2>1. number' \in 0..(Numbers - 1)
    BY <1>4, SuccType DEF IInv, Typed, TypeOK
  <2>2. behind' \in [Clients -> 0..(ChannelCapacity + 1)]
    BY <1>3, <1>6 DEF IInv, Typed, TypeOK
  <2>3. kept' \in Seq(Frames) /\ Len(kept') <= ChannelCapacity
    BY <1>2, <1>5, <1>6
  <2> QED BY <1>3, <2>1, <2>2, <2>3 DEF IInv, Typed, TypeOK
<1>8. RunsOn'
  <2>1. kept'[Len(kept')].number = number'
    BY <1>3, <1>5
  <2>2. ASSUME NEW i \in 1..(Len(kept') - 1)
        PROVE  kept'[i + 1].number = Succ(kept'[i].number)
    <3> DEFINE j == i + Len(kept) + 1 - Len(kept')
    <3>0. kept'[i] = kept[j]
      BY <1>5
    <3>1. j \in 1..Len(kept)
      BY <1>2, <1>5, <1>6
    <3>2. CASE i + 1 = Len(kept')
      <4>1. j = Len(kept)
        BY <1>2, <1>5, <1>6, <3>2
      <4>2. kept[Len(kept)].number = number
        <5>1. kept # << >>
          BY <1>2, <3>1, <4>1, EmptySeq
        <5> QED BY <5>1 DEF IInv, RunsOn
      <4> QED BY <1>4, <2>1, <3>0, <3>2, <4>1, <4>2
    <3>3. CASE i + 1 # Len(kept')
      <4>1. i + 1 \in 1..(Len(kept') - 1) /\ j \in 1..(Len(kept) - 1)
        BY <1>2, <1>5, <1>6, <3>3
      <4>2. kept'[i + 1] = kept[j + 1]
        <5>1. (i + 1) + Len(kept) + 1 - Len(kept') = j + 1
          BY <1>2, <1>5, <1>6
        <5>2. kept'[i + 1] = kept[(i + 1) + Len(kept) + 1 - Len(kept')]
          BY <1>5, <4>1
        <5> QED BY <5>1, <5>2
      <4>3. kept[j + 1].number = Succ(kept[j].number)
        <5> HIDE DEF j
        <5> QED BY <4>1 DEF IInv, RunsOn
      <4> QED BY <3>0, <4>2, <4>3
    <3> QED BY <3>2, <3>3
  <2> QED BY <2>1, <2>2 DEF RunsOn
<1>9. ASSUME NEW c \in Clients PROVE Fresh(c)' /\ Reach(c)' /\ Follows(c)'
  <2>1. /\ Fresh(c) /\ Reach(c) /\ Follows(c) /\ behind[c] \in 0..(ChannelCapacity + 1)
        /\ task' = task /\ frame' = frame /\ Subscribed(c)' = Subscribed(c)
        /\ behind'[c] = IF Subscribed(c) /\ behind[c] <= ChannelCapacity THEN behind[c] + 1
                        ELSE behind[c]
    BY <1>3 DEF IInv, Typed, TypeOK, Subscribed
  <2>2. CASE ~Subscribed(c)
    BY <2>1, <2>2 DEF Fresh, Reach, Follows
  <2>3. CASE Subscribed(c)
    <3>1. Fresh(c)'
      BY <2>1, <2>3 DEF Fresh, Subscribed
    <3>2. CASE behind[c] >= ChannelCapacity
      <4>1. behind'[c] > ChannelCapacity /\ behind'[c] \in Nat
        BY <1>6, <2>1, <2>3, <3>2
      <4> QED BY <1>6, <3>1, <4>1 DEF Reach, Follows
    <3>3. CASE behind[c] < ChannelCapacity
      <4>1. behind'[c] = behind[c] + 1 /\ behind[c] <= Len(kept) /\ behind'[c] <= Len(kept')
        BY <1>2, <1>5, <1>6, <2>1, <2>3, <3>3 DEF Reach
      <4>2. ASSUME frame[c] # NoFrame
            PROVE  kept'[Len(kept') - behind'[c] + 1].number = Succ(frame[c].number)
        <5>1. CASE behind[c] = 0
          <6>1. frame[c].number = number
            BY <2>1, <2>3, <1>6, <4>2, <5>1 DEF Follows
          <6>2. Len(kept') - behind'[c] + 1 = Len(kept')
            BY <1>2, <1>5, <1>6, <4>1, <5>1
          <6> QED BY <1>3, <1>4, <1>5, <6>1, <6>2
        <5>2. CASE behind[c] # 0
          <6>1. kept[Len(kept) - behind[c] + 1].number = Succ(frame[c].number)
            BY <2>1, <2>3, <3>3, <1>6, <4>2, <5>2 DEF Follows
          <6> DEFINE i == Len(kept') - behind'[c] + 1
          <6>1a. Len(kept') \in Nat /\ behind[c] \in Nat /\ behind[c] + 1 <= Len(kept')
            BY <1>2, <1>5, <1>6, <2>1, <4>1
          <6>2. i \in 1..(Len(kept') - 1) /\ i + Len(kept) + 1 - Len(kept') = Len(kept) - behind[c] + 1
            <7>1. i = Len(kept') - behind[c]
              BY <1>2, <4>1, <6>1a
            <7> QED BY <1>2, <5>2, <6>1a, <7>1
          <6>3. kept'[i] = kept[i + Len(kept) + 1 - Len(kept')]
            BY <1>5, <6>2
          <6> QED BY <6>1, <6>2, <6>3
        <5> QED BY <5>1, <5>2
      <4>3. behind'[c] # 0
        BY <2>1, <4>1
      <4> QED BY <2>1, <3>1, <4>1, <4>2, <4>3 DEF Reach, Follows
    <3> QED BY <1>6, <2>1, <3>2, <3>3
  <2> QED BY <2>2, <2>3
<1> QED BY <1>7, <1>8, <1>9 DEF IInv

\* A client's task takes its next frame, which is one that the channel still
\* holds and the one after the last it took.
LEMMA TakeFrameKeeps ==
    ASSUME IInv, NEW c \in Clients, TakeFrame(c)
    PROVE  /\ IInv'
           /\ frame[c] # NoFrame => frame'[c].number = Succ(frame[c].number)
<1> DEFINE i == Len(kept) - behind[c] + 1
<1>1. kept \in Seq(Frames) /\ Len(kept) \in Nat /\ Len(kept) <= ChannelCapacity
      /\ ChannelCapacity \in Nat /\ behind[c] \in 1..ChannelCapacity
  BY LenProperties, CapacityAssumption DEF IInv, Typed, TypeOK, TakeFrame
<1>2. Subscribed(c) /\ behind[c] <= Len(kept)
  BY <1>1 DEF IInv, TakeFrame, Subscribed, Reach
<1>3. i \in 1..Len(kept) /\ kept[i] \in Frames
  BY <1>1, <1>2, ElementOfSeq
<1>4. /\ frame' = [frame EXCEPT ![c] = kept[i]] /\ behind' = [behind EXCEPT ![c] = @ - 1]
      /\ task' = [task EXCEPT ![c] = "sending"]
      /\ UNCHANGED <<rig, shutdown, serving, number, kept>>
  BY DEF TakeFrame, Goto
<1>5. frame'[c] = kept[i] /\ behind'[c] = behind[c] - 1 /\ task'[c] = "sending"
  BY <1>4 DEF IInv, Typed, TypeOK
<1>6. ASSUME frame[c] # NoFrame PROVE frame'[c].number = Succ(frame[c].number)
  BY <1>1, <1>2, <1>5, <1>6 DEF IInv, Follows
<1>7. Typed'
  BY <1>1, <1>3, <1>4 DEF IInv, Typed, TypeOK
<1>8. RunsOn'
  BY <1>4 DEF IInv, RunsOn
<1>9. ASSUME NEW d \in Clients PROVE Fresh(d)' /\ Reach(d)' /\ Follows(d)'
  <2>1. CASE d # c
    <3>1. task'[d] = task[d] /\ behind'[d] = behind[d] /\ frame'[d] = frame[d]
      BY <1>4, <2>1 DEF IInv, Typed, TypeOK
    <3>2. kept' = kept /\ number' = number
      BY <1>4
    <3> QED BY <3>1, <3>2 DEF IInv, Fresh, Reach, Follows, Subscribed
  <2>2. CASE d = c
    <3>1. Fresh(c)' /\ Reach(c)'
      BY <1>1, <1>2, <1>4, <1>5 DEF Fresh, Reach
    <3>2. IF behind'[c] = 0 THEN frame'[c].number = number
          ELSE kept[Len(kept) - behind'[c] + 1].number = Succ(frame'[c].number)
      <4>1. CASE behind[c] = 1
        <5>1. i = Len(kept) /\ kept # << >> /\ behind'[c] = 0
          BY <1>1, <1>2, <1>5, <4>1, EmptySeq
        <5> QED BY <1>5, <5>1 DEF IInv, RunsOn
      <4>2. CASE behind[c] # 1
        <5>1. i \in 1..(Len(kept) - 1) /\ Len(kept) - behind'[c] + 1 = i + 1 /\ behind'[c] # 0
          BY <1>1, <1>2, <1>5, <4>2
        <5> HIDE DEF i
        <5>2. kept[i + 1].number = Succ(kept[i].number)
          BY <5>1 DEF IInv, RunsOn
        <5> QED BY <1>5, <5>1, <5>2
      <4> QED BY <4>1, <4>2
    <3>3. kept' = kept /\ number' = number
      BY <1>4
    <3> QED BY <2>2, <3>1, <3>2, <3>3 DEF Follows
  <2> QED BY <2>1, <2>2
<1> QED BY <1>6, <1>7, <1>8, <1>9 DEF IInv

\* A step that only ends tasks or moves them to a place where they neither
\* start to receive nor stop with what they have received keeps the invariant.
LEMMA OthersKeep ==
    ASSUME IInv, kept' = kept, number' = number, Typed',
           \A c \in Clients :
               \/ task'[c] \in {"out", "upgraded", "welcome", "idle", "sending", "closing"}
                  /\ behind'[c] = 0 /\ frame'[c] = NoFrame
               \/ /\ behind'[c] = behind[c] /\ frame'[c] = frame[c]
                  /\ \/ task'[c] = task[c]
                     \/ task'[c] \in {"idle", "sending"} /\ Subscribed(c)
                     \/ task'[c] = "closing"
    PROVE  IInv'
<1>1. RunsOn'
  BY DEF IInv, RunsOn
<1>2. ASSUME NEW c \in Clients PROVE Fresh(c)' /\ Reach(c)' /\ Follows(c)'
  <2>1. Fresh(c) /\ Reach(c) /\ Follows(c) /\ Len(kept) \in Nat /\ ChannelCapacity \in Nat
    BY LenProperties, CapacityAssumption DEF IInv, Typed, TypeOK
  <2>2. CASE behind'[c] = 0 /\ frame'[c] = NoFrame
    BY <2>1, <2>2 DEF Fresh, Reach, Follows
  <2>3. CASE behind'[c] = behind[c] /\ frame'[c] = frame[c] /\ task'[c] = task[c]
    BY <2>1, <2>3 DEF Fresh, Reach, Follows, Subscribed
  <2>4. CASE behind'[c] = behind[c] /\ frame'[c] = frame[c]
             /\ task'[c] \in {"idle", "sending"} /\ Subscribed(c)
    BY <2>1, <2>4 DEF Fresh, Reach, Follows, Subscribed
  <2>5. CASE task'[c] = "closing"
    BY <2>5 DEF Fresh, Reach, Follows, Subscribed
  <2> QED BY <2>2, <2>3, <2>4, <2>5
<1> QED BY <1>1, <1>2 DEF IInv

\* Every step keeps the invariant.
LEMMA StepIInv == ASSUME IInv, [Next]_vars PROVE IInv'
<1>0. Typed /\ TypeOK /\ \A c \in Clients : Fresh(c)
  BY DEF IInv, Typed
<1>1. CASE Broadcast
  BY <1>1, BroadcastKeeps
<1>2. CASE Turn \/ Signal \/ ServeReturns \/ UNCHANGED vars
  <2>1. Typed'
    BY <1>0, <1>2 DEF Turn, Signal, ServeReturns, vars, Typed, TypeOK
  <2>2. UNCHANGED <<number, kept, task, behind, frame>>
    BY <1>2 DEF Turn, Signal, ServeReturns, vars
  <2> QED BY <2>1, <2>2, OthersKeep
<1>3. CASE Restart
  <2>1. kept' \in Seq(Frames) /\ Len(kept') = 0
    BY <1>3, EmptySeq DEF Restart
  <2>2. Typed'
    <3>1. 0 \in 0..(Numbers - 1) /\ 0 \in 0..(ChannelCapacity + 1) /\ 0 <= ChannelCapacity
      BY CapacityAssumption, NumbersAssumption
    <3> QED BY <1>0, <1>3, <2>1, <3>1 DEF Restart, Typed, TypeOK
  <2>3. RunsOn'
    BY <1>3, <2>1 DEF Restart, RunsOn
  <2>4. ASSUME NEW c \in Clients PROVE Fresh(c)' /\ Reach(c)' /\ Follows(c)'
    BY <1>3 DEF Restart, Fresh, Reach, Follows, Subscribed
  <2> QED BY <2>2, <2>3, <2>4 DEF IInv
<1>4. ASSUME NEW c \in Clients, Connect(c) PROVE IInv'
  <2>1. Typed' /\ kept' = kept /\ number' = number
    BY <1>0, <1>4 DEF Connect, Goto, Typed, TypeOK
  <2>2. task' = [task EXCEPT ![c] = "upgraded"] /\ behind' = behind /\ frame' = frame
    BY <1>4 DEF Connect, Goto
  <2>3. behind[c] = 0 /\ frame[c] = NoFrame
    BY <1>0, <1>4 DEF Connect, Fresh
  <2>4. task'[c] = "upgraded" /\ \A d \in Clients \ {c} : task'[d] = task[d]
    BY <1>0, <2>2 DEF TypeOK
  <2> QED BY <2>1, <2>2, <2>3, <2>4, OthersKeep
<1>5. ASSUME NEW c \in Clients, Subscribe(c) PROVE IInv'
  <2>1. Typed' /\ kept' = kept /\ number' = number
    BY <1>0, <1>5 DEF Subscribe, Goto, Typed, TypeOK
  <2>2. behind' = behind /\ frame' = frame /\ task' \in {[task EXCEPT ![c] = w] : w \in {"welcome", "closing"}}
    BY <1>5 DEF Subscribe, Goto
  <2>3. behind[c] = 0 /\ frame[c] = NoFrame
    BY <1>0, <1>5 DEF Subscribe, Fresh
  <2>4. task'[c] \in {"welcome", "closing"} /\ \A d \in Clients \ {c} : task'[d] = task[d]
    BY <1>0, <2>2 DEF TypeOK
  <2> QED BY <2>1, <2>2, <2>3, <2>4, OthersKeep
<1>6. ASSUME NEW c \in Clients, ToldToStop(c) \/ DropLagged(c) PROVE IInv'
  <2>1. Typed' /\ kept' = kept /\ number' = number
    BY <1>0, <1>6 DEF ToldToStop, DropLagged, Goto, Typed, TypeOK
  <2>2. behind' = behind /\ frame' = frame /\ task' = [task EXCEPT ![c] = "closing"]
    BY <1>6 DEF ToldToStop, DropLagged, Goto
  <2>3. task'[c] = "closing" /\ \A d \in Clients \ {c} : task'[d] = task[d]
    BY <1>0, <2>2 DEF TypeOK
  <2> QED BY <2>1, <2>2, <2>3, OthersKeep
<1>7. ASSUME NEW c \in Clients, TakeFrame(c) PROVE IInv'
  BY <1>7, TakeFrameKeeps
<1>8. ASSUME NEW c \in Clients, Leave(c),
             UNCHANGED <<rig, shutdown, serving, number, kept>>
      PROVE  IInv'
  <2>1. /\ task' = [task EXCEPT ![c] = "out"] /\ behind' = [behind EXCEPT ![c] = 0]
        /\ frame' = [frame EXCEPT ![c] = NoFrame]
    BY <1>8 DEF Leave, Goto
  <2>2. Typed'
    BY <1>0, <1>8, <2>1, CapacityAssumption DEF Typed, TypeOK
  <2>3. /\ task'[c] = "out" /\ behind'[c] = 0 /\ frame'[c] = NoFrame
        /\ \A d \in Clients \ {c} : task'[d] = task[d] /\ behind'[d] = behind[d] /\ frame'[d] = frame[d]
    BY <1>0, <2>1 DEF TypeOK
  <2> QED BY <1>8, <2>2, <2>3, OthersKeep
<1>9. ASSUME NEW c \in Clients, Sent(c) PROVE IInv'
  <2>1. CASE task[c] = "closing"
    BY <1>8, <1>9, <2>1 DEF Sent
  <2>2. CASE task[c] # "closing"
    <3>1. /\ task' = [task EXCEPT ![c] = "idle"] /\ behind' = behind /\ frame' = frame
          /\ UNCHANGED <<rig, shutdown, serving, number, kept>> /\ Subscribed(c)
      BY <1>9, <2>2 DEF Sent, Goto, Subscribed
    <3>2. Typed'
      BY <1>0, <3>1 DEF Typed, TypeOK
    <3>3. task'[c] = "idle" /\ \A d \in Clients \ {c} : task'[d] = task[d]
      BY <1>0, <3>1 DEF TypeOK
    <3> QED BY <3>1, <3>2, <3>3, OthersKeep
  <2> QED BY <2>1, <2>2
<1>10. ASSUME NEW c \in Clients, GoAway(c) PROVE IInv'
  BY <1>8, <1>10 DEF GoAway
<1> QED BY <1>1, <1>2, <1>3, <1>4, <1>5, <1>6, <1>7, <1>9, <1>10 DEF Next, Handler, Page

\* A client's frames change in three ways: it takes one, it leaves, or the
\* daemon is started again.
LEMMA FrameChanges ==
    ASSUME Typed, [Next]_vars, NEW c \in Clients, frame'[c] # frame[c], frame'[c] # NoFrame
    PROVE  TakeFrame(c)
<1>0. frame \in [Clients -> Frames \cup {NoFrame}]
  BY DEF Typed, TypeOK
<1>1. CASE UNCHANGED frame
  BY <1>1
<1>2. CASE Restart
  BY <1>2 DEF Restart
<1>3. ASSUME NEW d \in Clients, Leave(d) PROVE FALSE
  BY <1>0, <1>3 DEF Leave
<1>4. ASSUME NEW d \in Clients, TakeFrame(d) PROVE d = c
  BY <1>0, <1>4 DEF TakeFrame
<1>5. ASSUME NEW d \in Clients, Subscribe(d) \/ ToldToStop(d) \/ DropLagged(d) \/ Connect(d)
      PROVE  UNCHANGED frame
  BY <1>5 DEF Subscribe, ToldToStop, DropLagged, Connect
<1>6. ASSUME NEW d \in Clients, Sent(d) \/ GoAway(d) PROVE UNCHANGED frame \/ Leave(d)
  BY <1>6 DEF Sent, GoAway
<1>7. ASSUME Broadcast \/ Turn \/ Signal \/ ServeReturns \/ UNCHANGED vars PROVE UNCHANGED frame
  BY <1>7 DEF Broadcast, Turn, Signal, ServeReturns, vars
<1> QED BY <1>1, <1>2, <1>3, <1>4, <1>5, <1>6, <1>7 DEF Next, Handler, Page

-----------------------------------------------------------------------------
(* Theorems.                                                               *)

\* The invariant always holds.
LEMMA IInvAlways == Spec => []IInv
<1>1. IInv /\ [Next]_vars => IInv'
  BY StepIInv
<1> QED BY InitIInv, <1>1, PTL DEF Spec

\* Every variable of the server keeps its type; the channel never holds more
\* than its capacity and no receiver counts more than one beyond it.
THEOREM BroadcastTypeCorrect == Spec => []TypeOK
<1>1. IInv => TypeOK
  BY DEF IInv, Typed
<1> QED BY IInvAlways, <1>1, PTL

\* Within a connection a client is shown consecutive frames, whatever other
\* clients, restarts, and the rig do.
THEOREM ConsecutiveAlways == Spec => Consecutive
<1> DEFINE Step == \A c \in Clients :
          frame'[c] # frame[c] /\ NoFrame \notin {frame[c], frame'[c]} =>
              frame'[c].number = (frame[c].number + 1) % Numbers
<1>1. IInv /\ [Next]_vars => [Step]_vars
  <2> SUFFICES ASSUME IInv, [Next]_vars, NEW c \in Clients,
                      frame'[c] # frame[c], NoFrame \notin {frame[c], frame'[c]}
               PROVE  frame'[c].number = (frame[c].number + 1) % Numbers
    OBVIOUS
  <2>1. TakeFrame(c)
    BY FrameChanges DEF IInv
  <2> QED BY <2>1, TakeFrameKeeps DEF Succ
<1> HIDE DEF Step
<1>2. Spec => [][Step]_vars
  BY IInvAlways, <1>1, PTL DEF Spec
<1> QED BY <1>2 DEF Step, Consecutive

=============================================================================
