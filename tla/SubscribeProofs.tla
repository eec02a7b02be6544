--------------------------- MODULE SubscribeProofs ---------------------------
(***************************************************************************)
(* Theorems about Subscribe, for every number of nodes, every messages and *)
(* every capacity of the channels.                                         *)
(***************************************************************************)
EXTENDS Subscribe, TLAPS

\* Taking the head of a channel.
LEMMA HeadTail ==
  ASSUME NEW S, NEW s \in Seq(S), s # << >>
  PROVE  /\ Head(s) \in S /\ Tail(s) \in Seq(S)
         /\ Head(s) = s[1] /\ Len(s) \in Nat /\ Len(s) >= 1 /\ Len(Tail(s)) = Len(s) - 1
         /\ \A j \in 1..Len(Tail(s)) : Tail(s)[j] = s[j + 1]
OBVIOUS

\* Appending an element to a sequence.
LEMMA Appended ==
  ASSUME NEW S, NEW s \in Seq(S), NEW e
  PROVE  /\ Len(Append(s, e)) = Len(s) + 1 /\ Append(s, e)[Len(s) + 1] = e
         /\ \A j \in 1..Len(s) : Append(s, e)[j] = s[j]
<1>1. s \in Seq(S \cup {e})
  OBVIOUS
<1>2. QED
  BY <1>1

\* A message more on the stream leaves the positions of the others.
LEMMA PositionGrows ==
  ASSUME NEW m \in Message, sent \in Seq(Message), sent' = Append(sent, m)
  PROVE  /\ sent' \in Seq(Message) /\ Position \subseteq Position'
         /\ Seq(Position) \subseteq Seq(Position') /\ SUBSET Position \subseteq SUBSET Position'
<1>1. /\ Len(sent) \in Nat /\ Len(sent') = Len(sent) + 1
      /\ sent' \in Seq(Message)
  OBVIOUS
<1>2. Position \subseteq Position'
  BY <1>1 DEF Position
<1>3. QED
  BY <1>1, <1>2

LEMMA PositionStays == sent' = sent => Position' = Position
BY DEF Position

-----------------------------------------------------------------------------

\* The initial state is well typed, and every step keeps it so.
LEMMA TypeInit == Init => TypeOK
<1> SUFFICES ASSUME Init PROVE TypeOK
  OBVIOUS
<1>1. MainType
  <2>1. 1 \in 1..(N + 1)
    BY NodeAssumption
  <2>2. -1 \in Nat \cup {-1} /\ {} \subseteq Nodes
    OBVIOUS
  <2>3. client \in [Nodes -> {"none", "open", "closed"}]
    BY DEF Init
  <2>4. QED
    BY <2>1, <2>2, <2>3 DEF Init, MainType
<1>2. << >> \in Seq(Position) /\ << >> \in Seq(Message) /\ Len(<< >>) = 0
  OBVIOUS
<1>3. FlowType
  BY <1>2, SizeAssumption DEF Init, FlowType
<1>4. HookType
  BY <1>2, SizeAssumption DEF Init, HookType
<1>5. QED
  BY <1>1, <1>3, <1>4 DEF TypeOK

LEMMA MainTypeStep == MainType /\ FlowType /\ [Next]_vars => MainType'
<1> SUFFICES ASSUME MainType, FlowType, [Next]_vars PROVE MainType'
  OBVIOUS
<1> USE DEF MainType, connectVars, endVars, mainVars
<1>1. CASE TryFails
  <2>1. node' \in 1..(N + 1) /\ failed' \subseteq Nodes
    BY <1>1, NodeAssumption DEF TryFails, Nodes
  <2>2. client' \in [Nodes -> {"none", "open", "closed"}]
    BY <1>1 DEF TryFails
  <2>3. QED
    BY <1>1, <2>1, <2>2 DEF TryFails
<1>2. CASE TrySucceeds \/ AllFailed
  BY <1>2 DEF TrySucceeds, AllFailed
<1>3. CASE SelectSignal \/ SelectDone \/ Exit \/ Interrupt
  BY <1>3 DEF SelectSignal, SelectDone, Exit, Interrupt
<1>4. CASE Summarise
  <2>1. Len(shown) \in Nat
    BY DEF FlowType
  <2>2. QED
    BY <1>4, <2>1 DEF Summarise
<1>5. CASE CloseAll
  BY <1>5 DEF CloseAll
<1>6. CASE UNCHANGED mainVars
  BY <1>6
<1>7. QED
  BY <1>1, <1>2, <1>3, <1>4, <1>5, <1>6
     DEF Next, Main, Receiver, Consumer, Recv, Forward, Stop, Consume, NodeSends,
         StreamEnds, Persist, PersistFails, Enqueue, ConsumerEnds, Dispatch, Post,
         PostSucceeds, PostFails, vars

LEMMA FlowTypeStep == FlowType /\ [Next]_vars => FlowType'
<1> SUFFICES ASSUME FlowType, [Next]_vars PROVE FlowType'
  OBVIOUS
<1> USE DEF FlowType, streamVars, recvVars, consumerVars, outVars
<1>1. CASE NodeSends
  <2>1. PICK m \in Message : sent' = Append(sent, m)
    BY <1>1 DEF NodeSends
  <2>2. /\ sent' \in Seq(Message) /\ Position \subseteq Position'
        /\ Seq(Position) \subseteq Seq(Position')
    BY <2>1, PositionGrows
  <2>3. QED
    BY <1>1, <2>2 DEF NodeSends
<1>2. CASE TrySucceeds
  BY <1>2, PositionStays DEF TrySucceeds
<1>3. CASE StreamEnds \/ Stop \/ ConsumerEnds
  BY <1>3, PositionStays DEF StreamEnds, Stop, ConsumerEnds
<1>4. CASE Recv
  <2>1. received' \in Position /\ received' # 0 /\ Position' = Position
    BY <1>4, PositionStays DEF Recv, Position
  <2>2. QED
    BY <1>4, <2>1 DEF Recv
<1>5. CASE Forward
  <2>1. chan' \in Seq(Position) /\ Len(chan') <= BufSize /\ Position' = Position
    BY <1>5, PositionStays, SizeAssumption DEF Forward
  <2>2. QED
    BY <1>5, <2>1 DEF Forward
<1>6. CASE Consume
  <2>1. /\ Head(chan) \in Position /\ Tail(chan) \in Seq(Position)
        /\ Len(Tail(chan)) <= BufSize
    BY <1>6, HeadTail, SizeAssumption DEF Consume
  <2>2. Head(chan) # 0 /\ Position' = Position
    BY <1>6, <2>1, PositionStays DEF Consume, Position
  <2>3. shown' \in Seq(Position) /\ consumer' \in {"persisting", "taking"}
    BY <1>6, <2>1 DEF Consume
  <2>4. QED
    BY <1>6, <2>1, <2>2, <2>3 DEF Consume
<1>7. CASE Persist
  <2>1. persisted' \in Seq(Position) /\ Position' = Position
    BY <1>7, PositionStays DEF Persist
  <2>2. QED
    BY <1>7, <2>1 DEF Persist
<1>8. CASE PersistFails \/ Enqueue
  BY <1>8, PositionStays DEF PersistFails, Enqueue
<1>9. CASE UNCHANGED <<streamVars, recvVars, chan, consumerVars, shown, persisted>>
  BY <1>9, PositionStays
<1>10. QED
  BY <1>1, <1>2, <1>3, <1>4, <1>5, <1>6, <1>7, <1>8, <1>9
     DEF Next, Main, Receiver, Consumer, TryFails, AllFailed, SelectSignal, SelectDone,
         Summarise, CloseAll, Exit, Interrupt, Dispatch, Post, PostSucceeds, PostFails,
         flowVars, vars

LEMMA HookTypeStep == FlowType /\ HookType /\ [Next]_vars => HookType'
<1> SUFFICES ASSUME FlowType, HookType, [Next]_vars PROVE HookType'
  OBVIOUS
<1> USE DEF HookType, streamVars, outVars, postVars, hookVars
<1>1. CASE NodeSends
  <2>1. PICK m \in Message : sent' = Append(sent, m)
    BY <1>1 DEF NodeSends
  <2>2. /\ Seq(Position) \subseteq Seq(Position') /\ SUBSET Position \subseteq SUBSET Position'
    BY <2>1, PositionGrows DEF FlowType
  <2>3. QED
    BY <1>1, <2>2 DEF NodeSends
<1>2. CASE Enqueue
  <2>1. taken \in Position /\ Position' = Position
    BY <1>2, PositionStays DEF Enqueue, FlowType
  <2>2. queue' \in Seq(Position) /\ Len(queue') <= QueueSize
    BY <1>2, <2>1, SizeAssumption DEF Enqueue
  <2>3. QED
    BY <1>2, <2>1, <2>2 DEF Enqueue
<1>3. CASE Dispatch
  <2>1. /\ Head(queue) \in Position /\ Tail(queue) \in Seq(Position)
        /\ Len(Tail(queue)) <= QueueSize /\ Position' = Position
    BY <1>3, HeadTail, PositionStays, SizeAssumption DEF Dispatch
  <2>2. QED
    BY <1>3, <2>1 DEF Dispatch
<1>4. CASE Post
  BY <1>4, PositionStays DEF Post, PostSucceeds, PostFails
<1>5. CASE UNCHANGED <<sent, hookVars, dropped>>
  BY <1>5, PositionStays
<1>6. QED
  BY <1>1, <1>2, <1>3, <1>4, <1>5
     DEF Next, Main, Receiver, Consumer, TryFails, TrySucceeds, AllFailed, SelectSignal,
         SelectDone, Summarise, CloseAll, Exit, Interrupt, StreamEnds, Recv, Forward, Stop,
         Consume, Persist, PersistFails, ConsumerEnds, flowVars, vars

-----------------------------------------------------------------------------

\* The counters are naturals.
LEMMA Counters ==
  FlowType => /\ Len(sent) \in Nat /\ Len(chan) \in Nat /\ received \in Nat /\ taken \in Nat
              /\ received <= Len(sent) /\ taken <= Len(sent)
              /\ chan \in Seq(Position)
<1> SUFFICES ASSUME FlowType PROVE /\ Len(sent) \in Nat /\ Len(chan) \in Nat
                                   /\ received \in Position \cup {0} /\ taken \in Position \cup {0}
                                   /\ chan \in Seq(Position)
  BY DEF Position
<1>1. sent \in Seq(Message) /\ chan \in Seq(Position)
  BY DEF FlowType
<1>2. QED
  BY <1>1 DEF FlowType

\* The channel is a window of the stream between the receiver and the consumer.
LEMMA GapStep == FlowType /\ NoGap /\ Phases /\ [Next]_vars => NoGap'
<1> SUFFICES ASSUME FlowType, NoGap, Phases, [Next]_vars PROVE NoGap'
  OBVIOUS
<1>0. /\ Len(chan) \in Nat /\ received \in Nat /\ taken \in Nat /\ chan \in Seq(Position)
  BY Counters
<1> USE DEF NoGap, connectVars, endVars, mainVars, streamVars, recvVars,
            consumerVars, outVars, postVars, hookVars, flowVars
<1>1. CASE TrySucceeds
  BY <1>1, <1>0 DEF TrySucceeds, Phases
<1>2. CASE SelectSignal \/ CloseAll
  BY <1>2, <1>0 DEF SelectSignal, CloseAll
<1>3. CASE Recv
  BY <1>3, <1>0 DEF Recv
<1>4. CASE Forward
  <2>1. Len(chan') = Len(chan) + 1 /\ chan'[Len(chan) + 1] = received
        /\ \A j \in 1..Len(chan) : chan'[j] = chan[j]
    BY <1>4, <1>0, Appended DEF Forward
  <2>2. received = taken + Len(chan) + 1
    BY <1>4, <1>0 DEF Forward
  <2>3. \A j \in 1..Len(chan') : chan'[j] = taken + j
    <3>1. 1..Len(chan') = 1..Len(chan) \cup {Len(chan) + 1}
      BY <1>0, <2>1
    <3>2. chan'[Len(chan) + 1] = taken + (Len(chan) + 1)
      BY <1>0, <2>1, <2>2
    <3>3. QED
      BY <2>1, <3>1, <3>2
  <2>4. received - (taken + Len(chan')) = 0
    BY <1>0, <2>1, <2>2
  <2>5. QED
    BY <1>4, <2>3, <2>4 DEF Forward
<1>5. CASE Stop
  BY <1>5, <1>0 DEF Stop
<1>6. CASE Consume
  <2>1. /\ Head(chan) = chan[1] /\ Len(chan) >= 1
        /\ Len(Tail(chan)) = Len(chan) - 1
        /\ \A j \in 1..Len(Tail(chan)) : Tail(chan)[j] = chan[j + 1]
    BY <1>6, <1>0, HeadTail DEF Consume
  <2>2. taken' = taken + 1
    BY <1>6, <1>0, <2>1 DEF Consume
  <2>3. \A j \in 1..Len(chan') : chan'[j] = taken' + j
    BY <1>6, <1>0, <2>1, <2>2 DEF Consume
  <2>4. taken' + Len(chan') = taken + Len(chan)
    BY <1>6, <1>0, <2>1, <2>2 DEF Consume
  <2>5. QED
    BY <1>6, <2>3, <2>4 DEF Consume
<1>7. CASE UNCHANGED <<chan, taken, received, receiver, cancelled>>
  BY <1>7
<1>8. QED
  BY <1>1, <1>2, <1>3, <1>4, <1>5, <1>6, <1>7
     DEF Next, Main, Receiver, Consumer, TryFails, AllFailed, SelectDone, Summarise, Exit,
         Interrupt, NodeSends, StreamEnds, Persist, PersistFails, Enqueue, ConsumerEnds,
         Dispatch, Post, PostSucceeds, PostFails, vars

\* The connection in use is the one to the node after those that failed.
LEMMA ConnectionStep == MainType /\ NoConnectionLeft /\ [Next]_vars => NoConnectionLeft'
<1> SUFFICES ASSUME MainType, NoConnectionLeft, [Next]_vars PROVE NoConnectionLeft'
  OBVIOUS
<1>0. node \in Nat /\ node >= 1 /\ N \in Nat /\ client \in [Nodes -> {"none", "open", "closed"}]
  BY NodeAssumption DEF MainType
<1> USE DEF NoConnectionLeft, connectVars, endVars, mainVars, streamVars,
            recvVars, consumerVars, outVars, postVars, hookVars, flowVars
<1>1. CASE TryFails
  <2>1. 1..((node + 1) - 1) = 1..(node - 1) \cup {node}
    BY <1>0
  <2>2. \A n \in Nodes : client'[n] = "open" <=> client[n] = "open" /\ n # node
    BY <1>1, <1>0 DEF TryFails
  <2>3. \A n \in Nodes : client'[n] # "open"
    BY <1>1, <2>2 DEF TryFails
  <2>4. QED
    BY <1>1, <2>1, <2>3 DEF TryFails
<1>2. CASE TrySucceeds
  BY <1>2, <1>0 DEF TrySucceeds
<1>3. CASE AllFailed
  <2>1. node \notin Nodes
    BY <1>3, <1>0 DEF AllFailed, Nodes
  <2>2. QED
    BY <1>3, <2>1 DEF AllFailed
<1>4. CASE CloseAll
  BY <1>4, <1>0 DEF CloseAll
<1>5. CASE SelectSignal \/ SelectDone \/ Summarise \/ Exit
  BY <1>5 DEF SelectSignal, SelectDone, Summarise, Exit
<1>6. CASE UNCHANGED <<main, node, failed, client>>
  BY <1>6
<1>7. QED
  BY <1>1, <1>2, <1>3, <1>4, <1>5, <1>6
     DEF Next, Main, Receiver, Consumer, Recv, Forward, Stop, Consume,
         Interrupt, NodeSends, StreamEnds, Persist, PersistFails, Enqueue, ConsumerEnds,
         Dispatch, Post, PostSucceeds, PostFails, vars

LEMMA PhaseStep == MainType /\ FlowType /\ Phases /\ [Next]_vars => Phases'
<1> SUFFICES ASSUME MainType, FlowType, Phases, [Next]_vars PROVE Phases'
  OBVIOUS
<1> USE DEF MainType, FlowType, Phases, connectVars, endVars, mainVars, streamVars, recvVars,
            consumerVars, outVars, postVars, hookVars, flowVars
<1>1. CASE TryFails \/ TrySucceeds \/ AllFailed
  BY <1>1 DEF TryFails, TrySucceeds, AllFailed
<1>2. CASE SelectSignal \/ SelectDone \/ Summarise \/ CloseAll \/ Exit \/ Interrupt
  BY <1>2 DEF SelectSignal, SelectDone, Summarise, CloseAll, Exit, Interrupt
<1>3. CASE NodeSends \/ StreamEnds
  BY <1>3 DEF NodeSends, StreamEnds
<1>4. CASE Recv \/ Forward \/ Stop
  BY <1>4 DEF Recv, Forward, Stop
<1>5. CASE Consume \/ Persist \/ PersistFails \/ Enqueue \/ ConsumerEnds
  BY <1>5 DEF Consume, Persist, PersistFails, Enqueue, ConsumerEnds
<1>6. CASE Dispatch \/ Post \/ UNCHANGED vars
  BY <1>6 DEF Dispatch, Post, PostSucceeds, PostFails, vars
<1>7. QED
  BY <1>1, <1>2, <1>3, <1>4, <1>5, <1>6 DEF Next, Main, Receiver, Consumer

\* What the filters of the code let through is what the user asks to see.
LEMMA ShowsWanted == \A m : Shows(m) <=> Wanted(m)
<1> SUFFICES ASSUME NEW m PROVE Shows(m) <=> Wanted(m)
  OBVIOUS
<1>1. QED
  BY Zenon DEF Shows, Skips, Wanted

\* The elements of a sequence that has grown, and its order.
LEMMA InAppend ==
  ASSUME NEW S, NEW s \in Seq(S), NEW e
  PROVE  \A i : In(i, Append(s, e)) <=> In(i, s) \/ i = e
<1>1. /\ Len(s) \in Nat /\ Len(Append(s, e)) = Len(s) + 1 /\ Append(s, e)[Len(s) + 1] = e
      /\ \A j \in 1..Len(s) : Append(s, e)[j] = s[j]
  BY Appended
<1>2. 1..Len(Append(s, e)) = 1..Len(s) \cup {Len(s) + 1}
  BY <1>1
<1>3. QED
  BY <1>1, <1>2 DEF In

LEMMA IncreasingAppend ==
  ASSUME NEW s \in Seq(Nat), NEW e \in Nat, Increasing(s), \A i : In(i, s) => i < e
  PROVE  Increasing(Append(s, e))
<1>1. /\ Len(s) \in Nat /\ Len(Append(s, e)) = Len(s) + 1 /\ Append(s, e)[Len(s) + 1] = e
      /\ \A j \in 1..Len(s) : Append(s, e)[j] = s[j]
  BY Appended
<1>2. \A j \in 1..Len(s) : s[j] < e
  BY DEF In
<1> SUFFICES ASSUME NEW j \in 1..(Len(s) + 1), NEW k \in 1..(Len(s) + 1), j < k
             PROVE  Append(s, e)[j] < Append(s, e)[k]
  BY <1>1 DEF Increasing
<1>3. j \in 1..Len(s)
  BY <1>1
<1>4. CASE k \in 1..Len(s)
  BY <1>1, <1>3, <1>4 DEF Increasing
<1>5. CASE k = Len(s) + 1
  BY <1>1, <1>2, <1>3, <1>5
<1>6. QED
  BY <1>1, <1>4, <1>5

\* The screen shows the wanted ones among the messages taken.
LEMMA ShownStep == FlowType /\ NoGap /\ ShownExactly /\ [Next]_vars => ShownExactly'
<1> SUFFICES ASSUME FlowType, NoGap, ShownExactly, [Next]_vars PROVE ShownExactly'
  OBVIOUS
<1>0. /\ Len(sent) \in Nat /\ Len(chan) \in Nat /\ taken \in Nat /\ taken <= Len(sent)
      /\ chan \in Seq(Position)
  BY Counters
<1>s. shown \in Seq(Position) /\ \A i : In(i, shown) => i \in Position /\ i <= taken
  <2>1. shown \in Seq(Position)
    BY DEF FlowType
  <2>2. \A i : In(i, shown) => i \in Position
    BY <2>1 DEF In
  <2>3. QED
    BY <2>1, <2>2 DEF ShownExactly, Position
<1>1. CASE NodeSends
  <2>1. PICK m \in Message : sent' = Append(sent, m)
    BY <1>1 DEF NodeSends
  <2>2. /\ Len(sent') = Len(sent) + 1 /\ \A j \in 1..Len(sent) : sent'[j] = sent[j]
    BY <2>1, Appended DEF FlowType
  <2>3. shown' = shown /\ taken' = taken /\ debug' = debug
    BY <1>1 DEF NodeSends, outVars, consumerVars, mainVars
  <2>4. ASSUME NEW i \in 1..Len(sent') PROVE In(i, shown) <=> i <= taken /\ Wanted(sent'[i])
    <3>1. CASE i \in 1..Len(sent)
      BY <2>2, <3>1 DEF ShownExactly
    <3>2. CASE i = Len(sent) + 1
      BY <1>0, <1>s, <3>2
    <3>3. QED
      BY <1>0, <2>2, <3>1, <3>2
  <2>5. QED
    <3>1. \A m1 : Wanted(m1)' <=> Wanted(m1)
      BY <2>3 DEF Wanted
    <3>2. Increasing(shown)' <=> Increasing(shown)
      BY <2>3 DEF Increasing
    <3>3. \A i : In(i, shown)' <=> In(i, shown)
      BY <2>3 DEF In
    <3>4. QED
      BY <2>3, <2>4, <3>1, <3>2, <3>3 DEF ShownExactly
<1>2. CASE Consume
  <2>1. Head(chan) = taken + 1 /\ taken' = taken + 1 /\ taken + 1 \in Position
    BY <1>2, <1>0, HeadTail DEF Consume, NoGap
  <2>2. sent' = sent /\ debug' = debug
    BY <1>2 DEF Consume, streamVars, mainVars
  <2>3. shown' = IF Wanted(sent[taken + 1]) THEN Append(shown, taken + 1) ELSE shown
    BY <1>2, <2>1, ShowsWanted DEF Consume
  <2>4. \A i : In(i, shown) => i < taken + 1
    BY <1>s, <1>0 DEF Position
  <2>5. ASSUME NEW i \in 1..Len(sent) PROVE i <= taken' <=> i <= taken \/ i = taken + 1
    BY <1>0, <2>1
  <2>6. CASE Wanted(sent[taken + 1])
    <3>1. shown' = Append(shown, taken + 1)
      BY <2>3, <2>6
    <3>2. Increasing(shown')
      <4>1. shown \in Seq(Nat)
        BY <1>s DEF Position
      <4>2. QED
        BY <3>1, <4>1, <1>0, <2>4, IncreasingAppend DEF ShownExactly
    <3>3. \A i : In(i, shown') <=> In(i, shown) \/ i = taken + 1
      BY <1>s, <3>1, InAppend
    <3>4. \A i \in 1..Len(sent) : In(i, shown') <=> i <= taken' /\ Wanted(sent[i])
      BY <2>5, <2>6, <3>3 DEF ShownExactly
    <3>5. QED
      BY <2>2, <3>2, <3>4 DEF ShownExactly, Increasing, In, Wanted
  <2>7. CASE ~Wanted(sent[taken + 1])
    <3>1. shown' = shown
      BY <2>3, <2>7
    <3>2. \A i \in 1..Len(sent) : In(i, shown) <=> i <= taken' /\ Wanted(sent[i])
      BY <2>4, <2>5, <2>7, <1>0 DEF ShownExactly
    <3>3. QED
      BY <2>2, <3>1, <3>2 DEF ShownExactly, Increasing, In, Wanted
  <2>8. QED
    BY <2>6, <2>7
<1>3. CASE UNCHANGED <<debug, sent, taken, shown>>
  BY <1>3 DEF ShownExactly, Increasing, In, Wanted
<1>4. QED
  BY <1>1, <1>2, <1>3
     DEF Next, Main, Receiver, Consumer, TryFails, TrySucceeds, AllFailed, SelectSignal,
         SelectDone, Summarise, CloseAll, Exit, Interrupt, StreamEnds, Recv, Forward, Stop,
         Persist, PersistFails, Enqueue, ConsumerEnds, Dispatch, Post, PostSucceeds,
         PostFails, connectVars, endVars, mainVars, streamVars, recvVars, consumerVars,
         outVars, postVars, hookVars, flowVars, vars

\* Main leaves the select, without a signal, when all is taken; nothing comes then.
LEMMA EndStep ==
  MainType /\ FlowType /\ NoGap /\ NoConnectionLeft /\ Phases /\ Ended /\ [Next]_vars => Ended'
<1> SUFFICES ASSUME MainType, FlowType, NoGap, NoConnectionLeft, Phases, Ended, [Next]_vars
             PROVE  Ended'
  OBVIOUS
<1>0. /\ Len(sent) \in Nat /\ Len(chan) \in Nat /\ received \in Nat /\ taken \in Nat
  BY Counters
<1> USE DEF Ended, connectVars, endVars, mainVars, streamVars, recvVars,
            consumerVars, outVars, postVars, hookVars, flowVars
<1>1. CASE TryFails \/ TrySucceeds
  BY <1>1 DEF TryFails, TrySucceeds
<1>2. CASE AllFailed
  <2>1. failed = Nodes
    BY <1>2, NodeAssumption DEF AllFailed, NoConnectionLeft, Nodes, MainType
  <2>2. QED
    BY <1>2, <2>1 DEF AllFailed
<1>3. CASE SelectSignal
  BY <1>3 DEF SelectSignal
<1>4. CASE SelectDone
  <2>1. ~signalled => receiver = "stopped" /\ ~cancelled /\ chan = << >>
    BY <1>4 DEF SelectDone, Phases
  <2>2. ~signalled => received = Len(sent) /\ received - (taken + Len(chan)) = 0
    BY <2>1 DEF Phases, NoGap
  <2>3. ~signalled => taken = Len(sent)
    BY <1>0, <2>1, <2>2
  <2>4. ~signalled => summary = -1 /\ stream # "open"
    BY <1>4, <2>1 DEF SelectDone, Phases
  <2>5. QED
    BY <1>4, <2>3, <2>4 DEF SelectDone
<1>5. CASE Summarise \/ CloseAll \/ Exit
  BY <1>5 DEF Summarise, CloseAll, Exit
<1>6. CASE Interrupt
  BY <1>6 DEF Interrupt
<1>7. CASE NodeSends \/ StreamEnds
  BY <1>7 DEF NodeSends, StreamEnds
<1>8. CASE Receiver
  BY <1>8 DEF Receiver, Recv, Forward, Stop
<1>9. CASE Consumer
  BY <1>9, <1>0 DEF Consumer, Consume, Persist, PersistFails, Enqueue, ConsumerEnds
<1>10. CASE Dispatch \/ Post \/ UNCHANGED vars
  BY <1>10 DEF Dispatch, Post, PostSucceeds, PostFails, vars
<1>11. QED
  BY <1>1, <1>2, <1>3, <1>4, <1>5, <1>6, <1>7, <1>8, <1>9, <1>10 DEF Next, Main

-----------------------------------------------------------------------------
(* The file and the webhook.                                               *)

\* What is passed on is what is wanted and can be read.
LEMMA KeepsReadable == \A m : Keeps(m) <=> Wanted(m) /\ m.readable
<1> SUFFICES ASSUME NEW m PROVE Keeps(m) <=> Wanted(m) /\ m.readable
  OBVIOUS
<1>1. QED
  BY Zenon DEF Keeps, Skips, Wanted

\* The elements of a sequence of positions are positions.
LEMMA InPositions == \A s \in Seq(Position) : \A i : In(i, s) => i \in Position
<1> SUFFICES ASSUME NEW s \in Seq(Position), NEW k \in 1..Len(s) PROVE s[k] \in Position
  BY DEF In
<1>1. QED
  OBVIOUS

\* The elements of a sequence whose head is taken, and its order.
LEMMA InTail ==
  ASSUME NEW s \in Seq(Nat), s # << >>, Increasing(s)
  PROVE  /\ Increasing(Tail(s)) /\ In(Head(s), s)
         /\ \A i : In(i, Tail(s)) <=> In(i, s) /\ i # Head(s)
<1>1. /\ Head(s) = s[1] /\ Len(s) \in Nat /\ Len(s) >= 1 /\ Len(Tail(s)) = Len(s) - 1
      /\ \A j \in 1..Len(Tail(s)) : Tail(s)[j] = s[j + 1]
  BY HeadTail
<1>2. \A j \in 1..Len(s) : s[j] \in Nat
  OBVIOUS
<1>3. Increasing(Tail(s))
  BY <1>1 DEF Increasing
<1>4. ASSUME NEW i, In(i, Tail(s)) PROVE In(i, s) /\ i # Head(s)
  <2>1. PICK j \in 1..Len(Tail(s)) : s[j + 1] = i
    BY <1>1, <1>4 DEF In
  <2>2. j + 1 \in 1..Len(s) /\ 1 \in 1..Len(s) /\ 1 < j + 1
    BY <1>1
  <2>3. s[1] < s[j + 1]
    BY <2>2 DEF Increasing
  <2>4. QED
    BY <1>1, <1>2, <2>1, <2>2, <2>3 DEF In
<1>5. ASSUME NEW i, In(i, s), i # Head(s) PROVE In(i, Tail(s))
  <2>1. PICK k \in 1..Len(s) : s[k] = i
    BY <1>5 DEF In
  <2>2. k - 1 \in 1..Len(Tail(s)) /\ (k - 1) + 1 = k
    BY <1>1, <1>5, <2>1
  <2>3. QED
    BY <1>1, <2>1, <2>2 DEF In
<1>6. QED
  BY <1>1, <1>3, <1>4, <1>5 DEF In

\* A message more on the stream is another one than those there are, which stay.
LEMMA SentGrows ==
  ASSUME FlowType, NodeSends
  PROVE  /\ Len(sent') = Len(sent) + 1 /\ Len(sent) \in Nat
         /\ \A i \in 1..Len(sent) : sent'[i] = sent[i]
         /\ UNCHANGED <<debug, fileOpen, taken, consumer, shown, persisted, dropped, hookVars>>
<1>1. PICK m \in Message : sent' = Append(sent, m)
  BY DEF NodeSends
<1>2. QED
  BY <1>1, Appended DEF NodeSends, FlowType, mainVars, endVars, consumerVars, outVars

\* A message that the consumer takes is the next one, and goes on to the file if
\* it is to be kept.
LEMMA Taking ==
  ASSUME FlowType, NoGap, Consume
  PROVE  /\ taken' = taken + 1 /\ taken \in Nat /\ taken + 1 \in 1..Len(sent)
         /\ consumer = "taking"
         /\ consumer' = IF Keeps(sent[taken + 1]) THEN "persisting" ELSE "taking"
         /\ UNCHANGED <<debug, fileOpen, sent, persisted, dropped, hookVars>>
<1>1. Head(chan) = taken + 1 /\ taken \in Nat /\ taken + 1 \in Position
  BY Counters, HeadTail DEF Consume, NoGap
<1>2. QED
  BY <1>1 DEF Consume, Position, mainVars, endVars, streamVars

LEMMA HandStep ==
  ASSUME TypeOK, NoGap, ShownExactly, FileFollowsScreen, WebhookConserved, InHand, [Next]_vars
  PROVE  InHand'
<1> USE DEF TypeOK, InHand
<1>0. /\ taken \in Nat /\ Len(sent) \in Nat /\ taken <= Len(sent)
      /\ shown \in Seq(Position) /\ persisted \in Seq(Position) /\ queue \in Seq(Position)
      /\ queue \in Seq(Nat)
  BY Counters DEF FlowType, HookType, Position
<1>k. \A m : debug' = debug => (Keeps(m)' <=> Keeps(m))
  BY DEF Keeps, Skips
<1>1. CASE NodeSends
  <2>1. consumer \in {"persisting", "queueing"} => sent'[taken] = sent[taken]
    BY <1>0, <1>1, SentGrows DEF FlowType, Position
  <2>2. QED
    BY <1>1, <2>1, <1>k, SentGrows DEF In, Increasing, hookVars
<1>2. CASE Consume
  <2>1. /\ taken' = taken + 1 /\ sent' = sent /\ persisted' = persisted /\ queue' = queue
        /\ debug' = debug
        /\ consumer' = IF Keeps(sent[taken + 1]) THEN "persisting" ELSE "taking"
    BY <1>2, Taking DEF hookVars
  <2>2. ~In(taken + 1, persisted)
    <3>1. In(taken + 1, persisted) => taken + 1 \in 1..Len(sent)
      BY <1>0, InPositions DEF Position
    <3>2. In(taken + 1, persisted) => taken + 1 <= taken
      BY <3>1 DEF FileFollowsScreen, ShownExactly
    <3>3. QED
      BY <1>0, <3>2
  <2>3. QED
    BY <1>k, <2>1, <2>2 DEF In, Increasing
<1>3. CASE Persist \/ PersistFails
  BY <1>3, <1>k DEF Persist, PersistFails, mainVars, streamVars, hookVars, Increasing
<1>4. CASE Enqueue
  <2>1. QueueSize > 0 => \A i : In(i, queue) => i < taken
    <3> SUFFICES ASSUME NEW i, In(i, queue) PROVE i < taken
      OBVIOUS
    <3>1. i \in 1..Len(sent)
      BY <1>0, InPositions DEF Position
    <3>2. "queue" \in HookPlaces(i)
      BY DEF HookPlaces
    <3>3. ForHook(i)
      BY <3>1, <3>2 DEF WebhookConserved
    <3>4. QED
      BY <1>0, <1>4, <3>1, <3>3 DEF ForHook, Enqueue
  <2>2. queue' = queue \/ (QueueSize > 0 /\ queue' = Append(queue, taken))
    BY <1>0, <1>4, SizeAssumption DEF Enqueue
  <2>3. Increasing(queue')
    BY <1>0, <2>1, <2>2, IncreasingAppend
  <2>4. consumer' = "taking"
    BY <1>4 DEF Enqueue
  <2>5. QED
    BY <2>3, <2>4 DEF Increasing
<1>5. CASE Dispatch
  <2>1. Increasing(Tail(queue)) /\ queue' = Tail(queue)
    BY <1>0, <1>5, InTail DEF Dispatch
  <2>2. UNCHANGED <<debug, consumer, sent, taken, persisted>>
    BY <1>5 DEF Dispatch, mainVars, streamVars, consumerVars, outVars
  <2>3. QED
    BY <1>k, <2>1, <2>2 DEF Increasing, In
<1>6. CASE TrySucceeds \/ ConsumerEnds
  <2>1. UNCHANGED queue /\ consumer' \in {"taking", "ended"}
    BY <1>6 DEF TrySucceeds, ConsumerEnds, hookVars
  <2>2. QED
    BY <2>1 DEF Increasing
<1>7. CASE UNCHANGED <<debug, consumer, sent, taken, persisted, queue>>
  BY <1>7, <1>k DEF Increasing, In
<1>8. QED
  BY <1>1, <1>2, <1>3, <1>4, <1>5, <1>6, <1>7
     DEF Next, Main, Receiver, Consumer, TryFails, AllFailed, SelectSignal, SelectDone,
         Summarise, CloseAll, Exit, Interrupt, StreamEnds, Recv, Forward, Stop, Post,
         PostSucceeds, PostFails, connectVars, endVars, mainVars, streamVars, recvVars,
         consumerVars, outVars, postVars, hookVars, flowVars, vars

\* The file grows by messages that are on the screen, and a message on the screen
\* that is to be kept is written, unless the write fails or the file is closed.
LEMMA FileStep ==
  ASSUME TypeOK, NoGap, Phases, ShownExactly, ShownExactly', InHand, FileFollowsScreen, [Next]_vars
  PROVE  FileFollowsScreen'
<1> USE DEF TypeOK
<1>0. /\ taken \in Nat /\ Len(sent) \in Nat /\ taken <= Len(sent)
      /\ shown \in Seq(Position) /\ persisted \in Seq(Position)
  BY Counters DEF FlowType
<1>1. CASE NodeSends
  <2>1. ASSUME NEW i, In(i, shown) \/ In(i, persisted)
        PROVE  i \in 1..Len(sent) /\ sent'[i] = sent[i]
    BY <1>0, <1>1, <2>1, InPositions, SentGrows DEF Position
  <2>2. QED
    BY <1>1, <2>1, SentGrows DEF FileFollowsScreen, Increasing, In
<1>2. CASE Consume
  <2>1. /\ taken' = taken + 1 /\ sent' = sent /\ persisted' = persisted
        /\ debug' = debug /\ fileOpen' = fileOpen /\ consumer = "taking"
        /\ consumer' = IF Keeps(sent[taken + 1]) THEN "persisting" ELSE "taking"
    BY <1>2, Taking
  <2>2. \A i \in 1..Len(sent) : In(i, shown)' <=> i <= taken + 1 /\ Wanted(sent[i])
    BY <2>1 DEF ShownExactly, Wanted, In
  <2>3. ASSUME NEW i \in 1..Len(sent), i <= taken + 1, Wanted(sent[i]), sent[i].readable
        PROVE  In(i, shown) \/ (i = taken + 1 /\ consumer' = "persisting")
    <3>1. CASE i = taken + 1
      BY <2>1, <2>3, <3>1, KeepsReadable
    <3>2. CASE i <= taken
      BY <2>3, <3>2 DEF ShownExactly
    <3>3. QED
      BY <1>0, <2>3, <3>1, <3>2
  <2>4. \A i \in 1..Len(sent) : In(i, shown) => In(i, shown)'
    BY <1>0, <2>2 DEF ShownExactly
  <2>5. \A i : In(i, persisted)' <=> In(i, persisted)
    BY <2>1 DEF In
  <2>6. QED
    BY <2>1, <2>2, <2>3, <2>4, <2>5 DEF FileFollowsScreen, Increasing
<1>3. CASE Persist
  <2>1. /\ persisted' = Append(persisted, taken) /\ consumer = "persisting" /\ fileOpen
        /\ UNCHANGED <<sent, shown, taken, fileOpen>>
    BY <1>3 DEF Persist, mainVars, endVars, streamVars
  <2>2. taken \in 1..Len(sent) /\ Keeps(sent[taken]) /\ ~In(taken, persisted)
    BY <2>1 DEF FlowType, InHand, Position
  <2>3. In(taken, shown) /\ sent[taken].readable
    BY <1>0, <2>2, KeepsReadable DEF ShownExactly
  <2>4. \A i : In(i, persisted) => i < taken
    <3> SUFFICES ASSUME NEW i, In(i, persisted) PROVE i < taken
      OBVIOUS
    <3>1. i \in 1..Len(sent)
      BY <1>0, InPositions DEF Position
    <3>2. i <= taken /\ i # taken
      BY <2>2, <3>1 DEF FileFollowsScreen, ShownExactly
    <3>3. QED
      BY <1>0, <3>1, <3>2
  <2>5. Increasing(persisted')
    <3>1. persisted \in Seq(Nat)
      BY <1>0 DEF Position
    <3>2. QED
      BY <1>0, <2>1, <2>4, <3>1, IncreasingAppend DEF FileFollowsScreen
  <2>6. \A i : In(i, persisted') <=> In(i, persisted) \/ i = taken
    BY <1>0, <2>1, InAppend
  <2>7. \A i : In(i, shown') <=> In(i, shown)
    BY <2>1
  <2>8. ASSUME NEW i \in 1..Len(sent), In(i, shown), sent[i].readable
        PROVE  In(i, persisted) \/ i = taken \/ WriteFaults \/ ~fileOpen
    BY <2>8 DEF FileFollowsScreen
  <2>9. ASSUME NEW i \in 1..Len(sent), In(i, persisted)
        PROVE  In(i, shown) /\ sent[i].readable
    BY <2>9 DEF FileFollowsScreen
  <2>10. QED
    <3>1. \A i \in 1..Len(sent) :
            /\ In(i, persisted') => In(i, shown') /\ sent[i].readable
            /\ In(i, shown') /\ sent[i].readable => In(i, persisted') \/ WriteFaults \/ ~fileOpen
      BY <2>3, <2>6, <2>7, <2>8, <2>9
    <3>2. QED
      BY <2>1, <2>5, <3>1 DEF FileFollowsScreen, Increasing, In
<1>4. CASE PersistFails
  BY <1>4 DEF PersistFails, mainVars, endVars, streamVars, outVars,
              FileFollowsScreen, Increasing, In
<1>5. CASE CloseAll
  BY <1>5 DEF CloseAll, flowVars, streamVars, outVars, FileFollowsScreen, Increasing, In
<1>6. CASE Enqueue \/ TrySucceeds \/ ConsumerEnds
  <2>1. /\ UNCHANGED <<sent, shown, persisted, taken, fileOpen>>
        /\ consumer # "persisting"
    BY <1>6 DEF Enqueue, TrySucceeds, ConsumerEnds, Phases, connectVars, endVars, mainVars,
                streamVars, outVars, FlowType
  <2>2. QED
    BY <2>1 DEF FileFollowsScreen, Increasing, In
<1>7. CASE UNCHANGED <<sent, shown, persisted, taken, consumer, fileOpen>>
  BY <1>7 DEF FileFollowsScreen, Increasing, In
<1>8. QED
  BY <1>1, <1>2, <1>3, <1>4, <1>5, <1>6, <1>7
     DEF Next, Main, Receiver, Consumer, TryFails, AllFailed, SelectSignal, SelectDone,
         Summarise, Exit, Interrupt, StreamEnds, Recv, Forward, Stop, Dispatch, Post,
         PostSucceeds, PostFails, connectVars, endVars, mainVars, streamVars, recvVars,
         consumerVars, outVars, postVars, hookVars, flowVars, vars

\* The places of a message, one by one; they stay as long as its memberships do.
LEMMA Places ==
  \A i : /\ "queue" \in HookPlaces(i) <=> In(i, queue)
         /\ "posting" \in HookPlaces(i) <=> i \in posting
         /\ "posted" \in HookPlaces(i) <=> i \in posted
         /\ "unposted" \in HookPlaces(i) <=> i \in unposted
         /\ "dropped" \in HookPlaces(i) <=> i \in dropped
         /\ HookPlaces(i) \subseteq {"queue", "posting", "posted", "unposted", "dropped"}
BY DEF HookPlaces

LEMMA PlacesStay ==
  ASSUME NEW i,
         In(i, queue)' <=> In(i, queue), (i \in posting)' <=> i \in posting,
         (i \in posted)' <=> i \in posted, (i \in unposted)' <=> i \in unposted,
         (i \in dropped)' <=> i \in dropped
  PROVE  HookPlaces(i)' = HookPlaces(i)
BY DEF HookPlaces

\* A message in a place is meant for the webhook, and that is its only place.
LEMMA OnePlace ==
  ASSUME WebhookConserved, NEW i \in 1..Len(sent), NEW place \in HookPlaces(i)
  PROVE  ForHook(i) /\ HookPlaces(i) = {place}
BY DEF WebhookConserved

\* What holds of message i in WebhookConserved is kept if neither its claim on the
\* webhook nor its places change.
Settled(i) == IF ForHook(i) THEN \E place \in HookPlaces(i) : HookPlaces(i) = {place}
                            ELSE HookPlaces(i) = {}

LEMMA SettledStays ==
  ASSUME NEW i, Settled(i), ForHook(i)' <=> ForHook(i), HookPlaces(i)' = HookPlaces(i)
  PROVE  Settled(i)'
BY DEF Settled

LEMMA HookStays ==
  ASSUME UNCHANGED <<sent, hookVars, dropped>>, \A i \in 1..Len(sent) : ForHook(i)' <=> ForHook(i),
         WebhookConserved
  PROVE  WebhookConserved'
<1> SUFFICES ASSUME NEW i \in 1..Len(sent) PROVE Settled(i)'
  BY DEF WebhookConserved, Settled
<1>1. Settled(i)
  BY DEF WebhookConserved, Settled
<1>2. HookPlaces(i)' = HookPlaces(i)
  BY DEF HookPlaces, In, hookVars, postVars
<1>3. QED
  BY <1>1, <1>2, SettledStays

\* The consumer gives the message in hand its first place, the queue or the list
\* of the dropped; the dispatcher and the goroutines of the POSTs move messages
\* from one place to the next.
LEMMA HookStep ==
  ASSUME TypeOK, NoGap, Phases, InHand, WebhookConserved, [Next]_vars
  PROVE  WebhookConserved'
<1> USE DEF TypeOK
<1>0. /\ taken \in Nat /\ Len(sent) \in Nat /\ taken <= Len(sent)
      /\ queue \in Seq(Position) /\ queue \in Seq(Nat)
  BY Counters DEF FlowType, HookType, Position
<1>s. \A i \in 1..Len(sent) : Settled(i)
  BY DEF WebhookConserved, Settled
<1>1. CASE NodeSends
  <2>1. /\ Len(sent') = Len(sent) + 1 /\ \A i \in 1..Len(sent) : sent'[i] = sent[i]
        /\ UNCHANGED <<debug, taken, consumer, dropped, hookVars>>
    BY <1>1, SentGrows
  <2>2. \A i : HookPlaces(i)' = HookPlaces(i)
    BY <2>1 DEF HookPlaces, In, hookVars, postVars
  <2>3. ASSUME NEW i \in 1..Len(sent) PROVE Settled(i)'
    <3>1. ForHook(i)' <=> ForHook(i)
      BY <2>1 DEF ForHook, Wanted
    <3>2. QED
      BY <1>s, <2>2, <3>1, SettledStays
  <2>4. ASSUME NEW i \in 1..Len(sent') PROVE Settled(i)'
    <3>1. i \in 1..Len(sent) \/ i = Len(sent) + 1
      BY <1>0, <2>1
    <3>2. CASE i \in 1..Len(sent)
      BY <2>3, <3>2
    <3>3. CASE i = Len(sent) + 1
      <4>1. ~ForHook(i)'
        BY <1>0, <2>1, <3>3 DEF ForHook
      <4>2. HookPlaces(i)' = {}
        <5>1. i \notin Position
          BY <1>0, <3>3 DEF Position
        <5>2. ~In(i, queue)
          BY <1>0, <5>1, InPositions
        <5>3. HookPlaces(i) = {}
          BY <5>1, <5>2 DEF HookPlaces, HookType
        <5>4. QED
          BY <2>2, <5>3
      <4>3. QED
        BY <4>1, <4>2 DEF Settled
    <3>4. QED
      BY <3>1, <3>2, <3>3
  <2>5. QED
    BY <2>4 DEF WebhookConserved, Settled
<1>2. CASE Consume
  <2>1. /\ taken' = taken + 1 /\ sent' = sent /\ debug' = debug /\ consumer = "taking"
        /\ consumer' = IF Keeps(sent[taken + 1]) THEN "persisting" ELSE "taking"
        /\ UNCHANGED <<hookVars, dropped>>
    BY <1>2, Taking
  <2>2. ASSUME NEW i \in 1..Len(sent) PROVE ForHook(i)' <=> ForHook(i)
    <3>1. CASE i = taken + 1
      <4>1. ~ForHook(i)
        BY <1>0, <3>1 DEF ForHook
      <4>2. Wanted(sent[i])' /\ sent[i].readable => consumer' = "persisting"
        BY <2>1, <3>1, KeepsReadable DEF Wanted
      <4>3. ~ForHook(i)'
        BY <2>1, <3>1, <4>2 DEF ForHook
      <4>4. QED
        BY <4>1, <4>3
    <3>2. CASE i # taken + 1
      <4>1. i <= taken' <=> i <= taken
        BY <1>0, <2>1, <3>2
      <4>2. QED
        BY <2>1, <3>2, <4>1 DEF ForHook, Wanted
    <3>3. QED
      BY <3>1, <3>2
  <2>3. QED
    BY <2>1, <2>2, HookStays
<1>3. CASE Persist \/ PersistFails \/ TrySucceeds \/ ConsumerEnds
  <2>1. UNCHANGED <<debug, sent, taken, dropped, hookVars>>
    BY <1>3 DEF Persist, PersistFails, TrySucceeds, ConsumerEnds, mainVars, streamVars, outVars
  <2>2. consumer \in {"persisting", "queueing"} <=> consumer' \in {"persisting", "queueing"}
    BY <1>3 DEF Persist, PersistFails, TrySucceeds, ConsumerEnds, Phases
  <2>3. \A i \in 1..Len(sent) : ForHook(i)' <=> ForHook(i)
    BY <2>1, <2>2 DEF ForHook, Wanted
  <2>4. QED
    BY <2>1, <2>3, HookStays
<1>4. CASE Enqueue
  <2>1. /\ UNCHANGED <<debug, sent, taken, posting, posted, unposted>>
        /\ consumer = "queueing" /\ consumer' = "taking"
    BY <1>4 DEF Enqueue, mainVars, streamVars, postVars
  <2>2. taken \in 1..Len(sent) /\ Keeps(sent[taken])
    BY <2>1 DEF FlowType, InHand, Position
  <2>3. ~ForHook(taken) /\ HookPlaces(taken) = {}
    BY <1>s, <2>1, <2>2 DEF ForHook, Settled
  <2>4. \/ QueueSize = 0 /\ queue' = queue /\ dropped' = dropped
        \/ QueueSize > 0 /\ queue' = Append(queue, taken) /\ dropped' = dropped
        \/ QueueSize > 0 /\ queue' = queue /\ dropped' = dropped \cup {taken}
    BY <1>0, <1>4, SizeAssumption DEF Enqueue
  <2>5. ASSUME NEW i \in 1..Len(sent), i # taken PROVE Settled(i)'
    <3>1. ForHook(i)' <=> ForHook(i)
      BY <2>1, <2>5 DEF ForHook, Wanted
    <3>2. In(i, queue)' <=> In(i, queue)
      <4>1. In(i, Append(queue, taken)) <=> In(i, queue)
        BY <1>0, <2>5, InAppend
      <4>2. QED
        BY <2>4, <4>1 DEF In
    <3>3. (i \in dropped)' <=> i \in dropped
      BY <2>4, <2>5
    <3>4. HookPlaces(i)' = HookPlaces(i)
      BY <2>1, <3>2, <3>3, PlacesStay
    <3>5. QED
      BY <1>s, <3>1, <3>4, SettledStays
  <2>6. Settled(taken)'
    <3>1. ForHook(taken)' <=> QueueSize > 0
      BY <1>0, <2>1, <2>2, KeepsReadable DEF ForHook, Wanted
    <3>2. ~In(taken, queue) /\ taken \notin posting /\ taken \notin posted
          /\ taken \notin unposted /\ taken \notin dropped
      BY <2>3, Places
    <3>3. CASE QueueSize = 0 /\ queue' = queue /\ dropped' = dropped
      <4>1. HookPlaces(taken)' = {}
        BY <2>1, <2>3, <3>3 DEF HookPlaces, In
      <4>2. QED
        BY <3>1, <3>3, <4>1 DEF Settled
    <3>4. CASE QueueSize > 0 /\ queue' = Append(queue, taken) /\ dropped' = dropped
      <4>1. In(taken, Append(queue, taken))
        BY <1>0, InAppend
      <4>2. In(taken', queue')
        BY <2>1, <3>4, <4>1
      <4>3. HookPlaces(taken)' = {"queue"}
        BY <2>1, <3>2, <3>4, <4>2 DEF HookPlaces, In
      <4>4. QED
        BY <3>1, <3>4, <4>3 DEF Settled
    <3>5. CASE QueueSize > 0 /\ queue' = queue /\ dropped' = dropped \cup {taken}
      <4>1. HookPlaces(taken)' = {"dropped"}
        BY <2>1, <3>2, <3>5 DEF HookPlaces, In
      <4>2. QED
        BY <3>1, <3>5, <4>1 DEF Settled
    <3>6. QED
      BY <2>4, <3>3, <3>4, <3>5
  <2>7. QED
    BY <2>1, <2>5, <2>6 DEF WebhookConserved, Settled
<1>5. CASE Dispatch
  <2>1. /\ queue # << >> /\ queue' = Tail(queue) /\ posting' = posting \cup {Head(queue)}
        /\ UNCHANGED <<debug, sent, taken, consumer, posted, unposted, dropped>>
    BY <1>5 DEF Dispatch, mainVars, streamVars, consumerVars, outVars
  <2>2. In(Head(queue), queue) /\ \A i : In(i, queue') <=> In(i, queue) /\ i # Head(queue)
    BY <1>0, <2>1, InTail DEF InHand
  <2>3. \A i \in 1..Len(sent) : ForHook(i)' <=> ForHook(i)
    BY <2>1 DEF ForHook, Wanted
  <2>4. ASSUME NEW i \in 1..Len(sent), i # Head(queue) PROVE Settled(i)'
    <3>1. In(i, queue)' <=> In(i, queue)
      BY <2>2, <2>4 DEF In
    <3>2. HookPlaces(i)' = HookPlaces(i)
      BY <2>1, <2>4, <3>1, PlacesStay
    <3>3. QED
      BY <1>s, <2>3, <3>2, SettledStays
  <2>5. ASSUME NEW i \in 1..Len(sent), i = Head(queue) PROVE Settled(i)'
    <3>1. ForHook(i) /\ HookPlaces(i) = {"queue"}
      BY <2>2, <2>5, Places, OnePlace
    <3>2. i \notin posted /\ i \notin unposted /\ i \notin dropped /\ ~In(i, queue')
      BY <2>2, <2>5, <3>1, Places
    <3>3. HookPlaces(i)' = {"posting"}
      BY <2>1, <2>5, <3>2 DEF HookPlaces, In
    <3>4. QED
      BY <2>3, <3>1, <3>3 DEF Settled
  <2>6. QED
    BY <2>1, <2>4, <2>5 DEF WebhookConserved, Settled
<1>6. CASE Post
  <2>1. PICK m \in posting : PostSucceeds(m) \/ PostFails(m)
    BY <1>6 DEF Post
  <2>2. /\ UNCHANGED <<debug, sent, taken, consumer, queue, dropped>>
        /\ posting' = posting \ {m}
        /\ \/ posted' = posted \cup {m} /\ unposted' = unposted
           \/ posted' = posted /\ unposted' = unposted \cup {m}
    BY <2>1 DEF PostSucceeds, PostFails, mainVars, streamVars, consumerVars, outVars
  <2>3. \A i \in 1..Len(sent) : ForHook(i)' <=> ForHook(i)
    BY <2>2 DEF ForHook, Wanted
  <2>4. ASSUME NEW i \in 1..Len(sent), i # m PROVE Settled(i)'
    <3>1. In(i, queue)' <=> In(i, queue)
      BY <2>2 DEF In
    <3>2. HookPlaces(i)' = HookPlaces(i)
      BY <2>2, <2>4, <3>1, PlacesStay
    <3>3. QED
      BY <1>s, <2>3, <3>2, SettledStays
  <2>5. ASSUME NEW i \in 1..Len(sent), i = m PROVE Settled(i)'
    <3>1. ForHook(i) /\ HookPlaces(i) = {"posting"}
      BY <2>1, <2>5, Places, OnePlace
    <3>2. i \notin posted /\ i \notin unposted /\ i \notin dropped /\ ~In(i, queue)
      BY <3>1, Places
    <3>3. ~In(i, queue')
      BY <2>2, <3>2
    <3>4. HookPlaces(i)' = {"posted"} \/ HookPlaces(i)' = {"unposted"}
      <4>1. CASE posted' = posted \cup {m} /\ unposted' = unposted
        BY <2>2, <2>5, <3>2, <3>3, <4>1 DEF HookPlaces
      <4>2. CASE posted' = posted /\ unposted' = unposted \cup {m}
        BY <2>2, <2>5, <3>2, <3>3, <4>2 DEF HookPlaces
      <4>3. QED
        BY <2>2, <4>1, <4>2
    <3>5. QED
      BY <2>3, <3>1, <3>4 DEF Settled
  <2>6. QED
    BY <2>2, <2>4, <2>5 DEF WebhookConserved, Settled
<1>7. CASE UNCHANGED <<debug, consumer, sent, taken, hookVars, dropped>>
  <2>1. \A i \in 1..Len(sent) : ForHook(i)' <=> ForHook(i)
    BY <1>7 DEF ForHook, Wanted
  <2>2. QED
    BY <1>7, <2>1, HookStays
<1>8. QED
  BY <1>1, <1>2, <1>3, <1>4, <1>5, <1>6, <1>7
     DEF Next, Main, Receiver, Consumer, TryFails, AllFailed, SelectSignal, SelectDone,
         Summarise, CloseAll, Exit, Interrupt, StreamEnds, Recv, Forward, Stop,
         connectVars, endVars, mainVars, streamVars, recvVars,
         consumerVars, outVars, postVars, hookVars, flowVars, vars

-----------------------------------------------------------------------------

LEMMA IInvInit == Init => IInv
<1> SUFFICES ASSUME Init PROVE IInv
  OBVIOUS
<1>1. TypeOK
  BY TypeInit
<1>2. Len(<< >>) = 0
  OBVIOUS
<1>3. NoGap
  <2>1. received - (taken + Len(chan)) = 0
    <3>1. received = 0 /\ taken = 0 /\ Len(chan) = 0
      BY <1>2 DEF Init
    <3>2. QED
      BY <3>1
  <2>2. 1..Len(chan) = {}
    BY <1>2 DEF Init
  <2>3. receiver = "none"
    BY DEF Init
  <2>4. QED
    BY <2>1, <2>2, <2>3 DEF NoGap
<1>4. ShownExactly
  BY <1>2 DEF Init, ShownExactly, Increasing, In
<1>5. NoConnectionLeft
  BY DEF Init, NoConnectionLeft, Nodes
<1>6. Phases /\ Ended
  BY DEF Init, Phases, Ended
<1>7. InHand
  BY <1>2 DEF Init, InHand, Increasing, In
<1>8. FileFollowsScreen /\ WebhookConserved
  <2>1. Len(sent) = 0 /\ 1..Len(sent) = {} /\ Len(persisted) = 0
    BY <1>2 DEF Init
  <2>2. QED
    BY <2>1 DEF FileFollowsScreen, WebhookConserved, Increasing
<1>9. QED
  BY <1>1, <1>3, <1>4, <1>5, <1>6, <1>7, <1>8 DEF IInv

LEMMA IInvStep == IInv /\ [Next]_vars => IInv'
<1> SUFFICES ASSUME IInv, [Next]_vars PROVE IInv'
  OBVIOUS
<1>1. TypeOK' /\ NoGap' /\ ShownExactly' /\ NoConnectionLeft' /\ Phases' /\ Ended'
  BY MainTypeStep, FlowTypeStep, HookTypeStep, GapStep, ShownStep, ConnectionStep, PhaseStep,
     EndStep DEF IInv, TypeOK
<1>2. InHand' /\ FileFollowsScreen' /\ WebhookConserved'
  BY <1>1, HandStep, FileStep, HookStep DEF IInv
<1>3. QED
  BY <1>1, <1>2 DEF IInv

LEMMA IInvHolds == Spec => []IInv
BY IInvInit, IInvStep, PTL DEF Spec

\* The variables keep their types, and neither buffered channel holds more than
\* its capacity.
THEOREM TypeCorrect == Spec => []TypeOK
<1>1. IInv => TypeOK
  BY DEF IInv
<1>2. QED
  BY <1>1, IInvHolds, PTL

\* Between the stream and the consumer no message is lost, repeated or reordered,
\* unless the context is cancelled.
THEOREM ChannelIsAWindow == Spec => []NoGap
<1>1. IInv => NoGap
  BY DEF IInv
<1>2. QED
  BY <1>1, IInvHolds, PTL

\* The screen shows, in order and once each, exactly what the user asked for of
\* the messages taken.
THEOREM ScreenIsFaithful == Spec => []ShownExactly
<1>1. IInv => ShownExactly
  BY DEF IInv
<1>2. QED
  BY <1>1, IInvHolds, PTL

\* A subscribe that ends by itself has shown and counted all that was sent.
THEOREM NothingLeftAtTheEnd == Spec => []EndIsComplete
<1>1. IInv => EndIsComplete
  BY DEF IInv, Ended, EndIsComplete
<1>2. QED
  BY <1>1, IInvHolds, PTL

\* Only the node after those that failed has an open connection, and none has
\* when the process exits.
THEOREM ConnectionsClosed == Spec => []NoConnectionLeft
<1>1. IInv => NoConnectionLeft
  BY DEF IInv
<1>2. QED
  BY <1>1, IInvHolds, PTL

\* The file given with --persist is a copy of what the screen shows of the texts,
\* in order and once each: the write after the line is printed leaves out only
\* what could not be written (subscribe.go:351).
THEOREM FileIsFaithful == Spec => []FileFollowsScreen
<1>1. IInv => FileFollowsScreen
  BY DEF IInv
<1>2. QED
  BY <1>1, IInvHolds, PTL

\* No message for the webhook is lost silently or posted twice between the
\* consumer's select on the queue and the end of its POST.
THEOREM WebhookKeepsCount == Spec => []WebhookConserved
<1>1. IInv => WebhookConserved
  BY DEF IInv
<1>2. QED
  BY <1>1, IInvHolds, PTL

=============================================================================
