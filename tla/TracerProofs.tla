---------------------------- MODULE TracerProofs ----------------------------
(***************************************************************************)
(* Theorems about Tracer, for every capacity of the channels, every number *)
(* of messages and rows, every pause and every content of the snapshots.   *)
(***************************************************************************)
EXTENDS Tracer, Recursion, SequenceTheorems, TLAPS

Texts == [kind : Kinds, number : Nat]
Statuses == Seq(Texts)
History == Seq(Polls)
Outcomes == {"asking", "failed", "answered", "spoilt", "snapshot"}

-----------------------------------------------------------------------------
(* The sequences that the steps change.                                    *)

LEMMA SaidType ==
  ASSUME statusCh \in Statuses, Len(statusCh) <= StatusSize, NEW text \in Texts, Say(text)
  PROVE  /\ statusCh' \in Statuses /\ Len(statusCh') <= StatusSize
         /\ Len(statusCh') = Len(statusCh) + 1 /\ statusCh'[Len(statusCh) + 1] = text
         /\ \A i \in 1..Len(statusCh) : statusCh'[i] = statusCh[i]
<1>1. StatusSize \in Nat /\ Len(statusCh) \in Nat /\ Len(statusCh) < StatusSize
  BY CapacityAssumption, LenProperties DEF Say, Statuses
<1>2. statusCh' = Append(statusCh, text)
  BY DEF Say
<1>3. QED
  BY <1>1, <1>2, AppendProperties DEF Statuses

LEMMA TextType == \A k \in Kinds : Text(k) \in Texts /\ Text(k).kind = k
BY DEF Text, Texts

LEMMA PollsAre ==
  ASSUME NEW h \in History
  PROVE  /\ Len(h) \in Nat /\ DOMAIN h = 1..Len(h)
         /\ \A k \in 1..Len(h) : h[k] \in Polls /\ h[k].at \in Nat /\ h[k].content \in Seq(Int)
         /\ h # << >> => Len(h) \in 1..Len(h)
<1>1. \A k \in 1..Len(h) : h[k] \in Polls
  BY ElementOfSeq DEF History
<1>2. Len(h) \in Nat /\ DOMAIN h = 1..Len(h) /\ (h # << >> => Len(h) \in Nat \ {0})
  BY LenProperties, EmptySeq DEF History
<1>3. QED
  BY <1>1, <1>2 DEF Polls

\* The last poll is replaced.
LEMMA LastIs ==
  ASSUME NEW h \in History, h # << >>, NEW e \in Polls
  PROVE  /\ [h EXCEPT ![Len(h)] = e] \in History
         /\ [h EXCEPT ![Len(h)] = e] # << >>
         /\ Len([h EXCEPT ![Len(h)] = e]) = Len(h)
         /\ \A k \in 1..Len(h) :
              [h EXCEPT ![Len(h)] = e][k] = IF k = Len(h) THEN e ELSE h[k]
<1>1. Len(h) \in 1..Len(h) /\ Len(h) \in Nat
  BY PollsAre
<1>2. /\ [h EXCEPT ![Len(h)] = e] \in History
      /\ Len([h EXCEPT ![Len(h)] = e]) = Len(h)
      /\ \A j \in 1..Len(h) : [h EXCEPT ![Len(h)] = e][j] = IF j = Len(h) THEN e ELSE h[j]
  BY <1>1, ExceptSeq DEF History
<1> DEFINE g == [h EXCEPT ![Len(h)] = e]
<1> HIDE DEF g
<1>3. g # << >>
  BY <1>1, <1>2, EmptySeq DEF g
<1>4. QED
  BY <1>2, <1>3 DEF g

\* What Outcome and Read do to the polls.
LEMMA OutcomeIs ==
  ASSUME polls \in History, polls # << >>, NEW o \in Outcomes, Outcome(o)
  PROVE  /\ polls' \in History /\ polls' # << >> /\ Len(polls') = Len(polls)
         /\ \A k \in 1..Len(polls) : polls'[k].at = polls[k].at
         /\ \A k \in 1..Len(polls) : k # Len(polls) => polls'[k] = polls[k]
         /\ polls'[Len(polls)].outcome = o
<1> DEFINE e == [polls[Len(polls)] EXCEPT !.outcome = o]
<1>1. polls[Len(polls)] \in Polls /\ Len(polls) \in 1..Len(polls)
  BY PollsAre
<1>2. e \in Polls /\ e.at = polls[Len(polls)].at /\ e.outcome = o
  BY <1>1 DEF Polls, Outcomes
<1>3. polls' = [polls EXCEPT ![Len(polls)] = e]
  BY DEF Outcome
<1> HIDE DEF e
<1>4. /\ polls' \in History /\ polls' # << >> /\ Len(polls') = Len(polls)
      /\ \A k \in 1..Len(polls) : polls'[k] = IF k = Len(polls) THEN e ELSE polls[k]
  BY <1>2, <1>3, LastIs
<1>5. QED
  BY <1>1, <1>2, <1>4

LEMMA ReadIs ==
  ASSUME polls \in History, polls # << >>, NEW c \in Seq(Int),
         polls' = [polls EXCEPT ![Len(polls)].outcome = "snapshot", ![Len(polls)].content = c]
  PROVE  /\ polls' \in History /\ polls' # << >> /\ Len(polls') = Len(polls)
         /\ \A k \in 1..Len(polls) : polls'[k].at = polls[k].at
         /\ \A k \in 1..Len(polls) : k # Len(polls) => polls'[k] = polls[k]
         /\ polls'[Len(polls)].outcome = "snapshot"
<1> DEFINE d == [polls[Len(polls)] EXCEPT !.outcome = "snapshot"]
<1> DEFINE e == [d EXCEPT !.content = c]
<1>1. polls[Len(polls)] \in Polls /\ Len(polls) \in 1..Len(polls)
  BY PollsAre
<1>2. d \in Polls /\ d.at = polls[Len(polls)].at /\ d.outcome = "snapshot"
  BY <1>1 DEF Polls
<1> DEFINE half == [polls EXCEPT ![Len(polls)] = d]
<1>3. polls' = [half EXCEPT ![Len(polls)] = [half[Len(polls)] EXCEPT !.content = c]]
  OBVIOUS
<1> HIDE DEF d
<1>4. e \in Polls /\ e.at = polls[Len(polls)].at /\ e.outcome = "snapshot"
  BY <1>2 DEF Polls
<1>5. /\ half \in History /\ half # << >> /\ Len(half) = Len(polls)
      /\ \A k \in 1..Len(polls) : half[k] = IF k = Len(polls) THEN d ELSE polls[k]
  BY <1>2, LastIs
<1> HIDE DEF half
<1>6. half[Len(polls)] = d
  BY <1>1, <1>5
<1>7. polls' = [half EXCEPT ![Len(half)] = e]
  BY <1>3, <1>5, <1>6
<1> HIDE DEF e
<1>8. /\ polls' \in History /\ polls' # << >> /\ Len(polls') = Len(half)
      /\ \A k \in 1..Len(half) : polls'[k] = IF k = Len(half) THEN e ELSE half[k]
  <2> DEFINE g == [half EXCEPT ![Len(half)] = e]
  <2>1. e \in Polls /\ half \in History /\ half # << >>
    BY <1>4, <1>5
  <2>2. /\ g \in History /\ g # << >> /\ Len(g) = Len(half)
        /\ \A k \in 1..Len(half) : g[k] = IF k = Len(half) THEN e ELSE half[k]
    BY <2>1, LastIs
  <2>3. polls' = g
    BY <1>7
  <2> HIDE DEF g
  <2>4. QED
    BY <2>2, <2>3
<1>9. QED
  BY <1>1, <1>4, <1>5, <1>8

LEMMA AskIs ==
  ASSUME polls \in History, now \in Nat,
         polls' = Append(polls, [at |-> now, outcome |-> "asking", content |-> << >>])
  PROVE  /\ polls' \in History /\ polls' # << >> /\ Len(polls') = Len(polls) + 1
         /\ \A k \in 1..Len(polls) : polls'[k] = polls[k]
         /\ polls'[Len(polls) + 1].at = now /\ polls'[Len(polls) + 1].outcome = "asking"
<1> DEFINE e == [at |-> now, outcome |-> "asking", content |-> << >>]
<1>1. << >> \in Seq(Int)
  BY EmptySeq
<1>2. e \in Polls /\ e.at = now /\ e.outcome = "asking"
  BY <1>1 DEF Polls
<1> HIDE DEF e
<1>3. polls' = Append(polls, e)
  BY DEF e
<1>4. QED
  BY <1>2, <1>3, AppendProperties DEF History

-----------------------------------------------------------------------------
(* Types, and where the stream is.                                         *)

ResetPlaces == {"start", "asking", "reset done", "reset failed", "ended"}

WorldType == now \in Nat /\ due \in BOOLEAN /\ cancelled \in BOOLEAN /\ urlOk \in BOOLEAN
MainType ==
  /\ main \in {"running", "exited", "crashed"} /\ key \in {"none", "q", "r"} /\ lastReset \in Int
  /\ shown \in Seq(Nat) /\ table \in Seq(Int) /\ Len(table) <= MaxRows
  /\ told \in [errors : SUBSET Nat, completed : BOOLEAN]
StreamType ==
  stream \in StreamPlaces /\ backoff \in First..Longest /\ wake \in Nat /\ polls \in History
PubType ==
  /\ publisher \in {"start", "loop", "asking", "failed", "ended"}
  /\ tries \in 0..Count /\ failures \in 0..tries
ResetType == resets \in Seq(ResetPlaces)
SnapType == snapCh \in Seq(Nat) /\ Len(snapCh) <= SnapSize
StatusType == statusCh \in Statuses /\ Len(statusCh) <= StatusSize

LEMMA TypeParts ==
  /\ TypeOK <=> /\ WorldType /\ MainType /\ StreamType /\ PubType /\ ResetType
                /\ SnapType /\ StatusType
  /\ TypeOK' <=> /\ WorldType' /\ MainType' /\ StreamType' /\ PubType' /\ ResetType'
                 /\ SnapType' /\ StatusType'
BY DEF TypeOK, WorldType, MainType, StreamType, PubType, ResetType, SnapType, StatusType,
       ResetPlaces, Statuses, Texts, History

\* Parts whose variables a step leaves alone.
LEMMA QuietParts ==
  /\ UNCHANGED world => (WorldType' <=> WorldType)
  /\ UNCHANGED mainVars => (MainType' <=> MainType)
  /\ UNCHANGED streamVars => (StreamType' <=> StreamType)
  /\ UNCHANGED pubVars => (PubType' <=> PubType)
  /\ UNCHANGED resets => (ResetType' <=> ResetType)
  /\ UNCHANGED snapCh => (SnapType' <=> SnapType)
  /\ UNCHANGED statusCh => (StatusType' <=> StatusType)
BY DEF world, mainVars, streamVars, pubVars, WorldType, MainType, StreamType, PubType,
       ResetType, SnapType, StatusType

LEMMA SaysType ==
  ASSUME StatusType, NEW text \in Texts, Say(text)
  PROVE  StatusType'
BY SaidType DEF StatusType

LEMMA TypeInit == Init => TypeOK
<1> SUFFICES ASSUME Init PROVE TypeOK
  OBVIOUS
<1>1. \A S : << >> \in Seq(S) /\ Len(<< >>) = 0
  BY EmptySeq
<1>2. WorldType /\ StreamType
  <2>1. polls \in History
    BY <1>1 DEF Init, History
  <2>2. backoff = First /\ First \in First..Longest
    BY BackoffAssumption DEF Init
  <2>3. QED
    BY <2>1, <2>2 DEF Init, WorldType, StreamType, StreamPlaces
<1>3. MainType
  <2>1. shown \in Seq(Nat) /\ table \in Seq(Int) /\ Len(table) = 0
    BY <1>1 DEF Init
  <2>2. lastReset \in Int /\ MaxRows \in Nat
    BY CountAssumption, CapacityAssumption DEF Init
  <2>3. QED
    BY <2>1, <2>2 DEF Init, MainType
<1>4. PubType
  BY CountAssumption DEF Init, PubType
<1>5. ResetType /\ SnapType /\ StatusType
  <2>1. /\ resets \in Seq(ResetPlaces) /\ snapCh \in Seq(Nat) /\ Len(snapCh) = 0
        /\ statusCh \in Statuses /\ Len(statusCh) = 0
    BY <1>1 DEF Init, Statuses
  <2>2. QED
    BY <2>1, CapacityAssumption DEF ResetType, SnapType, StatusType
<1>6. QED
  BY <1>2, <1>3, <1>4, <1>5, TypeParts

LEMMA StreamTypeStep ==
  ASSUME TypeOK, StreamKnows, StreamNext
  PROVE  TypeOK'
<1> USE QuietParts, TypeParts DEF channels
<1>1. /\ WorldType /\ MainType /\ StreamType /\ PubType /\ ResetType /\ SnapType /\ StatusType
  OBVIOUS
<1>2. \A k \in {"connecting", "config error", "retrying", "connected", "spoilt"} : Text(k) \in Texts
  BY TextType DEF Kinds
<1>3. ASSUME UNCHANGED <<mainVars, pubVars, resets>>, WorldType', StreamType', SnapType', StatusType'
      PROVE  TypeOK'
  BY <1>1, <1>3
<1>4. CASE Announce
  <2>1. StatusType' /\ StreamType'
    BY <1>1, <1>2, <1>4, SaysType DEF Announce, Stream, StreamType, StreamPlaces
  <2>2. QED
    BY <1>1, <1>3, <1>4, <2>1 DEF Announce
<1>5. CASE LoopHead
  <2>1. StreamType'
    BY <1>1, <1>5 DEF LoopHead, Stream, StreamType, StreamPlaces
  <2>2. QED
    BY <1>1, <1>3, <1>5, <2>1 DEF LoopHead
<1>6. CASE Tock \/ Skip
  <2>1. StreamType' /\ WorldType'
    BY <1>1, <1>6 DEF Tock, Skip, Stream, StreamType, StreamPlaces, WorldType
  <2>2. QED
    BY <1>1, <1>3, <1>6, <2>1 DEF Tock, Skip
<1>7. CASE BadUrl
  <2>1. StatusType' /\ StreamType'
    BY <1>1, <1>2, <1>7, SaysType DEF BadUrl, Stream, StreamType, StreamPlaces
  <2>2. QED
    BY <1>1, <1>3, <1>7, <2>1 DEF BadUrl
<1>8. CASE Ask
  <2>1. StreamType'
    BY <1>1, <1>8, AskIs DEF Ask, Stream, StreamType, StreamPlaces, WorldType
  <2>2. QED
    BY <1>1, <1>3, <1>8, <2>1 DEF Ask
<1>9. ASSUME NEW o \in Outcomes, Outcome(o), polls # << >> PROVE polls' \in History
  BY <1>1, <1>9, OutcomeIs DEF StreamType
<1>10. CASE PollFails \/ ReadFails
  <2>1. polls # << >>
    BY <1>10 DEF PollFails, ReadFails, Stream, StreamKnows
  <2>2. StreamType'
    BY <1>1, <1>9, <1>10, <2>1 DEF PollFails, ReadFails, Stream, StreamType, StreamPlaces, Outcomes
  <2>3. QED
    BY <1>1, <1>3, <1>10, <2>2 DEF PollFails, ReadFails
<1>11. CASE Retry
  <2>1. now \in Nat /\ backoff \in Nat
    BY <1>1, BackoffAssumption DEF WorldType, StreamType
  <2>2. StatusType' /\ wake' \in Nat
    <3>1. StatusType'
      BY <1>1, <1>2, <1>11, SaysType DEF Retry
    <3>2. wake' = now + backoff
      BY <1>11 DEF Retry
    <3>3. QED
      BY <2>1, <3>1, <3>2
  <2>3. StreamType'
    BY <1>1, <1>11, <2>2 DEF Retry, Stream, StreamType, StreamPlaces
  <2>4. QED
    BY <1>1, <1>3, <1>11, <2>2, <2>3 DEF Retry
<1>12. CASE Resume
  <2>1. backoff' \in First..Longest
    BY <1>1, <1>12, BackoffAssumption DEF Resume, Doubled, StreamType
  <2>2. StreamType'
    BY <1>1, <1>12, <2>1 DEF Resume, Stream, StreamType, StreamPlaces
  <2>3. QED
    BY <1>1, <1>3, <1>12, <2>2 DEF Resume
<1>13. CASE PollAnswers
  <2>1. polls # << >> /\ First \in First..Longest
    BY <1>13, BackoffAssumption DEF PollAnswers, Stream, StreamKnows
  <2>2. StreamType'
    BY <1>1, <1>9, <1>13, <2>1 DEF PollAnswers, Stream, StreamType, StreamPlaces, Outcomes
  <2>3. QED
    BY <1>1, <1>3, <1>13, <2>2 DEF PollAnswers
<1>14. CASE Connected
  <2>1. StatusType' /\ StreamType'
    BY <1>1, <1>2, <1>14, SaysType DEF Connected, Stream, StreamType, StreamPlaces
  <2>2. QED
    BY <1>1, <1>3, <1>14, <2>1 DEF Connected
<1>15. CASE Read
  <2>1. polls # << >>
    BY <1>15 DEF Read, Stream, StreamKnows
  <2>2. polls' \in History
    BY <1>1, <1>15, <2>1, ReadIs, ContentAssumption DEF Read, StreamType
  <2>3. StreamType'
    BY <1>1, <1>15, <2>2 DEF Read, Stream, StreamType, StreamPlaces
  <2>4. QED
    BY <1>1, <1>3, <1>15, <2>3 DEF Read
<1>16. CASE Spoilt
  <2>1. StatusType' /\ StreamType'
    BY <1>1, <1>2, <1>16, SaysType DEF Spoilt, Stream, StreamType, StreamPlaces
  <2>2. QED
    BY <1>1, <1>3, <1>16, <2>1 DEF Spoilt
<1>17. CASE Offer
  <2>1. Len(polls) \in Nat
    BY <1>1, PollsAre DEF StreamType
  <2>2. SnapType'
    BY <1>1, <1>17, <2>1, CapacityAssumption DEF Offer, SnapType
  <2>3. StreamType'
    BY <1>1, <1>17 DEF Offer, Stream, StreamType, StreamPlaces
  <2>4. QED
    BY <1>1, <1>3, <1>17, <2>2, <2>3 DEF Offer
<1>18. CASE StreamEnds
  <2>1. StreamType'
    BY <1>1, <1>18 DEF StreamEnds, Stream, StreamType, StreamPlaces
  <2>2. QED
    BY <1>1, <1>3, <1>18, <2>1 DEF StreamEnds
<1>19. QED
  BY <1>4, <1>5, <1>6, <1>7, <1>8, <1>10, <1>11, <1>12, <1>13, <1>14, <1>15, <1>16, <1>17, <1>18
  DEF StreamNext

LEMMA PubTypeStep ==
  ASSUME TypeOK, TriesFirst, PubNext
  PROVE  TypeOK'
<1> USE QuietParts, TypeParts DEF channels
<1>1. /\ WorldType /\ MainType /\ StreamType /\ PubType /\ ResetType /\ SnapType /\ StatusType
  OBVIOUS
<1>2. \A k \in {"publishing", "completed"} : Text(k) \in Texts
  BY TextType DEF Kinds
<1>3. failures \in Nat /\ failures \in 0..tries /\ tries \in 0..Count /\ Count \in Nat
  BY <1>1, CountAssumption DEF PubType
<1>4. [kind |-> "publish error", number |-> failures] \in Texts
  BY <1>3 DEF Texts, Kinds
<1>5. ASSUME UNCHANGED <<world, mainVars, streamVars, resets, snapCh>>, PubType', StatusType'
      PROVE  TypeOK'
  BY <1>1, <1>5
<1>6. CASE PubStarts
  <2>1. StatusType' /\ PubType'
    BY <1>1, <1>2, <1>6, SaysType DEF PubStarts, Publisher, PubType
  <2>2. QED
    BY <1>5, <1>6, <2>1 DEF PubStarts
<1>7. CASE PubSends
  <2>1. PubType'
    BY <1>1, <1>3, <1>7 DEF PubSends, Publisher, PubType
  <2>2. QED
    BY <1>1, <1>5, <1>7, <2>1 DEF PubSends
<1>8. CASE PubStops \/ PubConfirmed
  <2>1. PubType'
    BY <1>1, <1>8 DEF PubStops, PubConfirmed, Publisher, PubType
  <2>2. QED
    BY <1>1, <1>5, <1>8, <2>1 DEF PubStops, PubConfirmed
<1>9. CASE PubFails
  <2>1. failures < tries
    BY <1>9, <1>3 DEF PubFails, Publisher, TriesFirst
  <2>2. PubType'
    BY <1>1, <1>3, <1>9, <2>1 DEF PubFails, Publisher, PubType
  <2>3. QED
    BY <1>1, <1>5, <1>9, <2>2 DEF PubFails
<1>10. CASE PubReports
  <2>1. StatusType' /\ PubType'
    BY <1>1, <1>4, <1>10, SaysType DEF PubReports, Publisher, PubType
  <2>2. QED
    BY <1>5, <1>10, <2>1 DEF PubReports
<1>11. CASE PubCompletes
  <2>1. StatusType' /\ PubType'
    BY <1>1, <1>2, <1>11, SaysType DEF PubCompletes, Publisher, PubType
  <2>2. QED
    BY <1>5, <1>11, <2>1 DEF PubCompletes
<1>12. QED
  BY <1>6, <1>7, <1>8, <1>9, <1>10, <1>11 DEF PubNext

LEMMA TriesFirstStep ==
  ASSUME TypeOK, TriesFirst, PubNext
  PROVE  TriesFirst'
<1>1. failures \in 0..tries /\ tries \in 0..Count /\ Count \in Nat
  BY TypeParts, CountAssumption DEF PubType
<1>2. CASE PubSends
  <2>1. failures' = failures /\ tries' = tries + 1 /\ publisher' = "asking"
    BY <1>2 DEF PubSends, Publisher
  <2>2. QED
    BY <1>1, <2>1 DEF TriesFirst
<1>3. CASE PubFails
  <2>1. failures' = failures + 1 /\ publisher' = "failed"
    BY <1>3 DEF PubFails, Publisher
  <2>2. QED
    BY <1>1, <2>1 DEF TriesFirst
<1>4. CASE PubStarts \/ PubStops \/ PubConfirmed \/ PubReports \/ PubCompletes
  <2>1. publisher' \notin {"asking", "failed"}
    BY <1>4 DEF PubStarts, PubStops, PubConfirmed, PubReports, PubCompletes, Publisher
  <2>2. QED
    BY <2>1 DEF TriesFirst
<1>5. QED
  BY <1>2, <1>3, <1>4 DEF PubNext

LEMMA ResetTypeStep ==
  ASSUME TypeOK, NEW i \in DOMAIN resets, ResetNext(i)
  PROVE  TypeOK'
<1> USE QuietParts, TypeParts DEF channels
<1>1. /\ WorldType /\ MainType /\ StreamType /\ PubType /\ ResetType /\ SnapType /\ StatusType
  OBVIOUS
<1>2. /\ Text("resetting") \in Texts
      /\ \A o \in {"reset done", "reset failed"} : Text(o) \in Texts
  BY TextType DEF Kinds
<1>3. ASSUME NEW from, NEW to \in ResetPlaces, Reset(i, from, to) PROVE ResetType'
  <2>1. resets \in Seq(ResetPlaces) /\ i \in 1..Len(resets)
    BY <1>1, LenProperties DEF ResetType
  <2>2. QED
    BY <1>3, <2>1, ExceptSeq DEF Reset, ResetType
<1>4. CASE ResetSends(i)
  BY <1>1, <1>2, <1>3, <1>4, SaysType DEF ResetSends, ResetPlaces
<1>5. CASE ResetAnswers(i)
  BY <1>1, <1>3, <1>5 DEF ResetAnswers, ResetPlaces
<1>6. CASE ResetPanics(i)
  BY <1>1, <1>6 DEF ResetPanics, MainType
<1>7. CASE ResetReports(i)
  BY <1>1, <1>2, <1>3, <1>7, SaysType DEF ResetReports, ResetPlaces
<1>8. QED
  BY <1>4, <1>5, <1>6, <1>7 DEF ResetNext

\* The rows that a snapshot fills.
LEMMA RowsAre ==
  ASSUME NEW c \in Seq(Int), NEW t \in Rows(c)
  PROVE  t \in Seq(Int) /\ Len(t) <= MaxRows /\ Latest(t, c)
<1> DEFINE top == IF Len(c) < MaxRows THEN Len(c) ELSE MaxRows
<1>1. /\ Len(c) \in Nat /\ DOMAIN c = 1..Len(c) /\ \A k \in 1..Len(c) : c[k] \in Int
  BY LenProperties, ElementOfSeq
<1>2. top \in Nat /\ top <= MaxRows /\ top <= Len(c)
  BY <1>1, CapacityAssumption
<1>3. PICK f \in [DOMAIN c -> DOMAIN c] :
        /\ \A k \in DOMAIN c : \E i \in DOMAIN c : f[i] = k
        /\ \A i, j \in DOMAIN c : i < j => ~Before(c[f[j]], c[f[i]])
        /\ t = [i \in 1..top |-> c[f[i]]]
  BY DEF Rows
<1> HIDE DEF top
<1>4. ASSUME NEW i \in 1..top
      PROVE  i \in DOMAIN c /\ f[i] \in 1..Len(c) /\ t[i] = c[f[i]] /\ t[i] \in Int
  <2>1. i \in 1..Len(c)
    BY <1>1, <1>2
  <2>2. f[i] \in 1..Len(c)
    BY <1>1, <2>1
  <2>3. t[i] = c[f[i]]
    BY <1>3
  <2>4. QED
    BY <1>1, <2>1, <2>2, <2>3
<1>5. t \in Seq(Int) /\ Len(t) = top /\ DOMAIN t = 1..top
  BY <1>2, <1>3, <1>4
<1>6. ASSUME NEW i \in 1..top, NEW k \in 1..Len(c), c[k] # 0, t[i] = 0 \/ c[k] > t[i]
      PROVE  \E j \in 1..(i - 1) : t[j] = c[k]
  <2>1. PICK m \in 1..Len(c) : f[m] = k
    BY <1>1, <1>3
  <2>2. Before(c[f[m]], c[f[i]])
    BY <1>4, <1>6, <2>1 DEF Before
  <2>3. ~(i < m)
    <3>1. i \in DOMAIN c /\ m \in DOMAIN c
      BY <1>1, <1>4
    <3>2. QED
      BY <1>3, <2>2, <3>1
  <2>4. m # i
    BY <1>1, <1>4, <1>6, <2>1
  <2>5. m \in 1..(i - 1) /\ m \in 1..top
    BY <1>1, <1>2, <2>3, <2>4
  <2>6. QED
    BY <1>4, <2>1, <2>5
<1>7. Latest(t, c)
  BY <1>1, <1>4, <1>5, <1>6 DEF Latest, top
<1>8. QED
  BY <1>2, <1>5, <1>7

\* What is on the way: shown, or in the channel.
LEMMA WayIs ==
  ASSUME shown \in Seq(Nat), snapCh \in Seq(Nat)
  PROVE  /\ OnTheWay \in Seq(Nat) /\ Len(OnTheWay) = Len(shown) + Len(snapCh)
         /\ DOMAIN OnTheWay = 1..Len(OnTheWay)
         /\ \A i \in 1..Len(shown) : OnTheWay[i] = shown[i]
         /\ \A i \in (Len(shown) + 1)..Len(OnTheWay) : OnTheWay[i] = snapCh[i - Len(shown)]
         /\ snapCh # << >> =>
              Len(shown) + 1 \in 1..Len(OnTheWay) /\ OnTheWay[Len(shown) + 1] = Head(snapCh)
<1>1. Len(shown) \in Nat /\ Len(snapCh) \in Nat /\ (snapCh # << >> => Len(snapCh) > 0)
  BY EmptySeq, LenProperties
<1>2. /\ OnTheWay \in Seq(Nat) /\ Len(OnTheWay) = Len(shown) + Len(snapCh)
      /\ \A i \in 1..(Len(shown) + Len(snapCh)) :
           OnTheWay[i] = IF i <= Len(shown) THEN shown[i] ELSE snapCh[i - Len(shown)]
  BY ConcatProperties DEF OnTheWay
<1>3. DOMAIN OnTheWay = 1..Len(OnTheWay)
  BY <1>2, LenProperties
<1>4. snapCh # << >> => Head(snapCh) = snapCh[1]
  OBVIOUS
<1>5. \A i \in 1..Len(shown) : OnTheWay[i] = shown[i]
  BY <1>1, <1>2
<1>6. ASSUME NEW i \in (Len(shown) + 1)..Len(OnTheWay) PROVE OnTheWay[i] = snapCh[i - Len(shown)]
  <2>1. i \in 1..(Len(shown) + Len(snapCh)) /\ ~(i <= Len(shown))
    BY <1>1, <1>2
  <2>2. QED
    BY <1>2, <2>1
<1>7. ASSUME snapCh # << >>
      PROVE  Len(shown) + 1 \in 1..Len(OnTheWay) /\ OnTheWay[Len(shown) + 1] = Head(snapCh)
  <2>1. Len(shown) + 1 \in 1..Len(OnTheWay) /\ Len(shown) + 1 \in (Len(shown) + 1)..Len(OnTheWay)
    BY <1>1, <1>2, <1>7
  <2>2. (Len(shown) + 1) - Len(shown) = 1
    BY <1>1
  <2>3. QED
    BY <1>4, <1>6, <1>7, <2>1, <2>2
<1>8. QED
  BY <1>2, <1>3, <1>5, <1>6, <1>7

LEMMA MainTypeStep ==
  ASSUME TypeOK, SnapshotsInOrder, MainNext
  PROVE  TypeOK'
<1> USE QuietParts, TypeParts DEF channels
<1>1. /\ WorldType /\ MainType /\ StreamType /\ PubType /\ ResetType /\ SnapType /\ StatusType
  OBVIOUS
<1>2. ASSUME UNCHANGED <<world, streamVars, pubVars>>, MainType', ResetType', SnapType', StatusType'
      PROVE  TypeOK'
  BY <1>1, <1>2
<1>3. CASE Quit \/ CtxDone
  <2>1. MainType'
    BY <1>1, <1>3 DEF Quit, CtxDone, MainType
  <2>2. QED
    BY <1>1, <1>2, <1>3, <2>1 DEF Quit, CtxDone
<1>4. CASE ResetTooSoon
  <2>1. MainType'
    BY <1>1, <1>4 DEF ResetTooSoon, MainType
  <2>2. QED
    BY <1>1, <1>2, <1>4, <2>1 DEF ResetTooSoon
<1>5. CASE ResetStarts
  <2>1. MainType'
    BY <1>1, <1>5 DEF ResetStarts, MainType, WorldType
  <2>2. ResetType'
    BY <1>1, <1>5, AppendProperties DEF ResetStarts, ResetType, ResetPlaces
  <2>3. QED
    BY <1>1, <1>2, <1>5, <2>1, <2>2 DEF ResetStarts
<1>6. CASE TakeSnap
  <2>1. snapCh \in Seq(Nat) /\ snapCh # << >> /\ Len(snapCh) <= SnapSize
    BY <1>1, <1>6 DEF TakeSnap, SnapType
  <2>2. Head(snapCh) \in Nat /\ Tail(snapCh) \in Seq(Nat) /\ Len(Tail(snapCh)) <= SnapSize
    BY <2>1, HeadTailProperties, CapacityAssumption
  <2>3. SnapType'
    BY <1>6, <2>2 DEF TakeSnap, SnapType
  <2>4. shown' \in Seq(Nat)
    BY <1>1, <1>6, <2>2, AppendProperties DEF TakeSnap, MainType
  <2>5. table' \in Seq(Int) /\ Len(table') <= MaxRows
    <3>1. Head(snapCh) \in DOMAIN polls
      BY <1>1, <2>1, WayIs DEF MainType, SnapshotsInOrder, Snapshots
    <3>2. polls[Head(snapCh)].content \in Seq(Int)
      BY <1>1, <3>1, PollsAre DEF StreamType
    <3>3. QED
      BY <1>6, <3>2, RowsAre DEF TakeSnap
  <2>6. MainType'
    BY <1>1, <1>6, <2>4, <2>5 DEF TakeSnap, MainType
  <2>7. QED
    BY <1>1, <1>2, <1>6, <2>3, <2>6 DEF TakeSnap
<1>7. CASE StreamClosed
  BY <1>1, <1>2, <1>7 DEF StreamClosed, vars
<1>8. CASE TakeStatus
  <2>1. statusCh \in Statuses /\ statusCh # << >> /\ Len(statusCh) <= StatusSize
    BY <1>1, <1>8 DEF TakeStatus, StatusType
  <2>2. /\ Head(statusCh) \in Texts /\ Tail(statusCh) \in Statuses
        /\ Len(Tail(statusCh)) <= StatusSize
    BY <2>1, HeadTailProperties, CapacityAssumption DEF Statuses
  <2>3. StatusType'
    BY <1>8, <2>2 DEF TakeStatus, StatusType
  <2>4. told' \in [errors : SUBSET Nat, completed : BOOLEAN]
    BY <1>1, <1>8, <2>2 DEF TakeStatus, MainType, Noted, Texts
  <2>5. MainType'
    BY <1>1, <1>8, <2>4 DEF TakeStatus, MainType
  <2>6. QED
    BY <1>1, <1>2, <1>8, <2>3, <2>5 DEF TakeStatus
<1>9. QED
  BY <1>3, <1>4, <1>5, <1>6, <1>7, <1>8 DEF MainNext

-----------------------------------------------------------------------------
(* Snapshots on their way.                                                 *)

\* The main loop takes a snapshot from the channel's head to the end of those
\* shown, which is the same place on the way ...
LEMMA WayKept ==
  ASSUME TypeOK, TakeSnap
  PROVE  OnTheWay' = OnTheWay
<1>1. shown \in Seq(Nat) /\ snapCh \in Seq(Nat) /\ snapCh # << >>
  BY TypeParts DEF MainType, SnapType, TakeSnap
<1> DEFINE h == Head(snapCh)
<1> DEFINE t == Tail(snapCh)
<1>2. /\ h \in Nat /\ t \in Seq(Nat) /\ Len(t) = Len(snapCh) - 1 /\ h = snapCh[1]
      /\ \A i \in 1..Len(t) : t[i] = snapCh[i + 1]
      /\ Len(snapCh) \in Nat \ {0}
  BY <1>1, HeadTailProperties, EmptySeq
<1>3. shown' = Append(shown, h) /\ snapCh' = t
  BY DEF TakeSnap
<1> HIDE DEF h, t
<1>4. <<h>> \in Seq(Nat) /\ Len(<<h>>) = 1 /\ <<h>>[1] = h
  BY <1>2
<1>5. <<h>> \o t = snapCh
  <2>1. /\ <<h>> \o t \in Seq(Nat) /\ Len(<<h>> \o t) = 1 + Len(t)
        /\ \A i \in 1..(1 + Len(t)) : (<<h>> \o t)[i] = IF i <= 1 THEN <<h>>[i] ELSE t[i - 1]
    BY <1>2, <1>4, ConcatProperties
  <2>2. ASSUME NEW i \in 1..Len(<<h>> \o t) PROVE (<<h>> \o t)[i] = snapCh[i]
    <3>1. CASE i = 1
      BY <1>2, <1>4, <2>1, <3>1
    <3>2. CASE i # 1
      <4>1. i - 1 \in 1..Len(t) /\ (i - 1) + 1 = i /\ ~(i <= 1) /\ i \in 1..(1 + Len(t))
        BY <1>2, <2>1, <3>2
      <4>2. QED
        BY <1>2, <2>1, <4>1
    <3>3. QED
      BY <3>1, <3>2
  <2> DEFINE w == <<h>> \o t
  <2>3. w \in Seq(Nat) /\ Len(w) = Len(snapCh) /\ \A i \in 1..Len(w) : w[i] = snapCh[i]
    BY <1>2, <2>1, <2>2
  <2> HIDE DEF w
  <2>4. w = snapCh
    BY <1>1, <2>3, SeqEqual
  <2>5. QED
    BY <2>4 DEF w
<1>6. Append(shown, h) \o t = (shown \o <<h>>) \o t
  BY <1>1, <1>2, AppendIsConcat
<1>7. (shown \o <<h>>) \o t = shown \o (<<h>> \o t)
  BY <1>1, <1>2, <1>4, ConcatAssociative
<1>8. QED
  BY <1>3, <1>5, <1>6, <1>7 DEF OnTheWay

\* ... and the stream puts one behind all others.
LEMMA WayLonger ==
  ASSUME TypeOK, Offer
  PROVE  /\ Len(OnTheWay') = Len(OnTheWay) + 1 /\ DOMAIN OnTheWay' = 1..(Len(OnTheWay) + 1)
         /\ \A i \in 1..Len(OnTheWay) : OnTheWay'[i] = OnTheWay[i]
         /\ OnTheWay'[Len(OnTheWay) + 1] = Len(polls)
         /\ Len(OnTheWay) \in Nat /\ DOMAIN OnTheWay = 1..Len(OnTheWay)
<1>1. shown \in Seq(Nat) /\ snapCh \in Seq(Nat) /\ polls \in History
  BY TypeParts DEF MainType, SnapType, StreamType
<1>2. Len(polls) \in Nat
  BY <1>1, PollsAre
<1>3. shown' = shown /\ snapCh' = Append(snapCh, Len(polls))
  BY DEF Offer, mainVars
<1>4. OnTheWay' = Append(OnTheWay, Len(polls))
  <2>1. <<Len(polls)>> \in Seq(Nat)
    BY <1>2
  <2>2. Append(snapCh, Len(polls)) = snapCh \o <<Len(polls)>>
    BY <1>1, <1>2, AppendIsConcat
  <2>3. (shown \o snapCh) \o <<Len(polls)>> = shown \o (snapCh \o <<Len(polls)>>)
    BY <1>1, <2>1, ConcatAssociative
  <2>4. Append(shown \o snapCh, Len(polls)) = (shown \o snapCh) \o <<Len(polls)>>
    BY <1>1, <1>2, ConcatProperties, AppendIsConcat
  <2>5. QED
    BY <1>3, <2>2, <2>3, <2>4 DEF OnTheWay
<1>5. OnTheWay \in Seq(Nat) /\ Len(OnTheWay) \in Nat /\ DOMAIN OnTheWay = 1..Len(OnTheWay)
  BY <1>1, WayIs, LenProperties
<1>6. /\ Append(OnTheWay, Len(polls)) \in Seq(Nat)
      /\ Len(Append(OnTheWay, Len(polls))) = Len(OnTheWay) + 1
      /\ \A i \in 1..Len(OnTheWay) : Append(OnTheWay, Len(polls))[i] = OnTheWay[i]
      /\ Append(OnTheWay, Len(polls))[Len(OnTheWay) + 1] = Len(polls)
  BY <1>2, <1>5, AppendProperties
<1>7. DOMAIN OnTheWay' = 1..(Len(OnTheWay) + 1)
  BY <1>4, <1>6, LenProperties
<1>8. QED
  BY <1>4, <1>5, <1>6, <1>7

\* What snapshots are on the way, seen from the polls.
LEMMA WayOfSnapshots ==
  ASSUME TypeOK, SnapshotsInOrder
  PROVE  /\ polls \in History /\ Len(polls) \in Nat /\ DOMAIN polls = 1..Len(polls)
         /\ DOMAIN OnTheWay = 1..Len(OnTheWay) /\ Len(OnTheWay) \in Nat
         /\ \A i \in DOMAIN OnTheWay :
              OnTheWay[i] \in 1..Len(polls) /\ polls[OnTheWay[i]].outcome = "snapshot"
<1>1. shown \in Seq(Nat) /\ snapCh \in Seq(Nat) /\ polls \in History
  BY TypeParts DEF MainType, SnapType, StreamType
<1>2. /\ Len(polls) \in Nat /\ DOMAIN polls = 1..Len(polls)
      /\ OnTheWay \in Seq(Nat) /\ DOMAIN OnTheWay = 1..Len(OnTheWay)
  BY <1>1, PollsAre, WayIs
<1>3. Len(OnTheWay) \in Nat
  BY <1>2, LenProperties
<1>4. QED
  BY <1>1, <1>2, <1>3 DEF SnapshotsInOrder, Snapshots

\* Every poll but the last one keeps its outcome, and its moment.
LEMMA PollsGrow ==
  ASSUME TypeOK, StreamKnows, StreamNext
  PROVE  /\ polls' \in History /\ polls \in History
         /\ \/ UNCHANGED polls
            \/ Ask /\ Len(polls') = Len(polls) + 1 /\ \A k \in 1..Len(polls) : polls'[k] = polls[k]
            \/ /\ PollFails \/ PollAnswers \/ Read \/ ReadFails
               /\ polls # << >> /\ Len(polls') = Len(polls)
               /\ \A k \in 1..Len(polls) : polls'[k].at = polls[k].at
               /\ \A k \in 1..Len(polls) : k # Len(polls) => polls'[k] = polls[k]
<1>1. polls \in History /\ now \in Nat
  BY TypeParts DEF StreamType, WorldType
<1>2. polls' \in History
  BY StreamTypeStep, TypeParts DEF StreamType
<1>3. CASE Ask
  BY <1>1, <1>2, <1>3, AskIs DEF Ask
<1>4. CASE PollFails \/ PollAnswers \/ ReadFails
  <2>1. polls # << >> /\ \E o \in Outcomes : Outcome(o)
    BY <1>4 DEF PollFails, PollAnswers, ReadFails, Stream, StreamKnows, Outcomes
  <2>2. QED
    BY <1>1, <1>2, <1>4, <2>1, OutcomeIs
<1>5. CASE Read
  <2>1. polls # << >>
    BY <1>5 DEF Read, Stream, StreamKnows
  <2>2. PICK c \in Content :
          polls' = [polls EXCEPT ![Len(polls)].outcome = "snapshot", ![Len(polls)].content = c]
    BY <1>5 DEF Read
  <2>3. c \in Seq(Int)
    BY ContentAssumption
  <2>4. QED
    BY <1>1, <1>2, <1>5, <2>1, <2>2, <2>3, ReadIs
<1>6. CASE \/ Announce \/ LoopHead \/ Tock \/ BadUrl \/ Retry \/ Resume \/ Connected
           \/ Spoilt \/ Skip \/ Offer \/ StreamEnds
  BY <1>1, <1>2, <1>6
  DEF Announce, LoopHead, Tock, BadUrl, Retry, Resume, Connected, Spoilt, Skip, Offer, StreamEnds
<1>7. QED
  BY <1>3, <1>4, <1>5, <1>6 DEF StreamNext

\* The outcome that the last poll gets.
LEMMA LastOutcome ==
  ASSUME TypeOK, StreamKnows
  PROVE  /\ PollFails => polls'[Len(polls)].outcome = "failed" /\ Last.outcome = "asking"
         /\ PollAnswers => polls'[Len(polls)].outcome = "answered" /\ Last.outcome = "asking"
         /\ ReadFails => polls'[Len(polls)].outcome = "spoilt" /\ Last.outcome = "answered"
         /\ Read => polls'[Len(polls)].outcome = "snapshot" /\ Last.outcome = "answered"
         /\ Ask => polls'[Len(polls) + 1].outcome = "asking" /\ polls'[Len(polls) + 1].at = now
<1>1. polls \in History /\ now \in Nat
  BY TypeParts DEF StreamType, WorldType
<1>2. ASSUME NEW o \in Outcomes, Outcome(o), polls # << >> PROVE polls'[Len(polls)].outcome = o
  BY <1>1, <1>2, OutcomeIs
<1>3. CASE PollFails
  BY <1>2, <1>3 DEF PollFails, PollAnswers, Read, ReadFails, Ask, Stream, StreamKnows, Outcomes
<1>4. CASE PollAnswers
  BY <1>2, <1>4 DEF PollFails, PollAnswers, Read, ReadFails, Ask, Stream, StreamKnows, Outcomes
<1>5. CASE ReadFails
  BY <1>2, <1>5 DEF PollFails, PollAnswers, Read, ReadFails, Ask, Stream, StreamKnows, Outcomes
<1>6. CASE Read
  <2>1. polls # << >> /\ Last.outcome = "answered"
    BY <1>6 DEF Read, Stream, StreamKnows
  <2>2. PICK c \in Content :
          polls' = [polls EXCEPT ![Len(polls)].outcome = "snapshot", ![Len(polls)].content = c]
    BY <1>6 DEF Read
  <2>3. c \in Seq(Int)
    BY ContentAssumption
  <2>4. polls'[Len(polls)].outcome = "snapshot"
    BY <1>1, <2>1, <2>2, <2>3, ReadIs
  <2>5. QED
    BY <1>6, <2>1, <2>4 DEF PollFails, PollAnswers, Read, ReadFails, Ask, Stream
<1>7. CASE Ask
  BY <1>1, <1>7, AskIs DEF PollFails, PollAnswers, Read, ReadFails, Ask, Stream
<1>8. QED
  BY <1>3, <1>4, <1>5, <1>6, <1>7

LEMMA StreamKnowsStep ==
  ASSUME TypeOK, StreamKnows, SnapshotsInOrder, StreamNext
  PROVE  StreamKnows'
<1>1. /\ polls \in History /\ Len(polls) \in Nat /\ DOMAIN OnTheWay = 1..Len(OnTheWay)
      /\ \A i \in DOMAIN OnTheWay :
           OnTheWay[i] \in 1..Len(polls) /\ polls[OnTheWay[i]].outcome = "snapshot"
      /\ polls' \in History
  BY WayOfSnapshots, PollsGrow
<1>2. CASE Ask
  <2>1. polls' # << >> /\ Len(polls') = Len(polls) + 1 /\ stream' = "asking"
        /\ polls'[Len(polls')].outcome = "asking"
    BY <1>1, <1>2, AskIs, TypeParts DEF Ask, Stream, WorldType
  <2>2. QED
    BY <2>1 DEF StreamKnows, Last
<1>3. CASE PollFails \/ PollAnswers \/ ReadFails
  <2>1. polls' # << >> /\ Len(polls') = Len(polls)
    <3>1. polls # << >> /\ \E o \in Outcomes : Outcome(o)
      BY <1>3 DEF PollFails, PollAnswers, ReadFails, Stream, StreamKnows, Outcomes
    <3>2. QED
      BY <1>1, <3>1, OutcomeIs
  <2>2. /\ stream' \in {"failed", "answered", "spoilt"}
        /\ stream' = "answered" => PollAnswers
    BY <1>3 DEF PollFails, PollAnswers, ReadFails, Stream
  <2>3. QED
    BY <2>1, <2>2, LastOutcome DEF StreamKnows, Last
<1>4. CASE Read
  <2>1. /\ polls # << >> /\ Last.outcome = "answered" /\ stream' = "offering"
        /\ UNCHANGED <<shown, snapCh>>
    BY <1>4 DEF Read, Stream, StreamKnows, mainVars, channels
  <2>2. PICK c \in Content :
          polls' = [polls EXCEPT ![Len(polls)].outcome = "snapshot", ![Len(polls)].content = c]
    BY <1>4 DEF Read
  <2>3. c \in Seq(Int)
    BY ContentAssumption
  <2>4. /\ polls' # << >> /\ Len(polls') = Len(polls)
        /\ polls'[Len(polls)].outcome = "snapshot"
    BY <1>1, <2>1, <2>2, <2>3, ReadIs
  <2>5. \A i \in DOMAIN OnTheWay : OnTheWay[i] < Len(polls)
    BY <1>1, <2>1 DEF Last
  <2>6. OnTheWay' = OnTheWay
    BY <2>1 DEF OnTheWay
  <2>7. QED
    BY <2>1, <2>4, <2>5, <2>6 DEF StreamKnows, Last
<1>5. CASE \/ Announce \/ LoopHead \/ Tock \/ BadUrl \/ Retry \/ Resume \/ Connected
           \/ Spoilt \/ Skip \/ Offer \/ StreamEnds
  <2>1. UNCHANGED polls /\ Last' = Last
    BY <1>5
    DEF Announce, LoopHead, Tock, BadUrl, Retry, Resume, Connected, Spoilt, Skip, Offer,
        StreamEnds, Last
  <2>2. /\ stream' \notin {"start", "asking", "answered", "offering", "failed", "spoilt"}
        /\ stream' = "pausing" => stream = "failed"
        /\ stream' = "reading" => stream = "answered"
        /\ stream' = "skipping" => stream = "spoilt"
    BY <1>5
    DEF Announce, LoopHead, Tock, BadUrl, Retry, Resume, Connected, Spoilt, Skip, Offer,
        StreamEnds, Stream
  <2>3. QED
    BY <2>1, <2>2 DEF StreamKnows
<1>6. QED
  BY <1>2, <1>3, <1>4, <1>5 DEF StreamNext

\* Where the snapshots are on their way, and the polls, stay as they are.
LEMMA SameWay ==
  ASSUME StreamKnows, SnapshotsInOrder, UNCHANGED <<polls, stream>>, OnTheWay' = OnTheWay,
         cancelled => cancelled'
  PROVE  StreamKnows' /\ SnapshotsInOrder'
<1>1. Snapshots' = Snapshots /\ Last' = Last
  BY DEF Snapshots, Last
<1>2. StreamKnows'
  BY <1>1 DEF StreamKnows
<1>3. SnapshotsInOrder'
  BY <1>1 DEF SnapshotsInOrder
<1>4. QED
  BY <1>2, <1>3

LEMMA OneMore ==
  ASSUME NEW n \in Nat
  PROVE  /\ n + 1 \in 1..(n + 1)
         /\ \A i \in 1..n : i \in 1..(n + 1) /\ i # n + 1 /\ i < n + 1
         /\ \A i \in 1..(n + 1) : i # n + 1 => i \in 1..n
         /\ \A i, j \in 1..(n + 1) : i < j => i \in 1..n
OBVIOUS

LEMMA SnapshotsStep ==
  ASSUME TypeOK, StreamKnows, SnapshotsInOrder, StreamNext
  PROVE  SnapshotsInOrder'
<1>1. /\ polls \in History /\ Len(polls) \in Nat /\ DOMAIN polls = 1..Len(polls)
      /\ DOMAIN OnTheWay = 1..Len(OnTheWay) /\ Len(OnTheWay) \in Nat
      /\ \A i \in DOMAIN OnTheWay :
           OnTheWay[i] \in 1..Len(polls) /\ polls[OnTheWay[i]].outcome = "snapshot"
      /\ \A i, j \in DOMAIN OnTheWay : i < j => OnTheWay[i] < OnTheWay[j]
      /\ \A k \in 1..Len(polls) : polls[k].outcome = "snapshot" =>
           \/ \E i \in DOMAIN OnTheWay : OnTheWay[i] = k
           \/ k = Len(polls) /\ (stream = "offering" \/ (stream = "ended" /\ cancelled))
  BY WayOfSnapshots DEF SnapshotsInOrder, Snapshots
<1>2. polls' \in History /\ DOMAIN polls' = 1..Len(polls')
  BY PollsGrow, PollsAre
<1>3. ASSUME OnTheWay' = OnTheWay,
             \A k \in 1..Len(polls) : polls[k].outcome = "snapshot" =>
               k \in 1..Len(polls') /\ polls'[k].outcome = "snapshot",
             \A k \in 1..Len(polls') : polls'[k].outcome = "snapshot" =>
               \/ \E i \in DOMAIN OnTheWay : OnTheWay[i] = k
               \/ k = Len(polls') /\ (stream' = "offering" \/ (stream' = "ended" /\ cancelled'))
      PROVE  SnapshotsInOrder'
  BY <1>1, <1>2, <1>3 DEF SnapshotsInOrder, Snapshots
<1>4. CASE Ask
  <2>1. /\ Len(polls') = Len(polls) + 1 /\ \A k \in 1..Len(polls) : polls'[k] = polls[k]
        /\ polls'[Len(polls) + 1].outcome = "asking"
    BY <1>1, <1>4, AskIs, TypeParts DEF Ask, WorldType
  <2>2. OnTheWay' = OnTheWay /\ stream = "ready"
    BY <1>4 DEF Ask, Stream, OnTheWay, mainVars, channels
  <2>3. ASSUME NEW k \in 1..Len(polls'), polls'[k].outcome = "snapshot"
        PROVE  \E i \in DOMAIN OnTheWay : OnTheWay[i] = k
    <3>1. k # Len(polls) + 1
      BY <2>1, <2>3
    <3>2. k \in 1..Len(polls) /\ polls[k].outcome = "snapshot"
      BY <1>1, <2>1, <2>3, <3>1, OneMore
    <3>3. QED
      BY <1>1, <2>2, <3>2
  <2>4. \A k \in 1..Len(polls) : k \in 1..Len(polls')
    BY <1>1, <2>1, OneMore
  <2>5. QED
    BY <1>3, <2>1, <2>2, <2>3, <2>4
<1>5. CASE PollFails \/ PollAnswers \/ Read \/ ReadFails
  <2>1. /\ polls # << >> /\ Len(polls') = Len(polls)
        /\ \A k \in 1..Len(polls) : k # Len(polls) => polls'[k] = polls[k]
    <3>1. CASE Read
      <4>1. polls # << >>
        BY <3>1 DEF Read, Stream, StreamKnows
      <4>2. PICK c \in Content :
              polls' = [polls EXCEPT ![Len(polls)].outcome = "snapshot", ![Len(polls)].content = c]
        BY <3>1 DEF Read
      <4>3. c \in Seq(Int)
        BY ContentAssumption
      <4>4. QED
        BY <1>1, <4>1, <4>2, <4>3, ReadIs
    <3>2. CASE PollFails \/ PollAnswers \/ ReadFails
      <4>1. polls # << >> /\ \E o \in Outcomes : Outcome(o)
        BY <3>2 DEF PollFails, PollAnswers, ReadFails, Stream, StreamKnows, Outcomes
      <4>2. QED
        BY <1>1, <4>1, OutcomeIs
    <3>3. QED
      BY <1>5, <3>1, <3>2
  <2>2. Last.outcome # "snapshot" /\ (polls'[Len(polls)].outcome = "snapshot" => Read)
    BY <1>5, LastOutcome
  <2>3. /\ OnTheWay' = OnTheWay /\ stream \in {"asking", "reading"}
        /\ Read => stream' = "offering"
    BY <1>5 DEF PollFails, PollAnswers, Read, ReadFails, Stream, OnTheWay, mainVars, channels
  <2>4. ASSUME NEW k \in 1..Len(polls'), polls'[k].outcome = "snapshot"
        PROVE  \/ \E i \in DOMAIN OnTheWay : OnTheWay[i] = k
               \/ k = Len(polls') /\ stream' = "offering"
    <3>1. CASE k = Len(polls)
      BY <2>1, <2>2, <2>3, <2>4, <3>1
    <3>2. CASE k # Len(polls)
      BY <1>1, <2>1, <2>3, <2>4, <3>2
    <3>3. QED
      BY <3>1, <3>2
  <2>5. ASSUME NEW k \in 1..Len(polls), polls[k].outcome = "snapshot"
        PROVE  k \in 1..Len(polls') /\ polls'[k].outcome = "snapshot"
    <3>1. k # Len(polls)
      BY <2>2, <2>5 DEF Last
    <3>2. QED
      BY <2>1, <2>5, <3>1
  <2>6. QED
    BY <1>3, <2>3, <2>4, <2>5
<1>6. CASE Offer
  <2>1. /\ stream = "offering" /\ UNCHANGED polls
        /\ \A i \in DOMAIN OnTheWay : OnTheWay[i] < Len(polls)
        /\ polls # << >> /\ Last.outcome = "snapshot"
    BY <1>6 DEF Offer, Stream, StreamKnows
  <2>2. /\ DOMAIN OnTheWay' = 1..(Len(OnTheWay) + 1)
        /\ \A i \in 1..Len(OnTheWay) : OnTheWay'[i] = OnTheWay[i]
        /\ OnTheWay'[Len(OnTheWay) + 1] = Len(polls)
    BY <1>6, WayLonger
  <2>3. Len(polls) \in 1..Len(polls)
    BY <1>1, <2>1, PollsAre
  <2>4. ASSUME NEW i \in DOMAIN OnTheWay', NEW j \in DOMAIN OnTheWay', i < j
        PROVE  OnTheWay'[i] < OnTheWay'[j]
    <3>1. i \in 1..Len(OnTheWay)
      BY <1>1, <2>2, <2>4, OneMore
    <3>2. CASE j = Len(OnTheWay) + 1
      BY <1>1, <2>1, <2>2, <3>1, <3>2
    <3>3. CASE j # Len(OnTheWay) + 1
      <4>1. j \in 1..Len(OnTheWay)
        BY <1>1, <2>2, <3>3, OneMore
      <4>2. QED
        BY <1>1, <2>2, <2>4, <3>1, <4>1
    <3>4. QED
      BY <3>2, <3>3
  <2>5. ASSUME NEW i \in DOMAIN OnTheWay' PROVE OnTheWay'[i] \in Snapshots'
    <3>1. CASE i = Len(OnTheWay) + 1
      BY <1>1, <2>1, <2>2, <2>3, <3>1 DEF Snapshots, Last
    <3>2. CASE i # Len(OnTheWay) + 1
      <4>1. i \in 1..Len(OnTheWay)
        BY <1>1, <2>2, <3>2, OneMore
      <4>2. QED
        BY <1>1, <2>1, <2>2, <4>1 DEF Snapshots
    <3>3. QED
      BY <3>1, <3>2
  <2>6. ASSUME NEW k \in Snapshots' PROVE \E i \in DOMAIN OnTheWay' : OnTheWay'[i] = k
    <3>1. k \in 1..Len(polls) /\ polls[k].outcome = "snapshot"
      BY <1>1, <2>1 DEF Snapshots
    <3>2. CASE k = Len(polls)
      <4>1. Len(OnTheWay) + 1 \in DOMAIN OnTheWay'
        BY <1>1, <2>2, OneMore
      <4>2. QED
        BY <2>2, <3>2, <4>1
    <3>3. CASE k # Len(polls)
      <4>1. PICK i \in 1..Len(OnTheWay) : OnTheWay[i] = k
        BY <1>1, <3>1, <3>3
      <4>2. i \in DOMAIN OnTheWay'
        BY <1>1, <2>2, OneMore
      <4>3. QED
        BY <2>2, <4>1, <4>2
    <3>4. QED
      BY <3>2, <3>3
  <2>7. QED
    BY <2>4, <2>5, <2>6 DEF SnapshotsInOrder
<1>7. CASE \/ Announce \/ LoopHead \/ Tock \/ BadUrl \/ Retry \/ Resume \/ Connected
           \/ Spoilt \/ Skip \/ StreamEnds
  <2>1. UNCHANGED polls /\ OnTheWay' = OnTheWay
    BY <1>7
    DEF Announce, LoopHead, Tock, BadUrl, Retry, Resume, Connected, Spoilt, Skip, StreamEnds,
        mainVars, channels, OnTheWay
  <2>2. (stream = "offering" => stream' = "ended" /\ cancelled') /\ stream # "ended"
    <3>1. CASE StreamEnds
      BY <3>1 DEF StreamEnds, Stream, world
    <3>2. CASE ~StreamEnds
      BY <1>7, <3>2
      DEF Announce, LoopHead, Tock, BadUrl, Retry, Resume, Connected, Spoilt, Skip, Stream
    <3>3. QED
      BY <3>1, <3>2
  <2>3. QED
    BY <1>1, <1>3, <2>1, <2>2
<1>8. QED
  BY <1>4, <1>5, <1>6, <1>7 DEF StreamNext

-----------------------------------------------------------------------------
(* Polls and ticks.                                                        *)

LEMMA TicksAre ==
  ASSUME TypeOK
  PROVE  /\ polls \in History /\ Len(polls) \in Nat /\ DOMAIN polls = 1..Len(polls)
         /\ \A k \in 1..Len(polls) : polls[k].at \in Nat
         /\ now \in Nat /\ due \in BOOLEAN
<1>1. polls \in History /\ now \in Nat /\ due \in BOOLEAN
  BY TypeParts DEF StreamType, WorldType
<1>2. Len(polls) \in Nat /\ DOMAIN polls = 1..Len(polls) /\ \A k \in 1..Len(polls) : polls[k].at \in Nat
  BY <1>1, PollsAre
<1>3. QED
  BY <1>1, <1>2

\* A step that makes no poll, and leaves the clock alone.
LEMMA TicksKept ==
  ASSUME TypeOK, TypeOK', TicksLeft, PollsPaced, UNCHANGED now, due' => due,
         stream' = "ready" => stream = "ready",
         Len(polls') = Len(polls), \A k \in 1..Len(polls) : polls'[k].at = polls[k].at
  PROVE  TicksLeft' /\ PollsPaced'
<1>1. /\ Len(polls) \in Nat /\ DOMAIN polls = 1..Len(polls) /\ DOMAIN polls' = 1..Len(polls)
      /\ \A k \in 1..Len(polls) : polls[k].at \in Nat
      /\ now \in Nat /\ due \in BOOLEAN /\ due' \in BOOLEAN
  <2>1. polls' \in History /\ due' \in BOOLEAN
    BY TypeParts DEF StreamType, WorldType
  <2>2. QED
    BY <2>1, TicksAre, PollsAre
<1>2. ASSUME NEW i \in 1..Len(polls)
      PROVE  now' - polls'[i].at - (Len(polls') - i)
               >= (IF due' THEN 1 ELSE 0) + (IF stream' = "ready" THEN 1 ELSE 0) - 1
  <2>1. now - polls[i].at - (Len(polls) - i)
          >= (IF due THEN 1 ELSE 0) + (IF stream = "ready" THEN 1 ELSE 0) - 1
    BY <1>1 DEF TicksLeft, Slack
  <2>2. QED
    BY <1>1, <2>1
<1>3. TicksLeft'
  BY <1>1, <1>2 DEF TicksLeft, Slack
<1>4. PollsPaced'
  BY <1>1 DEF PollsPaced
<1>5. QED
  BY <1>3, <1>4

LEMMA TickStep ==
  ASSUME TypeOK, TicksLeft, PollsPaced, StreamKnows, Tick
  PROVE  TicksLeft' /\ PollsPaced'
<1>1. /\ Len(polls) \in Nat /\ DOMAIN polls = 1..Len(polls)
      /\ \A k \in 1..Len(polls) : polls[k].at \in Nat
      /\ now \in Nat /\ due \in BOOLEAN
  BY TicksAre
<1>2. UNCHANGED <<polls, stream>> /\ now' = now + 1 /\ due' \in BOOLEAN
  BY DEF Tick, streamVars
<1>3. ASSUME NEW i \in 1..Len(polls)
      PROVE  now' - polls[i].at - (Len(polls) - i)
               >= (IF due' THEN 1 ELSE 0) + (IF stream = "ready" THEN 1 ELSE 0) - 1
  <2>1. now - polls[i].at - (Len(polls) - i)
          >= (IF due THEN 1 ELSE 0) + (IF stream = "ready" THEN 1 ELSE 0) - 1
    BY <1>1 DEF TicksLeft, Slack
  <2>2. QED
    BY <1>1, <1>2, <2>1
<1>4. TicksLeft'
  BY <1>1, <1>2, <1>3 DEF TicksLeft, Slack
<1>5. PollsPaced'
  BY <1>1, <1>2 DEF PollsPaced
<1>6. QED
  BY <1>4, <1>5

\* A new poll: its slack is none, and that of the others one less.
LEMMA AskStep ==
  ASSUME TypeOK, TicksLeft, PollsPaced, Ask
  PROVE  TicksLeft' /\ PollsPaced'
<1>1. /\ polls \in History /\ Len(polls) \in Nat /\ DOMAIN polls = 1..Len(polls)
      /\ \A k \in 1..Len(polls) : polls[k].at \in Nat
      /\ now \in Nat /\ due \in BOOLEAN
  BY TicksAre
<1>2. /\ polls' \in History /\ Len(polls') = Len(polls) + 1
      /\ \A k \in 1..Len(polls) : polls'[k] = polls[k]
      /\ polls'[Len(polls) + 1].at = now
  BY <1>1, AskIs DEF Ask
<1>3. DOMAIN polls' = 1..(Len(polls) + 1)
  BY <1>2, PollsAre
<1>4. stream = "ready" /\ stream' = "asking" /\ UNCHANGED <<now, due>>
  BY DEF Ask, Stream, world
<1>5. ASSUME NEW i \in 1..Len(polls)
      PROVE  now - polls[i].at - (Len(polls) - i) >= (IF due THEN 1 ELSE 0)
  BY <1>1, <1>4 DEF TicksLeft, Slack
<1>6. ASSUME NEW i \in 1..(Len(polls) + 1)
      PROVE  now - polls'[i].at - ((Len(polls) + 1) - i) >= (IF due THEN 1 ELSE 0) + 0 - 1
  <2>1. CASE i = Len(polls) + 1
    BY <1>1, <1>2, <2>1
  <2>2. CASE i # Len(polls) + 1
    <3>1. i \in 1..Len(polls)
      BY <1>1, <2>2, OneMore
    <3>2. polls'[i].at = polls[i].at /\ polls[i].at \in Nat
      BY <1>1, <1>2, <3>1
    <3>3. now - polls[i].at - (Len(polls) - i) >= (IF due THEN 1 ELSE 0)
      BY <1>5, <3>1
    <3>4. QED
      BY <1>1, <3>1, <3>2, <3>3
  <2>3. QED
    BY <2>1, <2>2
<1>7. TicksLeft'
  BY <1>1, <1>2, <1>3, <1>4, <1>6 DEF TicksLeft, Slack
<1>8. ASSUME NEW i \in 1..(Len(polls) + 1), NEW j \in 1..(Len(polls) + 1), i < j
      PROVE  j - i <= polls'[j].at - polls'[i].at + 1
  <2>1. i \in 1..Len(polls) /\ polls'[i].at = polls[i].at /\ polls[i].at \in Nat
    BY <1>1, <1>2, <1>8, OneMore
  <2>2. CASE j = Len(polls) + 1
    <3>1. now - polls[i].at - (Len(polls) - i) >= (IF due THEN 1 ELSE 0)
      BY <1>5, <2>1
    <3>2. QED
      BY <1>1, <1>2, <2>1, <2>2, <3>1
  <2>3. CASE j # Len(polls) + 1
    <3>1. j \in 1..Len(polls) /\ polls'[j] = polls[j]
      BY <1>1, <1>2, <2>3, OneMore
    <3>2. QED
      BY <1>1, <1>8, <2>1, <3>1 DEF PollsPaced
  <2>4. QED
    BY <2>2, <2>3
<1>9. PollsPaced'
  BY <1>3, <1>8 DEF PollsPaced
<1>10. QED
  BY <1>7, <1>9

\* A tick is taken for the next poll, or the first poll needs none.
LEMMA ReadyStep ==
  ASSUME TypeOK, TicksLeft, PollsPaced, Tock \/ (LoopHead /\ polls = << >>)
  PROVE  TicksLeft' /\ PollsPaced'
<1>1. /\ Len(polls) \in Nat /\ DOMAIN polls = 1..Len(polls)
      /\ \A k \in 1..Len(polls) : polls[k].at \in Nat
      /\ now \in Nat /\ due \in BOOLEAN
  BY TicksAre
<1>2. UNCHANGED <<now, polls>> /\ stream' = "ready"
  BY DEF Tock, LoopHead, Stream, world
<1>3. CASE Tock
  <2>1. due = TRUE /\ due' = FALSE
    BY <1>1, <1>3 DEF Tock
  <2>2. ASSUME NEW i \in 1..Len(polls) PROVE now - polls[i].at - (Len(polls) - i) >= 0
    <3>1. now - polls[i].at - (Len(polls) - i)
            >= (IF due THEN 1 ELSE 0) + (IF stream = "ready" THEN 1 ELSE 0) - 1
      BY <1>1 DEF TicksLeft, Slack
    <3>2. QED
      BY <1>1, <2>1, <3>1
  <2>3. TicksLeft'
    BY <1>1, <1>2, <2>1, <2>2 DEF TicksLeft, Slack
  <2>4. QED
    BY <1>2, <2>3 DEF PollsPaced
<1>4. CASE LoopHead /\ polls = << >>
  <2>1. DOMAIN polls = {}
    BY <1>1, <1>4, EmptySeq
  <2>2. QED
    BY <1>2, <2>1 DEF TicksLeft, PollsPaced
<1>5. QED
  BY <1>3, <1>4

LEMMA PacedStep ==
  ASSUME TypeOK, TypeOK', StreamKnows, TicksLeft, PollsPaced, StreamNext
  PROVE  TicksLeft' /\ PollsPaced'
<1>1. CASE Ask
  BY <1>1, AskStep
<1>2. CASE Tock \/ (LoopHead /\ polls = << >>)
  BY <1>2, ReadyStep
<1>3. CASE ~Ask /\ ~Tock /\ ~(LoopHead /\ polls = << >>)
  <2>1. UNCHANGED now /\ (due' => due) /\ stream' # "ready"
    <3>1. CASE LoopHead
      BY <1>3, <3>1 DEF LoopHead, Stream, world
    <3>2. CASE Skip
      BY <3>2 DEF Skip, Stream
    <3>3. CASE StreamEnds
      BY <3>3 DEF StreamEnds, Stream, world
    <3>4. CASE Announce \/ BadUrl \/ PollFails \/ Retry \/ Resume
      <4>1. UNCHANGED world /\ stream' # "ready"
        BY <3>4 DEF Announce, BadUrl, PollFails, Retry, Resume, Stream
      <4>2. QED
        BY <4>1 DEF world
    <3>5. CASE PollAnswers \/ Connected \/ Read \/ ReadFails \/ Spoilt \/ Offer
      <4>1. UNCHANGED world /\ stream' # "ready"
        BY <3>5 DEF PollAnswers, Connected, Read, ReadFails, Spoilt, Offer, Stream
      <4>2. QED
        BY <4>1 DEF world
    <3>6. QED
      BY <1>3, <3>1, <3>2, <3>3, <3>4, <3>5 DEF StreamNext
  <2>2. Len(polls') = Len(polls) /\ \A k \in 1..Len(polls) : polls'[k].at = polls[k].at
    BY <1>3, PollsGrow
  <2>3. QED
    BY <2>1, <2>2, TicksKept
<1>4. QED
  BY <1>1, <1>2, <1>3

-----------------------------------------------------------------------------
(* Publish errors and the completion.                                      *)

\* ErrorsOnTheirWay, of a channel ch.
OnTheirWay(ch, line, at, n) ==
  /\ \A i \in DOMAIN ch : IsError(ch[i]) => ch[i].number \in 1..n
  /\ line.errors \subseteq 1..n
  /\ \A k \in 1..n :
       \/ k \in line.errors
       \/ \E i \in DOMAIN ch : IsError(ch[i]) /\ ch[i].number = k
       \/ at = "failed" /\ k = n
  /\ \A i \in DOMAIN ch :
       ch[i].kind = "completed" =>
         at = "ended" /\ \A j \in DOMAIN ch : j > i => ~IsError(ch[j])
  /\ line.completed => at = "ended" /\ \A i \in DOMAIN ch : ~IsError(ch[i])

\* Something else is said, or nothing.
LEMMA OtherText ==
  ASSUME NEW ch \in Statuses, NEW more \in Statuses, NEW t, NEW at, NEW next, NEW n \in Nat,
         OnTheirWay(ch, t, at, n), Len(more) = Len(ch) + 1,
         \A i \in 1..Len(ch) : more[i] = ch[i], ~IsError(more[Len(ch) + 1]),
         more[Len(ch) + 1].kind = "completed" => next = "ended",
         at = "ended" => next = "ended", at = "failed" <=> next = "failed"
  PROVE  OnTheirWay(more, t, next, n)
<1>1. /\ Len(ch) \in Nat /\ DOMAIN ch = 1..Len(ch) /\ DOMAIN more = 1..(Len(ch) + 1)
  BY LenProperties DEF Statuses
<1>2. /\ Len(ch) + 1 \in 1..(Len(ch) + 1)
      /\ \A i \in 1..Len(ch) : i \in 1..(Len(ch) + 1)
      /\ \A i \in 1..(Len(ch) + 1) : i # Len(ch) + 1 => i \in 1..Len(ch)
      /\ \A i, j \in 1..(Len(ch) + 1) : i < j => i \in 1..Len(ch)
  BY <1>1, OneMore
<1>3. ASSUME NEW i \in DOMAIN more, IsError(more[i]) PROVE i \in 1..Len(ch) /\ more[i] = ch[i]
  BY <1>1, <1>2, <1>3
<1>4. \A i \in DOMAIN more : IsError(more[i]) => more[i].number \in 1..n
  BY <1>1, <1>3 DEF OnTheirWay
<1>5. ASSUME NEW k \in 1..n
      PROVE  \/ k \in t.errors
             \/ \E i \in DOMAIN more : IsError(more[i]) /\ more[i].number = k
             \/ next = "failed" /\ k = n
  <2>1. CASE \E i \in DOMAIN ch : IsError(ch[i]) /\ ch[i].number = k
    BY <1>1, <1>2, <2>1
  <2>2. QED
    BY <2>1 DEF OnTheirWay
<1>6. ASSUME NEW i \in DOMAIN more, more[i].kind = "completed"
      PROVE  next = "ended" /\ \A j \in DOMAIN more : j > i => ~IsError(more[j])
  <2>1. CASE i = Len(ch) + 1
    <3>1. \A j \in DOMAIN more : ~(j > i)
      BY <1>1, <2>1
    <3>2. QED
      BY <1>6, <2>1, <3>1
  <2>2. CASE i # Len(ch) + 1
    <3>1. i \in 1..Len(ch) /\ ch[i].kind = "completed"
      BY <1>1, <1>2, <1>6, <2>2
    <3>2. at = "ended" /\ \A j \in DOMAIN ch : j > i => ~IsError(ch[j])
      BY <1>1, <3>1 DEF OnTheirWay
    <3>3. QED
      BY <1>1, <1>3, <3>2
  <2>3. QED
    BY <2>1, <2>2
<1>7. t.completed => next = "ended" /\ \A i \in DOMAIN more : ~IsError(more[i])
  BY <1>1, <1>3 DEF OnTheirWay
<1>8. QED
  BY <1>4, <1>5, <1>6, <1>7 DEF OnTheirWay

LEMMA LastOne == \A n \in Nat \ {0} : n \in 1..n
OBVIOUS

\* The publisher says which publish failed.
LEMMA ErrorText ==
  ASSUME NEW ch \in Statuses, NEW more \in Statuses, NEW t, NEW n \in Nat \ {0},
         OnTheirWay(ch, t, "failed", n), Len(more) = Len(ch) + 1,
         \A i \in 1..Len(ch) : more[i] = ch[i],
         more[Len(ch) + 1].kind = "publish error", more[Len(ch) + 1].number = n
  PROVE  OnTheirWay(more, t, "loop", n)
<1>1. /\ Len(ch) \in Nat /\ DOMAIN ch = 1..Len(ch) /\ DOMAIN more = 1..(Len(ch) + 1)
  BY LenProperties DEF Statuses
<1>2. /\ Len(ch) + 1 \in 1..(Len(ch) + 1)
      /\ \A i \in 1..Len(ch) : i \in 1..(Len(ch) + 1)
      /\ \A i \in 1..(Len(ch) + 1) : i # Len(ch) + 1 => i \in 1..Len(ch)
  BY <1>1, OneMore
<1>3. \A i \in DOMAIN ch : ch[i].kind # "completed"
  BY DEF OnTheirWay
<1>4. \A i \in DOMAIN more : more[i].kind # "completed"
  BY <1>1, <1>2, <1>3
<1>5. n \in 1..n /\ ~t.completed /\ IsError(more[Len(ch) + 1])
  <2>1. t.completed => FALSE
    BY DEF OnTheirWay
  <2>2. ~t.completed
    BY <2>1
  <2>3. n \in 1..n
    BY LastOne
  <2>4. IsError(more[Len(ch) + 1])
    BY DEF IsError
  <2>5. QED
    BY <2>2, <2>3, <2>4
<1>6. \A i \in DOMAIN more : IsError(more[i]) => more[i].number \in 1..n
  BY <1>1, <1>2, <1>5 DEF OnTheirWay
<1>7. ASSUME NEW k \in 1..n
      PROVE  \/ k \in t.errors
             \/ \E i \in DOMAIN more : IsError(more[i]) /\ more[i].number = k
  <2>1. CASE \E i \in DOMAIN ch : IsError(ch[i]) /\ ch[i].number = k
    BY <1>1, <1>2, <2>1
  <2>2. CASE k = n
    BY <1>1, <1>2, <1>5, <2>2
  <2>3. QED
    BY <2>1, <2>2 DEF OnTheirWay
<1>8. QED
  BY <1>4, <1>5, <1>6, <1>7 DEF OnTheirWay

\* The main loop takes a text.
LEMMA TakenText ==
  ASSUME NEW ch \in Statuses, ch # << >>, NEW at, NEW n \in Nat,
         NEW t \in [errors : SUBSET Nat, completed : BOOLEAN], NEW u,
         OnTheirWay(ch, t, at, n),
         u.errors = IF IsError(ch[1]) THEN t.errors \union {ch[1].number} ELSE t.errors,
         u.completed = (t.completed \/ ch[1].kind = "completed"),
         NEW rest \in Statuses, Len(rest) = Len(ch) - 1, \A i \in 1..Len(rest) : rest[i] = ch[i + 1]
  PROVE  OnTheirWay(rest, u, at, n)
<1>1. /\ Len(ch) \in Nat \ {0} /\ DOMAIN ch = 1..Len(ch) /\ DOMAIN rest = 1..(Len(ch) - 1)
  BY LenProperties, EmptySeq DEF Statuses
<1>2. /\ 1 \in DOMAIN ch
      /\ \A i \in DOMAIN rest : i + 1 \in DOMAIN ch /\ rest[i] = ch[i + 1] /\ i + 1 > 1
  BY <1>1
<1>3. ASSUME NEW i \in DOMAIN ch, i # 1 PROVE i - 1 \in DOMAIN rest /\ rest[i - 1] = ch[i]
  BY <1>1, <1>3
<1>4. \A i \in DOMAIN rest : IsError(rest[i]) => rest[i].number \in 1..n
  BY <1>2 DEF OnTheirWay
<1>5. u.errors \subseteq 1..n
  BY <1>2 DEF OnTheirWay
<1>6. ASSUME NEW k \in 1..n
      PROVE  \/ k \in u.errors
             \/ \E i \in DOMAIN rest : IsError(rest[i]) /\ rest[i].number = k
             \/ at = "failed" /\ k = n
  <2>1. CASE \E i \in DOMAIN ch : IsError(ch[i]) /\ ch[i].number = k
    <3>1. PICK i \in DOMAIN ch : IsError(ch[i]) /\ ch[i].number = k
      BY <2>1
    <3>2. CASE i = 1
      BY <3>1, <3>2
    <3>3. CASE i # 1
      BY <1>3, <3>1, <3>3
    <3>4. QED
      BY <3>2, <3>3
  <2>2. CASE k \in t.errors
    BY <2>2
  <2>3. QED
    BY <2>1, <2>2 DEF OnTheirWay
<1>7. ASSUME NEW i \in DOMAIN rest, rest[i].kind = "completed"
      PROVE  at = "ended" /\ \A j \in DOMAIN rest : j > i => ~IsError(rest[j])
  <2>1. at = "ended" /\ \A j \in DOMAIN ch : j > i + 1 => ~IsError(ch[j])
    BY <1>2, <1>7 DEF OnTheirWay
  <2>2. ASSUME NEW j \in DOMAIN rest, j > i PROVE j + 1 > i + 1
    BY <1>1, <2>2
  <2>3. QED
    BY <1>2, <2>1, <2>2
<1>8. ASSUME u.completed
      PROVE  at = "ended" /\ \A i \in DOMAIN rest : ~IsError(rest[i])
  <2>1. CASE t.completed
    BY <1>2, <2>1 DEF OnTheirWay
  <2>2. CASE ch[1].kind = "completed"
    <3>1. at = "ended" /\ \A j \in DOMAIN ch : j > 1 => ~IsError(ch[j])
      BY <1>2, <2>2 DEF OnTheirWay
    <3>2. QED
      BY <1>2, <3>1
  <2>3. QED
    BY <1>8, <2>1, <2>2
<1>9. QED
  BY <1>4, <1>5, <1>6, <1>7, <1>8 DEF OnTheirWay

LEMMA ErrorsAre ==
  /\ ErrorsOnTheirWay <=> OnTheirWay(statusCh, told, publisher, failures)
  /\ ErrorsOnTheirWay' <=> OnTheirWay(statusCh', told', publisher', failures')
BY DEF ErrorsOnTheirWay, OnTheirWay

LEMMA ErrorTypes ==
  ASSUME TypeOK
  PROVE  /\ statusCh \in Statuses /\ Len(statusCh) <= StatusSize /\ failures \in Nat
         /\ told \in [errors : SUBSET Nat, completed : BOOLEAN]
<1>1. failures \in 0..tries /\ tries \in 0..Count /\ Count \in Nat
  BY TypeParts, CountAssumption DEF PubType
<1>2. QED
  BY <1>1, TypeParts DEF StatusType, MainType

LEMMA SaysOther ==
  ASSUME TypeOK, ErrorsOnTheirWay, NEW k \in Kinds, k # "publish error", Say(Text(k)),
         UNCHANGED <<told, failures>>, k = "completed" => publisher' = "ended",
         publisher = "ended" => publisher' = "ended",
         publisher = "failed" <=> publisher' = "failed"
  PROVE  ErrorsOnTheirWay'
<1>1. statusCh \in Statuses /\ Len(statusCh) <= StatusSize /\ failures \in Nat
  BY ErrorTypes
<1>2. Text(k) \in Texts /\ Text(k).kind = k
  BY TextType
<1>3. /\ statusCh' \in Statuses /\ Len(statusCh') = Len(statusCh) + 1
      /\ statusCh'[Len(statusCh) + 1] = Text(k)
      /\ \A i \in 1..Len(statusCh) : statusCh'[i] = statusCh[i]
  BY <1>1, <1>2, SaidType
<1>4. OnTheirWay(statusCh, told, publisher, failures)
  BY ErrorsAre
<1>5. /\ ~IsError(statusCh'[Len(statusCh) + 1])
      /\ statusCh'[Len(statusCh) + 1].kind = "completed" => publisher' = "ended"
  BY <1>2, <1>3 DEF IsError
<1>6. OnTheirWay(statusCh', told, publisher', failures)
  BY <1>1, <1>3, <1>4, <1>5, OtherText
<1>7. QED
  BY <1>6, ErrorsAre

LEMMA SaysNothing ==
  ASSUME ErrorsOnTheirWay, UNCHANGED <<told, failures, statusCh>>,
         publisher = "ended" => publisher' = "ended",
         publisher = "failed" <=> publisher' = "failed"
  PROVE  ErrorsOnTheirWay'
BY DEF ErrorsOnTheirWay

LEMMA StreamErrorsStep ==
  ASSUME TypeOK, ErrorsOnTheirWay, StreamNext
  PROVE  ErrorsOnTheirWay'
<1>1. CASE Announce \/ BadUrl \/ Retry \/ Connected \/ Spoilt
  <2>1. /\ \E k \in {"connecting", "config error", "retrying", "connected", "spoilt"} : Say(Text(k))
        /\ UNCHANGED <<told, failures, publisher>>
    BY <1>1 DEF Announce, BadUrl, Retry, Connected, Spoilt, mainVars, pubVars
  <2>2. PICK k \in {"connecting", "config error", "retrying", "connected", "spoilt"} : Say(Text(k))
    BY <2>1
  <2>3. k \in Kinds /\ k # "publish error" /\ k # "completed"
    BY DEF Kinds
  <2>4. QED
    BY <2>1, <2>2, <2>3, SaysOther
<1>2. CASE \/ LoopHead \/ Tock \/ Ask \/ PollFails \/ Resume \/ PollAnswers \/ Read
           \/ ReadFails \/ Skip \/ Offer \/ StreamEnds
  <2>1. UNCHANGED <<told, failures, publisher, statusCh>>
    BY <1>2
    DEF LoopHead, Tock, Ask, PollFails, Resume, PollAnswers, Read, ReadFails, Skip, Offer,
        StreamEnds, mainVars, pubVars, channels
  <2>2. QED
    BY <2>1, SaysNothing
<1>3. QED
  BY <1>1, <1>2 DEF StreamNext

LEMMA PubErrorsStep ==
  ASSUME TypeOK, TriesFirst, ErrorsOnTheirWay, PubNext
  PROVE  ErrorsOnTheirWay'
<1>1. statusCh \in Statuses /\ Len(statusCh) <= StatusSize /\ failures \in Nat
  BY ErrorTypes
<1>2. CASE PubStarts
  <2>1. "publishing" \in Kinds
    BY DEF Kinds
  <2>2. /\ Say(Text("publishing")) /\ UNCHANGED <<told, failures>>
        /\ publisher = "start" /\ publisher' = "loop"
    BY <1>2 DEF PubStarts, Publisher, mainVars
  <2>3. QED
    BY <2>1, <2>2, SaysOther
<1>3. CASE PubSends \/ PubStops \/ PubConfirmed
  <2>1. /\ UNCHANGED <<told, failures, statusCh>>
        /\ publisher \notin {"ended", "failed"} /\ publisher' # "failed"
    BY <1>3 DEF PubSends, PubStops, PubConfirmed, Publisher, mainVars, channels
  <2>2. QED
    BY <2>1, SaysNothing
<1>4. CASE PubFails
  <2>1. /\ UNCHANGED <<told, statusCh>> /\ failures' = failures + 1
        /\ publisher = "asking" /\ publisher' = "failed"
    BY <1>4 DEF PubFails, Publisher, mainVars, channels
  <2>2. /\ \A n \in 1..failures : n \in 1..(failures + 1)
        /\ \A n \in 1..(failures + 1) : n # failures + 1 => n \in 1..failures
    BY <1>1
  <2>3. QED
    BY <2>1, <2>2 DEF ErrorsOnTheirWay
<1>5. CASE PubReports
  <2> DEFINE text == [kind |-> "publish error", number |-> failures]
  <2>1. /\ publisher = "failed" /\ publisher' = "loop" /\ UNCHANGED <<told, failures>>
        /\ Say(text)
    BY <1>5 DEF PubReports, Publisher, mainVars
  <2>2. failures \in Nat \ {0}
    <3>1. failures > 0
      BY <2>1 DEF TriesFirst
    <3>2. QED
      BY <1>1, <3>1
  <2>3. text \in Texts /\ text.kind = "publish error" /\ text.number = failures
    BY <1>1 DEF Texts, Kinds
  <2> HIDE DEF text
  <2>4. /\ statusCh' \in Statuses /\ Len(statusCh') = Len(statusCh) + 1
        /\ statusCh'[Len(statusCh) + 1] = text
        /\ \A i \in 1..Len(statusCh) : statusCh'[i] = statusCh[i]
    BY <1>1, <2>1, <2>3, SaidType
  <2>5. OnTheirWay(statusCh, told, "failed", failures)
    BY <2>1, ErrorsAre
  <2>6. OnTheirWay(statusCh', told, "loop", failures)
    BY <1>1, <2>2, <2>3, <2>4, <2>5, ErrorText
  <2>7. QED
    BY <2>1, <2>6, ErrorsAre
<1>6. CASE PubCompletes
  <2>1. "completed" \in Kinds
    BY DEF Kinds
  <2>2. /\ Say(Text("completed")) /\ UNCHANGED <<told, failures>>
        /\ publisher = "loop" /\ publisher' = "ended"
    BY <1>6 DEF PubCompletes, Publisher, mainVars
  <2>3. QED
    BY <2>1, <2>2, SaysOther
<1>7. QED
  BY <1>2, <1>3, <1>4, <1>5, <1>6 DEF PubNext

LEMMA ResetErrorsStep ==
  ASSUME TypeOK, ErrorsOnTheirWay, NEW i \in DOMAIN resets, ResetNext(i)
  PROVE  ErrorsOnTheirWay'
<1>1. CASE ResetSends(i) \/ ResetReports(i)
  <2>1. /\ \E k \in {"resetting", "reset done", "reset failed"} : Say(Text(k))
        /\ UNCHANGED <<told, failures, publisher>>
    BY <1>1 DEF ResetSends, ResetReports, mainVars, pubVars
  <2>2. PICK k \in {"resetting", "reset done", "reset failed"} : Say(Text(k))
    BY <2>1
  <2>3. k \in Kinds /\ k # "publish error" /\ k # "completed"
    BY DEF Kinds
  <2>4. QED
    BY <2>1, <2>2, <2>3, SaysOther
<1>2. CASE ResetAnswers(i) \/ ResetPanics(i)
  <2>1. UNCHANGED <<told, failures, publisher, statusCh>>
    BY <1>2 DEF ResetAnswers, ResetPanics, mainVars, pubVars, channels
  <2>2. QED
    BY <2>1, SaysNothing
<1>3. QED
  BY <1>1, <1>2 DEF ResetNext

LEMMA TakeStatusStep ==
  ASSUME TypeOK, ErrorsOnTheirWay, TakeStatus
  PROVE  ErrorsOnTheirWay'
<1>1. /\ statusCh \in Statuses /\ statusCh # << >> /\ failures \in Nat
      /\ told \in [errors : SUBSET Nat, completed : BOOLEAN]
  BY ErrorTypes DEF TakeStatus
<1>2. /\ statusCh' \in Statuses /\ Len(statusCh') = Len(statusCh) - 1
      /\ \A i \in 1..Len(statusCh') : statusCh'[i] = statusCh[i + 1]
      /\ Head(statusCh) = statusCh[1]
  BY <1>1, HeadTailProperties DEF TakeStatus, Statuses
<1>3. told' = Noted(statusCh[1]) /\ UNCHANGED <<publisher, failures>>
  BY <1>2 DEF TakeStatus, pubVars
<1>4. /\ told'.errors = IF IsError(statusCh[1]) THEN told.errors \union {statusCh[1].number}
                        ELSE told.errors
      /\ told'.completed = (told.completed \/ statusCh[1].kind = "completed")
  BY <1>3 DEF Noted, IsError
<1>5. OnTheirWay(statusCh, told, publisher, failures)
  BY ErrorsAre
<1>6. OnTheirWay(statusCh', told', publisher, failures)
  BY <1>1, <1>2, <1>4, <1>5, TakenText
<1>7. QED
  BY <1>3, <1>6, ErrorsAre

LEMMA Completion ==
  ASSUME ErrorsOnTheirWay
  PROVE  ErrorsBeforeCompletion
BY DEF ErrorsOnTheirWay, ErrorsBeforeCompletion

-----------------------------------------------------------------------------
(* The table.                                                              *)

LEMMA StreamTableStep ==
  ASSUME TypeOK, StreamKnows, SnapshotsInOrder, TableIsLatest, StreamNext
  PROVE  TableIsLatest'
<1>1. UNCHANGED <<shown, table>>
  <2>1. UNCHANGED mainVars
    BY DEF StreamNext, Announce, LoopHead, Tock, BadUrl, Ask, PollFails, Retry, Resume, PollAnswers,
           Connected, Read, ReadFails, Spoilt, Skip, Offer, StreamEnds
  <2>2. QED
    BY <2>1 DEF mainVars
<1> SUFFICES ASSUME shown # << >>
             PROVE  polls'[shown[Len(shown)]] = polls[shown[Len(shown)]]
  BY <1>1 DEF TableIsLatest
<1> DEFINE k == shown[Len(shown)]
<1>2. k \in 1..Len(polls) /\ polls[k].outcome = "snapshot"
  <2>1. shown \in Seq(Nat) /\ snapCh \in Seq(Nat)
    BY TypeParts DEF MainType, SnapType
  <2>2. Len(shown) \in 1..Len(shown) /\ Len(shown) \in Nat /\ Len(snapCh) \in Nat
    BY <2>1, EmptySeq, LenProperties
  <2>3. Len(shown) \in DOMAIN OnTheWay /\ OnTheWay[Len(shown)] = k
    <3>1. DOMAIN OnTheWay = 1..(Len(shown) + Len(snapCh))
      BY <2>1, WayIs
    <3>2. Len(shown) \in 1..(Len(shown) + Len(snapCh))
      BY <2>2
    <3>3. OnTheWay[Len(shown)] = shown[Len(shown)]
      BY <2>1, <2>2, WayIs
    <3>4. QED
      BY <3>1, <3>2, <3>3
  <2>4. QED
    BY <2>3, WayOfSnapshots
<1> HIDE DEF k
<1>3. CASE UNCHANGED polls
  BY <1>3
<1>4. CASE \A n \in 1..Len(polls) : polls'[n] = polls[n]
  BY <1>2, <1>4 DEF k
<1>5. CASE /\ PollFails \/ PollAnswers \/ Read \/ ReadFails
           /\ \A n \in 1..Len(polls) : n # Len(polls) => polls'[n] = polls[n]
  <2>1. Last.outcome # "snapshot"
    BY <1>5, LastOutcome
  <2>2. k # Len(polls)
    BY <1>2, <2>1 DEF Last
  <2>3. QED
    BY <1>2, <1>5, <2>2 DEF k
<1>6. QED
  BY <1>3, <1>4, <1>5, PollsGrow

LEMMA TakeTableStep ==
  ASSUME TypeOK, SnapshotsInOrder, TakeSnap
  PROVE  TableIsLatest'
<1>1. shown \in Seq(Nat) /\ snapCh \in Seq(Nat) /\ snapCh # << >>
  BY TypeParts DEF MainType, SnapType, TakeSnap
<1>2. Head(snapCh) \in DOMAIN polls /\ Head(snapCh) \in Nat
  BY <1>1, WayIs, HeadTailProperties DEF SnapshotsInOrder, Snapshots
<1>3. polls[Head(snapCh)].content \in Seq(Int)
  BY <1>2, TypeParts, PollsAre DEF StreamType
<1>4. Latest(table', polls[Head(snapCh)].content)
  BY <1>3, RowsAre DEF TakeSnap
<1>5. shown' = Append(shown, Head(snapCh)) /\ UNCHANGED polls
  BY DEF TakeSnap, streamVars
<1>6. shown'[Len(shown')] = Head(snapCh)
  BY <1>1, <1>2, <1>5, AppendProperties
<1>7. QED
  BY <1>4, <1>5, <1>6 DEF TableIsLatest

-----------------------------------------------------------------------------
(* The invariant.                                                          *)

\* What the steps of all but the stream leave as it is.
LEMMA OthersKeep ==
  ASSUME UNCHANGED <<now, polls, stream, shown, snapCh, table>>, due' = due, cancelled => cancelled',
         TypeOK, TypeOK', IInv
  PROVE  /\ StreamKnows' /\ SnapshotsInOrder' /\ TicksLeft' /\ PollsPaced' /\ TableIsLatest'
<1>1. OnTheWay' = OnTheWay
  BY DEF OnTheWay
<1>2. StreamKnows' /\ SnapshotsInOrder'
  BY <1>1, SameWay DEF IInv
<1>3. TicksLeft' /\ PollsPaced'
  BY DEF IInv, TicksLeft, PollsPaced, Slack
<1>4. TableIsLatest'
  BY DEF IInv, TableIsLatest
<1>5. QED
  BY <1>2, <1>3, <1>4

LEMMA Beginning == Init => IInv
<1> SUFFICES ASSUME Init PROVE IInv
  OBVIOUS
<1>1. polls = << >> /\ shown = << >> /\ snapCh = << >> /\ statusCh = << >> /\ failures = 0
      /\ told = [errors |-> {}, completed |-> FALSE] /\ stream = "start"
      /\ publisher \in {"ended", "start"}
  BY DEF Init
<1>2. OnTheWay = << >>
  BY <1>1, WayIs, EmptySeq, LenProperties
<1>3. DOMAIN polls = {} /\ DOMAIN OnTheWay = {} /\ DOMAIN statusCh = {} /\ 1..0 = {}
  BY <1>1, <1>2, EmptySeq
<1>4. TypeOK
  BY TypeInit
<1>5. TriesFirst /\ StreamKnows
  BY <1>1 DEF TriesFirst, StreamKnows
<1>6. SnapshotsInOrder /\ TicksLeft /\ PollsPaced /\ TableIsLatest
  BY <1>1, <1>3 DEF SnapshotsInOrder, Snapshots, TicksLeft, PollsPaced, TableIsLatest
<1>7. ErrorsOnTheirWay
  BY <1>1, <1>3 DEF ErrorsOnTheirWay
<1>8. QED
  BY <1>4, <1>5, <1>6, <1>7, Completion DEF IInv

\* A step that neither polls nor publishes.
LEMMA RestKeeps ==
  ASSUME IInv, TypeOK',
         UNCHANGED <<now, due, streamVars, pubVars, shown, table, told, channels>>,
         cancelled => cancelled'
  PROVE  IInv'
<1>1. UNCHANGED <<polls, stream, snapCh, statusCh, publisher, failures, tries>>
  BY DEF streamVars, pubVars, channels
<1>2. /\ StreamKnows' /\ SnapshotsInOrder' /\ TicksLeft' /\ PollsPaced' /\ TableIsLatest'
  BY <1>1, OthersKeep DEF IInv
<1>3. TriesFirst'
  BY <1>1 DEF IInv, TriesFirst
<1>4. ErrorsOnTheirWay'
  BY <1>1, SaysNothing DEF IInv
<1>5. ErrorsBeforeCompletion'
  BY <1>1 DEF IInv, ErrorsBeforeCompletion
<1>6. QED
  BY <1>2, <1>3, <1>4, <1>5 DEF IInv

LEMMA CompletionThen ==
  ASSUME ErrorsOnTheirWay'
  PROVE  ErrorsBeforeCompletion'
BY DEF ErrorsOnTheirWay, ErrorsBeforeCompletion

LEMMA MainKeeps ==
  ASSUME IInv, MainNext
  PROVE  IInv'
<1>1. TypeOK' /\ TypeOK /\ SnapshotsInOrder /\ StreamKnows
  BY MainTypeStep DEF IInv
<1>2. CASE Quit \/ CtxDone \/ ResetTooSoon \/ ResetStarts \/ StreamClosed
  <2>1. UNCHANGED <<now, due, streamVars, pubVars, shown, table, told, channels, cancelled>>
    BY <1>2 DEF Quit, CtxDone, ResetTooSoon, ResetStarts, StreamClosed, world, vars, mainVars
  <2>2. QED
    BY <1>1, <2>1, RestKeeps
<1>3. CASE TakeSnap
  <2>1. /\ UNCHANGED <<now, due, cancelled, polls, stream, statusCh, publisher, tries, failures, told>>
    BY <1>3 DEF TakeSnap, world, streamVars, pubVars
  <2>2. StreamKnows' /\ SnapshotsInOrder'
    BY <1>1, <1>3, <2>1, WayKept, SameWay
  <2>3. TicksLeft' /\ PollsPaced'
    BY <2>1 DEF IInv, TicksLeft, PollsPaced, Slack
  <2>4. ErrorsOnTheirWay' /\ TriesFirst'
    BY <2>1, SaysNothing DEF IInv, TriesFirst
  <2>5. TableIsLatest'
    BY <1>1, <1>3, TakeTableStep
  <2>6. QED
    BY <1>1, <2>2, <2>3, <2>4, <2>5, CompletionThen DEF IInv
<1>4. CASE TakeStatus
  <2>1. UNCHANGED <<now, due, cancelled, polls, stream, shown, snapCh, table, publisher, tries, failures>>
    BY <1>4 DEF TakeStatus, world, streamVars, pubVars
  <2>2. /\ StreamKnows' /\ SnapshotsInOrder' /\ TicksLeft' /\ PollsPaced' /\ TableIsLatest'
    BY <1>1, <2>1, OthersKeep
  <2>3. ErrorsOnTheirWay'
    BY <1>1, <1>4, TakeStatusStep DEF IInv
  <2>4. TriesFirst'
    BY <2>1 DEF IInv, TriesFirst
  <2>5. QED
    BY <1>1, <2>2, <2>3, <2>4, CompletionThen DEF IInv
<1>5. QED
  BY <1>2, <1>3, <1>4 DEF MainNext

LEMMA Keeping ==
  ASSUME IInv, [Next]_vars
  PROVE  IInv'
<1>1. /\ TypeOK /\ TriesFirst /\ StreamKnows /\ SnapshotsInOrder /\ TicksLeft /\ PollsPaced
      /\ ErrorsOnTheirWay /\ TableIsLatest
  BY DEF IInv
<1>2. CASE StreamNext
  <2>1. UNCHANGED pubVars
    BY <1>2 DEF StreamNext, Announce, LoopHead, Tock, BadUrl, Ask, PollFails, Retry, Resume,
                PollAnswers, Connected, Read, ReadFails, Spoilt, Skip, Offer, StreamEnds
  <2>2. TriesFirst'
    BY <1>1, <2>1 DEF TriesFirst, pubVars
  <2>3. TypeOK' /\ StreamKnows' /\ SnapshotsInOrder'
    BY <1>1, <1>2, StreamTypeStep, StreamKnowsStep, SnapshotsStep
  <2>4. TicksLeft' /\ PollsPaced' /\ TableIsLatest'
    BY <1>1, <1>2, <2>3, PacedStep, StreamTableStep
  <2>5. ErrorsOnTheirWay' /\ ErrorsBeforeCompletion'
    BY <1>1, <1>2, StreamErrorsStep, CompletionThen
  <2>6. QED
    BY <2>2, <2>3, <2>4, <2>5 DEF IInv
<1>3. CASE PubNext
  <2>1. UNCHANGED <<world, mainVars, streamVars, snapCh>>
    BY <1>3 DEF PubNext, PubStarts, PubSends, PubStops, PubConfirmed, PubFails, PubReports,
                PubCompletes, channels
  <2>2. UNCHANGED <<now, due, cancelled, polls, stream, shown, snapCh, table>>
    BY <2>1 DEF world, mainVars, streamVars
  <2>3. TypeOK' /\ TriesFirst'
    BY <1>1, <1>3, PubTypeStep, TriesFirstStep
  <2>4. /\ StreamKnows' /\ SnapshotsInOrder' /\ TicksLeft' /\ PollsPaced' /\ TableIsLatest'
    BY <1>1, <2>2, <2>3, OthersKeep
  <2>5. ErrorsOnTheirWay' /\ ErrorsBeforeCompletion'
    BY <1>1, <1>3, PubErrorsStep, CompletionThen
  <2>6. QED
    BY <2>3, <2>4, <2>5 DEF IInv
<1>4. CASE MainNext
  BY <1>4, MainKeeps
<1>5. CASE Tick
  <2>1. UNCHANGED <<mainVars, streamVars, pubVars, resets, channels, cancelled, urlOk>>
        /\ now' = now + 1 /\ due' \in BOOLEAN
    BY <1>5 DEF Tick
  <2>2. TypeOK'
    BY <1>1, <2>1, TypeParts, QuietParts DEF WorldType, channels
  <2>3. StreamKnows' /\ SnapshotsInOrder'
    BY <1>1, <2>1, SameWay DEF OnTheWay, mainVars, streamVars, channels
  <2>4. TicksLeft' /\ PollsPaced'
    BY <1>1, <1>5, TickStep
  <2>5. TableIsLatest' /\ TriesFirst'
    BY <1>1, <2>1 DEF TableIsLatest, TriesFirst, mainVars, streamVars, pubVars
  <2>6. ErrorsOnTheirWay' /\ ErrorsBeforeCompletion'
    BY <1>1, <2>1, SaysNothing, CompletionThen DEF mainVars, pubVars, channels
  <2>7. QED
    BY <2>2, <2>3, <2>4, <2>5, <2>6 DEF IInv
<1>6. CASE Signal
  <2>1. UNCHANGED <<mainVars, streamVars, pubVars, resets, channels, now, due, urlOk>>
        /\ cancelled' = TRUE
    BY <1>6 DEF Signal
  <2>2. TypeOK'
    BY <1>1, <2>1, TypeParts, QuietParts DEF WorldType, channels
  <2>3. QED
    BY <2>1, <2>2, RestKeeps DEF mainVars
<1>7. CASE \E i \in DOMAIN resets : ResetNext(i)
  <2>1. PICK i \in DOMAIN resets : ResetNext(i)
    BY <1>7
  <2>2. UNCHANGED <<now, due, cancelled, polls, stream, shown, snapCh, table, publisher, tries, failures>>
    BY <2>1 DEF ResetNext, ResetSends, ResetAnswers, ResetPanics, ResetReports, world, mainVars,
                streamVars, pubVars, channels
  <2>3. TypeOK'
    BY <1>1, <2>1, ResetTypeStep
  <2>4. /\ StreamKnows' /\ SnapshotsInOrder' /\ TicksLeft' /\ PollsPaced' /\ TableIsLatest'
    BY <1>1, <2>2, <2>3, OthersKeep
  <2>5. TriesFirst'
    BY <1>1, <2>2 DEF TriesFirst
  <2>6. ErrorsOnTheirWay' /\ ErrorsBeforeCompletion'
    BY <1>1, <2>1, ResetErrorsStep, CompletionThen
  <2>7. QED
    BY <2>3, <2>4, <2>5, <2>6 DEF IInv
<1>8. CASE \E k \in {"q", "r"} : Press(k)
  <2>1. PICK k \in {"q", "r"} : Press(k)
    BY <1>8
  <2>2. UNCHANGED <<world, main, lastReset, shown, table, told, streamVars, pubVars, resets, channels>>
        /\ key' = k
    BY <2>1 DEF Press
  <2>3. MainType'
    BY <1>1, <2>2, TypeParts DEF MainType
  <2>4. TypeOK'
    BY <1>1, <2>2, <2>3, TypeParts, QuietParts DEF channels
  <2>5. QED
    BY <2>2, <2>4, RestKeeps DEF world
<1>9. CASE UNCHANGED vars
  <2>1. UNCHANGED <<world, mainVars, streamVars, pubVars, resets, channels>>
    BY <1>9 DEF vars
  <2>2. TypeOK'
    BY <1>1, <2>1, TypeParts, QuietParts DEF channels
  <2>3. QED
    BY <2>1, <2>2, RestKeeps DEF world, mainVars
<1>10. QED
  BY <1>2, <1>3, <1>4, <1>5, <1>6, <1>7, <1>8, <1>9 DEF Next

LEMMA Invariance == Spec => []IInv
<1>1. Init => IInv
  BY Beginning
<1>2. IInv /\ [Next]_vars => IInv'
  BY Keeping
<1>3. QED
  BY <1>1, <1>2, PTL DEF Spec

-----------------------------------------------------------------------------
(* The pauses between retries.                                             *)

LEMMA DoublingsAre ==
  /\ Doublings[0] = First
  /\ \A n \in Nat : Doublings[n] \in Nat /\ Doublings[n + 1] = 2 * Doublings[n]
<1> DEFINE G == [k \in Nat |-> [x \in Nat |-> 2 * x]]
<1>1. G \in [Nat -> [Nat -> Nat]] /\ \A k \in Nat : \A x \in Nat : G[k][x] = 2 * x
  OBVIOUS
<1> HIDE DEF G
<1>2. PICK f \in [Nat -> Nat] : f[0] = First /\ \A n \in Nat : f[n + 1] = G[n + 1][f[n]]
  BY <1>1, NaturalRecursion, BackoffAssumption DEF Recursive
<1>3. ASSUME NEW n \in Nat PROVE f[n] \in Nat /\ f[n + 1] = 2 * f[n]
  <2>1. n + 1 \in Nat /\ f[n] \in Nat
    OBVIOUS
  <2>2. QED
    BY <1>1, <1>2, <2>1
<1>4. ASSUME NEW n \in Nat PROVE f[n] = IF n = 0 THEN First ELSE 2 * f[n - 1]
  <2>1. CASE n = 0
    BY <1>2, <2>1
  <2>2. CASE n # 0
    <3>1. n - 1 \in Nat /\ (n - 1) + 1 = n
      BY <2>2
    <3>2. QED
      BY <1>3, <2>2, <3>1
  <2>3. QED
    BY <2>1, <2>2
<1>5. f = [n \in Nat |-> IF n = 0 THEN First ELSE 2 * f[n - 1]]
  BY <1>4
<1>6. Doublings = [n \in Nat |-> IF n = 0 THEN First ELSE 2 * Doublings[n - 1]]
  BY <1>5 DEF Doublings
<1> DEFINE D == Doublings
<1>7. D[0] = First /\ \A n \in Nat : D[n + 1] = 2 * D[n]
  <2>1. \A n \in Nat : D[n] = IF n = 0 THEN First ELSE 2 * D[n - 1]
    BY <1>6
  <2> HIDE DEF D
  <2>2. QED
    BY <2>1
<1> DEFINE T == {n \in Nat : D[n] \in Nat}
<1>8. Nat \subseteq T
  <2>1. 0 \in T
    BY <1>7, BackoffAssumption
  <2>2. ASSUME NEW n \in Nat, n \in T PROVE n + 1 \in T
    <3> HIDE DEF D
    <3>1. D[n] \in Nat /\ D[n + 1] = 2 * D[n]
      BY <1>7, <2>2
    <3>2. QED
      BY <3>1
  <2> HIDE DEF T
  <2>3. QED
    BY <2>1, <2>2, Induction
<1>9. QED
  BY <1>7, <1>8

LEMMA PauseSteps ==
  /\ PauseAfter(1) = First
  /\ \A n \in Nat \ {0} :
       PauseAfter(n + 1) = IF PauseAfter(n) < Longest THEN Doubled(PauseAfter(n)) ELSE PauseAfter(n)
<1>1. PauseAfter(1) = First
  BY DoublingsAre, BackoffAssumption DEF PauseAfter
<1>2. ASSUME NEW n \in Nat \ {0}
      PROVE  PauseAfter(n + 1) =
               IF PauseAfter(n) < Longest THEN Doubled(PauseAfter(n)) ELSE PauseAfter(n)
  <2>1. n - 1 \in Nat /\ (n - 1) + 1 = n /\ (n + 1) - 1 = n
    OBVIOUS
  <2> DEFINE d == Doublings[n - 1]
  <2>2. d \in Nat /\ Doublings[n] = 2 * d
    BY <2>1, DoublingsAre
  <2>3. PauseAfter(n) = IF d < Longest THEN d ELSE Longest
    BY DEF PauseAfter
  <2>4. PauseAfter(n + 1) = IF 2 * d < Longest THEN 2 * d ELSE Longest
    BY <2>1, <2>2 DEF PauseAfter
  <2> HIDE DEF d
  <2>5. QED
    BY <2>2, <2>3, <2>4, BackoffAssumption DEF Doubled
<1>3. QED
  BY <1>1, <1>2

\* n is the number of polls that Streak chooses.
Run(h, k, n) ==
  /\ \A i \in (k - n + 1)..k : h[i].outcome = "failed"
  /\ n < k => h[k - n].outcome # "failed"

LEMMA StreakIs ==
  ASSUME NEW h, NEW k \in Nat
  PROVE  /\ Streak(h, k) \in 0..k /\ Run(h, k, Streak(h, k))
         /\ \A n \in 0..k : Run(h, k, n) => Streak(h, k) = n
<1>1. \E n \in 0..k : Run(h, k, n)
  <2> DEFINE T == {n \in 0..k : n = k \/ h[k - n].outcome # "failed"}
  <2>1. k \in T /\ T \subseteq Nat
    OBVIOUS
  <2>2. PICK m \in T : \A n \in T : m <= n
    BY <2>1, Least
  <2>3. ASSUME NEW i \in (k - m + 1)..k PROVE h[i].outcome = "failed"
    <3>1. k - i \in 0..k /\ k - i < m /\ k - (k - i) = i /\ m <= k
      OBVIOUS
    <3>2. k - i \notin T
      <4> HIDE DEF T
      <4>1. QED
        BY <2>1, <2>2, <3>1
    <3>3. QED
      BY <3>1, <3>2
  <2>4. QED
    BY <2>3 DEF Run
<1>2. Streak(h, k) \in 0..k /\ Run(h, k, Streak(h, k))
  BY <1>1 DEF Streak, Run
<1>3. ASSUME NEW m \in 0..k, NEW n \in 0..k, Run(h, k, m), Run(h, k, n), m < n PROVE FALSE
  <2>1. k - m \in (k - n + 1)..k /\ m < k
    BY <1>3
  <2>2. QED
    BY <1>3, <2>1 DEF Run
<1>4. QED
  <2>1. ASSUME NEW n \in 0..k, Run(h, k, n) PROVE Streak(h, k) = n
    <3> DEFINE s == Streak(h, k)
    <3>1. s \in 0..k /\ Run(h, k, s)
      BY <1>2
    <3> HIDE DEF s
    <3>2. ~ (s < n) /\ ~ (n < s)
      BY <1>3, <2>1, <3>1
    <3>3. s = n
      BY <3>1, <3>2
    <3>4. QED
      BY <3>3 DEF s
  <2>2. QED
    BY <1>2, <2>1

LEMMA StreakGrows ==
  ASSUME NEW h, NEW k \in Nat
  PROVE  Streak(h, k + 1) = IF h[k + 1].outcome = "failed" THEN Streak(h, k) + 1 ELSE 0
<1>1. k + 1 \in Nat
  OBVIOUS
<1> DEFINE s == Streak(h, k)
<1>2. s \in 0..k /\ Run(h, k, s)
  BY StreakIs
<1> HIDE DEF s
<1>3. CASE h[k + 1].outcome = "failed"
  <2>1. s + 1 \in 0..(k + 1)
    BY <1>2
  <2>2. Run(h, k + 1, s + 1)
    BY <1>2, <1>3 DEF Run
  <2>3. QED
    BY <1>1, <1>3, <2>1, <2>2, StreakIs DEF s
<1>4. CASE h[k + 1].outcome # "failed"
  <2>1. Run(h, k + 1, 0) /\ 0 \in 0..(k + 1)
    BY <1>4 DEF Run
  <2>2. QED
    BY <1>1, <1>4, <2>1, StreakIs
<1>5. QED
  BY <1>3, <1>4

LEMMA StreakSame ==
  ASSUME NEW g, NEW h, NEW k \in Nat, \A i \in 1..k : g[i].outcome = h[i].outcome
  PROVE  Streak(g, k) = Streak(h, k)
<1> DEFINE s == Streak(h, k)
<1>1. s \in 0..k /\ Run(h, k, s)
  BY StreakIs
<1> HIDE DEF s
<1>2. Run(g, k, s)
  BY <1>1 DEF Run
<1>3. QED
  BY <1>1, <1>2, StreakIs DEF s

LEMMA StreakStarts == \A h : Streak(h, 0) = 0
BY StreakIs

LEMMA FailedStreak ==
  ASSUME NEW h \in History, h # << >>, h[Len(h)].outcome = "failed"
  PROVE  Streak(h, Len(h)) \in Nat \ {0}
<1> DEFINE m == Len(h) - 1
<1>1. m \in Nat /\ m + 1 = Len(h)
  BY PollsAre, EmptySeq
<1> HIDE DEF m
<1>2. Streak(h, m) \in Nat
  BY <1>1, StreakIs
<1>3. Streak(h, m + 1) = Streak(h, m) + 1
  BY <1>1, StreakGrows
<1>4. QED
  BY <1>1, <1>2, <1>3

LEMMA PauseType == \A n \in Nat \ {0} : PauseAfter(n) \in Nat
<1> SUFFICES ASSUME NEW n \in Nat \ {0} PROVE PauseAfter(n) \in Nat
  OBVIOUS
<1>1. n - 1 \in Nat
  OBVIOUS
<1>2. QED
  BY <1>1, DoublingsAre, BackoffAssumption DEF PauseAfter

\* What PausesFit says of the poll under way, or of the last one, in terms of a
\* history h, the time t, the place s, the backoff b and the end w of a pause.
Fit(h, t, s, b, w) ==
  LET last == Len(h)
  IN /\ \A k \in DOMAIN h : h[k].at <= t
     /\ s \in {"start", "head", "ticking", "ready"} =>
          /\ b = PauseAfter(Streak(h, last) + 1)
          /\ h # << >> /\ h[last].outcome = "failed" => t - h[last].at >= PauseAfter(Streak(h, last))
     /\ s = "asking" => b = PauseAfter(Streak(h, last - 1) + 1)
     /\ s \in {"failed", "pausing"} => h[last].outcome = "failed" /\ b = PauseAfter(Streak(h, last))
     /\ s = "pausing" => w - h[last].at >= b
     /\ s \in {"answered", "reading", "spoilt", "skipping", "offering"} =>
          h[last].outcome # "failed" /\ b = First

\* Between the polls of h lie the pauses that their failures call for.
Spaced(h) ==
  \A k \in 1..(Len(h) - 1) :
    h[k].outcome = "failed" => h[k + 1].at - h[k].at >= PauseAfter(Streak(h, k))

LEMMA BackoffIs ==
  /\ BackoffInv <=> Spaced(polls) /\ Fit(polls, now, stream, backoff, wake)
  /\ BackoffInv' <=> Spaced(polls') /\ Fit(polls', now', stream', backoff', wake')
BY DEF BackoffInv, RetriesBackOff, PausesFit, Spaced, Fit, Pause, Last

\* The next poll is asked for.
LEMMA FitAsked ==
  ASSUME NEW h \in History, NEW g \in History, NEW t \in Nat, NEW b, NEW w,
         Spaced(h), Fit(h, t, "ready", b, w),
         Len(g) = Len(h) + 1, \A k \in 1..Len(h) : g[k] = h[k],
         g[Len(h) + 1].at = t, g[Len(h) + 1].outcome = "asking"
  PROVE  Spaced(g) /\ Fit(g, t, "asking", b, w)
<1> DEFINE n == Len(h)
<1>1. /\ n \in Nat /\ Len(g) = n + 1 /\ Len(g) - 1 = n
      /\ DOMAIN h = 1..n /\ DOMAIN g = 1..(n + 1) /\ (n # 0 => h # << >>)
  BY PollsAre, EmptySeq
<1>2. ASSUME NEW k \in 1..n PROVE Streak(g, k) = Streak(h, k)
  <2>1. k \in Nat /\ \A i \in 1..k : g[i].outcome = h[i].outcome
    BY <1>1
  <2>2. QED
    BY <2>1, StreakSame
<1>3. Streak(g, n) = Streak(h, n)
  <2>1. CASE n = 0
    BY <2>1, StreakStarts
  <2>2. CASE n # 0
    BY <1>1, <1>2, <2>2
  <2>3. QED
    BY <2>1, <2>2
<1>4. /\ \A k \in 1..n : h[k].at <= t
      /\ b = PauseAfter(Streak(h, n) + 1)
      /\ n # 0 /\ h[n].outcome = "failed" => t - h[n].at >= PauseAfter(Streak(h, n))
  BY <1>1 DEF Fit
<1>5. Spaced(g)
  <2> SUFFICES ASSUME NEW k \in 1..n, h[k].outcome = "failed"
               PROVE  g[k + 1].at - h[k].at >= PauseAfter(Streak(h, k))
    BY <1>1, <1>2 DEF Spaced
  <2>1. CASE k = n
    BY <1>1, <1>4, <2>1
  <2>2. CASE k # n
    <3>1. k \in 1..(n - 1) /\ k + 1 \in 1..n
      <4>1. n \in Nat /\ k \in 1..n /\ k # n
        BY <1>1, <2>2
      <4> HIDE DEF n
      <4>2. QED
        BY <4>1
    <3>2. QED
      BY <1>1, <3>1 DEF Spaced
  <2>3. QED
    BY <2>1, <2>2
<1>6. \A k \in 1..(n + 1) : g[k].at <= t
  BY <1>1, <1>4
<1>7. b = PauseAfter(Streak(g, Len(g) - 1) + 1)
  BY <1>1, <1>3, <1>4
<1>8. QED
  BY <1>1, <1>5, <1>6, <1>7 DEF Fit

\* The outcome of the last poll changes.
LEMMA SpacedKept ==
  ASSUME NEW h \in History, NEW g \in History, h # << >>, Spaced(h), Len(g) = Len(h),
         \A k \in 1..Len(h) : g[k].at = h[k].at,
         \A k \in 1..Len(h) : k # Len(h) => g[k] = h[k]
  PROVE  Spaced(g) /\ Streak(g, Len(h) - 1) = Streak(h, Len(h) - 1)
<1> DEFINE n == Len(h)
<1>1. n \in Nat \ {0} /\ n - 1 \in Nat
  BY PollsAre, EmptySeq
<1>2. ASSUME NEW k \in 0..(n - 1) PROVE Streak(g, k) = Streak(h, k)
  <2>1. k \in Nat /\ \A i \in 1..k : g[i].outcome = h[i].outcome
    BY <1>1
  <2>2. QED
    BY <2>1, StreakSame
<1>3. Spaced(g)
  <2> SUFFICES ASSUME NEW k \in 1..(n - 1), h[k].outcome = "failed"
               PROVE  g[k + 1].at - g[k].at >= PauseAfter(Streak(h, k))
    <3>1. \A k \in 1..(n - 1) : k # n /\ k \in 1..n /\ k \in 0..(n - 1)
      BY <1>1
    <3>2. QED
      BY <1>2, <3>1 DEF Spaced
  <2>1. k + 1 \in 1..n /\ k \in 1..n
    BY <1>1
  <2>2. QED
    BY <2>1 DEF Spaced
<1>4. QED
  BY <1>1, <1>2, <1>3

LEMMA FitFailed ==
  ASSUME NEW h \in History, NEW g \in History, NEW t, NEW b, NEW w,
         h # << >>, Spaced(h), Fit(h, t, "asking", b, w), Len(g) = Len(h),
         \A k \in 1..Len(h) : g[k].at = h[k].at,
         \A k \in 1..Len(h) : k # Len(h) => g[k] = h[k],
         g[Len(h)].outcome = "failed"
  PROVE  Spaced(g) /\ Fit(g, t, "failed", b, w)
<1> DEFINE n == Len(h)
<1>1. n - 1 \in Nat /\ (n - 1) + 1 = n /\ DOMAIN h = 1..n /\ DOMAIN g = 1..n
  BY PollsAre, EmptySeq
<1>2. Spaced(g) /\ Streak(g, n - 1) = Streak(h, n - 1)
  BY SpacedKept
<1>3. Streak(g, n) = Streak(g, n - 1) + 1
  <2> DEFINE m == n - 1
  <2>1. m \in Nat /\ m + 1 = n
    BY <1>1
  <2> HIDE DEF m
  <2>2. Streak(g, m + 1) = Streak(g, m) + 1
    BY <2>1, StreakGrows
  <2>3. QED
    BY <2>1, <2>2 DEF m
<1>4. b = PauseAfter(Streak(g, n))
  BY <1>2, <1>3 DEF Fit
<1>5. QED
  BY <1>1, <1>2, <1>4 DEF Fit

LEMMA FitFresh ==
  ASSUME NEW h \in History, NEW g \in History, NEW t, NEW s, NEW b, NEW w, NEW v,
         NEW z \in {"answered", "reading", "spoilt", "skipping", "offering"},
         h # << >>, Spaced(h), Fit(h, t, s, b, w), Len(g) = Len(h),
         \A k \in 1..Len(h) : g[k].at = h[k].at,
         \A k \in 1..Len(h) : k # Len(h) => g[k] = h[k],
         g[Len(h)].outcome # "failed"
  PROVE  Spaced(g) /\ Fit(g, t, z, First, v)
<1>1. DOMAIN h = 1..Len(h) /\ DOMAIN g = 1..Len(h)
  BY PollsAre
<1>2. Spaced(g)
  BY SpacedKept
<1>3. \A k \in DOMAIN g : g[k].at <= t
  BY <1>1 DEF Fit
<1>4. z \notin {"start", "head", "ticking", "ready", "asking", "failed", "pausing"}
  OBVIOUS
<1>5. QED
  BY <1>2, <1>3, <1>4 DEF Fit

\* The stream is back at the head of its loop, or further, and has not failed.
LEMMA FitEager ==
  ASSUME NEW h \in History, h # << >>, NEW t, NEW s, NEW b, NEW w, NEW v,
         s \in {"skipping", "offering"}, Fit(h, t, s, b, w)
  PROVE  Fit(h, t, "head", b, v)
<1> DEFINE m == Len(h) - 1
<1>1. m \in Nat /\ m + 1 = Len(h)
  BY PollsAre, EmptySeq
<1>2. h[Len(h)].outcome # "failed" /\ b = First /\ \A k \in DOMAIN h : h[k].at <= t
  BY DEF Fit
<1> HIDE DEF m
<1>3. Streak(h, m + 1) = 0
  BY <1>1, <1>2, StreakGrows
<1>4. Streak(h, Len(h)) + 1 = 1
  BY <1>1, <1>3
<1>5. b = PauseAfter(Streak(h, Len(h)) + 1)
  BY <1>2, <1>4, PauseSteps
<1>6. QED
  BY <1>2, <1>5 DEF Fit

\* A pause is over.
LEMMA FitResumed ==
  ASSUME NEW h \in History, h # << >>, NEW t \in Nat, NEW b \in Nat, NEW w \in Nat, NEW v,
         Fit(h, t, "pausing", b, w), t >= w
  PROVE  Fit(h, t, "head", IF b < Longest THEN Doubled(b) ELSE b, v)
<1> DEFINE s == Streak(h, Len(h))
<1>1. Len(h) \in 1..Len(h)
  BY PollsAre
<1>2. /\ h[Len(h)].outcome = "failed" /\ b = PauseAfter(s) /\ w - h[Len(h)].at >= b
      /\ \A k \in DOMAIN h : h[k].at <= t
  BY DEF Fit
<1> HIDE DEF s
<1>3. s \in Nat \ {0}
  BY <1>2, FailedStreak DEF s
<1>4. PauseAfter(s + 1) = IF b < Longest THEN Doubled(b) ELSE b
  BY <1>2, <1>3, PauseSteps
<1>5. t - h[Len(h)].at >= PauseAfter(s)
  <2>1. h[Len(h)].at \in Nat
    BY <1>1, PollsAre
  <2>2. QED
    BY <1>2, <2>1
<1>6. QED
  BY <1>2, <1>4, <1>5 DEF Fit, s

\* Time passes.
LEMMA FitLater ==
  ASSUME NEW h \in History, NEW t \in Nat, NEW u \in Nat, t <= u, NEW s, NEW b, NEW w,
         Fit(h, t, s, b, w)
  PROVE  Fit(h, u, s, b, w)
<1>1. \A k \in DOMAIN h : h[k].at \in Nat /\ h[k].at <= u
  BY PollsAre DEF Fit
<1>2. ASSUME h # << >>, h[Len(h)].outcome = "failed",
             t - h[Len(h)].at >= PauseAfter(Streak(h, Len(h)))
      PROVE  u - h[Len(h)].at >= PauseAfter(Streak(h, Len(h)))
  <2> DEFINE p == PauseAfter(Streak(h, Len(h)))
             a == h[Len(h)].at
  <2>1. p \in Nat /\ a \in Nat /\ t - a >= p
    BY <1>2, PollsAre, FailedStreak, PauseType
  <2> HIDE DEF p, a
  <2>2. u - a >= p
    BY <2>1
  <2>3. QED
    BY <2>2 DEF p, a
<1>3. QED
  BY <1>1, <1>2 DEF Fit

\* The stream moves on, to a place that knows as much.
LEMMA FitMoves ==
  ASSUME NEW h, NEW t, NEW s, NEW z, NEW b, NEW w, Fit(h, t, s, b, w),
         \/ {s, z} \subseteq {"start", "head", "ticking", "ready"}
         \/ {s, z} \subseteq {"answered", "reading", "spoilt", "skipping", "offering"}
         \/ z = "ended"
  PROVE  Fit(h, t, z, b, w)
<1>1. \A k \in DOMAIN h : h[k].at <= t
  BY DEF Fit
<1>2. CASE {s, z} \subseteq {"start", "head", "ticking", "ready"}
  BY <1>2 DEF Fit
<1>3. CASE {s, z} \subseteq {"answered", "reading", "spoilt", "skipping", "offering"}
  BY <1>3 DEF Fit
<1>4. CASE z = "ended"
  BY <1>1, <1>4 DEF Fit
<1>5. QED
  BY <1>2, <1>3, <1>4

LEMMA FitPauses ==
  ASSUME NEW h \in History, h # << >>, NEW t \in Nat, NEW b \in Nat, NEW w, Fit(h, t, "failed", b, w)
  PROVE  Fit(h, t, "pausing", b, t + b)
<1>1. h[Len(h)].at \in Nat /\ h[Len(h)].at <= t
  BY PollsAre DEF Fit
<1>2. (t + b) - h[Len(h)].at >= b
  BY <1>1
<1>3. QED
  BY <1>2 DEF Fit

LEMMA BackoffBegins == Init => BackoffInv
<1> SUFFICES ASSUME Init PROVE BackoffInv
  OBVIOUS
<1>1. Len(polls) = 0 /\ DOMAIN polls = {} /\ polls = << >> /\ stream = "start" /\ backoff = First
  BY EmptySeq, LenProperties DEF Init
<1>2. PauseAfter(Streak(polls, Len(polls)) + 1) = First
  BY <1>1, StreakStarts, PauseSteps
<1>3. Spaced(polls)
  BY <1>1 DEF Spaced
<1>4. Fit(polls, now, stream, backoff, wake)
  BY <1>1, <1>2 DEF Fit
<1>5. QED
  BY <1>3, <1>4, BackoffIs

LEMMA StreamBackoff ==
  ASSUME IInv, BackoffInv, StreamNext
  PROVE  BackoffInv'
<1>1. /\ polls \in History /\ now \in Nat /\ backoff \in Nat /\ wake \in Nat
      /\ Spaced(polls) /\ Fit(polls, now, stream, backoff, wake)
  BY TypeParts, BackoffIs, BackoffAssumption DEF IInv, WorldType, StreamType
<1>2. stream \in {"asking", "failed", "pausing", "answered", "reading", "spoilt", "skipping", "offering"}
        => polls # << >>
  BY DEF IInv, StreamKnows
<1>3. SUFFICES Spaced(polls') /\ Fit(polls', now', stream', backoff', wake')
  BY BackoffIs
<1>4. CASE Announce \/ LoopHead \/ Tock \/ BadUrl \/ StreamEnds \/ Connected \/ Spoilt
  <2>1. UNCHANGED <<polls, now, backoff, wake>>
    BY <1>4 DEF Announce, LoopHead, Tock, BadUrl, StreamEnds, Connected, Spoilt, world
  <2>2. \/ {stream, stream'} \subseteq {"start", "head", "ticking", "ready"}
        \/ {stream, stream'} \subseteq {"answered", "reading", "spoilt", "skipping", "offering"}
        \/ stream' = "ended"
    BY <1>4 DEF Announce, LoopHead, Tock, BadUrl, StreamEnds, Connected, Spoilt, Stream
  <2>3. QED
    BY <1>1, <2>1, <2>2, FitMoves
<1>5. CASE Skip \/ Offer
  <2>1. UNCHANGED <<polls, now, backoff, wake>> /\ stream \in {"skipping", "offering"} /\ stream' = "head"
    BY <1>5 DEF Skip, Offer, Stream, world
  <2>2. QED
    BY <1>1, <1>2, <2>1, FitEager
<1>6. CASE Ask
  <2>1. /\ stream = "ready" /\ stream' = "asking" /\ UNCHANGED <<now, backoff, wake>>
        /\ polls' = Append(polls, [at |-> now, outcome |-> "asking", content |-> << >>])
    BY <1>6 DEF Ask, Stream, world
  <2>2. QED
    BY <1>1, <2>1, AskIs, FitAsked
<1>7. CASE PollFails
  <2>1. /\ stream = "asking" /\ stream' = "failed" /\ UNCHANGED <<now, backoff, wake>>
        /\ Outcome("failed") /\ "failed" \in Outcomes
    BY <1>7 DEF PollFails, Stream, world, Outcomes
  <2>2. QED
    BY <1>1, <1>2, <2>1, OutcomeIs, FitFailed
<1>8. CASE PollAnswers
  <2>1. /\ stream = "asking" /\ stream' = "answered" /\ UNCHANGED <<now, wake>> /\ backoff' = First
        /\ Outcome("answered") /\ "answered" \in Outcomes
    BY <1>8 DEF PollAnswers, Stream, world, Outcomes
  <2>2. polls' \in History /\ polls'[Len(polls)].outcome # "failed"
    BY <1>1, <1>2, <2>1, OutcomeIs
  <2>3. QED
    BY <1>1, <1>2, <2>1, <2>2, OutcomeIs, FitFresh
<1>9. CASE ReadFails
  <2>1. /\ stream = "reading" /\ stream' = "spoilt" /\ UNCHANGED <<now, wake, backoff>>
        /\ Outcome("spoilt") /\ "spoilt" \in Outcomes
    BY <1>9 DEF ReadFails, Stream, world, Outcomes
  <2>2. polls' \in History /\ polls'[Len(polls)].outcome # "failed" /\ backoff' = First
    BY <1>1, <1>2, <2>1, OutcomeIs DEF Fit
  <2>3. QED
    BY <1>1, <1>2, <2>1, <2>2, OutcomeIs, FitFresh
<1>10. CASE Read
  <2>1. /\ stream = "reading" /\ stream' = "offering" /\ UNCHANGED <<now, wake, backoff>>
    BY <1>10 DEF Read, Stream, world
  <2>2. PICK c \in Seq(Int) :
          polls' = [polls EXCEPT ![Len(polls)].outcome = "snapshot", ![Len(polls)].content = c]
    BY <1>10, ContentAssumption DEF Read
  <2>3. polls' \in History /\ polls'[Len(polls)].outcome # "failed" /\ backoff' = First
    BY <1>1, <1>2, <2>1, <2>2, ReadIs DEF Fit
  <2>4. /\ polls # << >> /\ Len(polls') = Len(polls)
        /\ \A k \in 1..Len(polls) : polls'[k].at = polls[k].at
        /\ \A k \in 1..Len(polls) : k # Len(polls) => polls'[k] = polls[k]
    BY <1>1, <1>2, <2>1, <2>2, ReadIs
  <2>5. "offering" \in {"answered", "reading", "spoilt", "skipping", "offering"}
    OBVIOUS
  <2>6. Spaced(polls') /\ Fit(polls', now, "offering", First, wake)
    BY <1>1, <2>3, <2>4, <2>5, FitFresh
  <2>7. QED
    BY <2>1, <2>3, <2>6
<1>11. CASE Retry
  <2>1. /\ stream = "failed" /\ stream' = "pausing" /\ UNCHANGED <<polls, now, backoff>>
        /\ wake' = now + backoff
    BY <1>11 DEF Retry, Stream, world
  <2>2. QED
    BY <1>1, <1>2, <2>1, FitPauses
<1>12. CASE Resume
  <2>1. /\ stream = "pausing" /\ stream' = "head" /\ UNCHANGED <<polls, now, wake>> /\ now >= wake
        /\ backoff' = IF backoff < Longest THEN Doubled(backoff) ELSE backoff
    BY <1>12 DEF Resume, Stream, world
  <2>2. Fit(polls, now, "head", IF backoff < Longest THEN Doubled(backoff) ELSE backoff, wake)
    BY <1>1, <1>2, <2>1, FitResumed
  <2>3. QED
    BY <1>1, <2>1, <2>2
<1>13. QED
  BY <1>4, <1>5, <1>6, <1>7, <1>8, <1>9, <1>10, <1>11, <1>12 DEF StreamNext

LEMMA BackoffKeeps ==
  ASSUME IInv, IInv', BackoffInv, [Next]_vars
  PROVE  BackoffInv'
<1>1. CASE StreamNext
  BY <1>1, StreamBackoff
<1>2. CASE ~StreamNext
  <2>1. UNCHANGED streamVars /\ (UNCHANGED now \/ now' = now + 1)
    <3>1. CASE PubNext
      BY <3>1 DEF PubNext, PubStarts, PubSends, PubStops, PubConfirmed, PubFails, PubReports,
                  PubCompletes, world
    <3>2. CASE MainNext
      BY <3>2 DEF MainNext, Quit, CtxDone, ResetTooSoon, ResetStarts, TakeSnap, StreamClosed,
                  TakeStatus, world, vars
    <3>3. CASE Signal \/ Tick \/ UNCHANGED vars
      BY <3>3 DEF Signal, Tick, world, vars
    <3>4. CASE \E i \in DOMAIN resets : ResetNext(i)
      BY <3>4 DEF ResetNext, ResetSends, ResetAnswers, ResetPanics, ResetReports, world
    <3>5. CASE \E k \in {"q", "r"} : Press(k)
      BY <3>5 DEF Press, world
    <3>6. QED
      BY <1>2, <3>1, <3>2, <3>3, <3>4, <3>5 DEF Next
  <2>2. UNCHANGED <<polls, stream, backoff, wake>>
    BY <2>1 DEF streamVars
  <2>3. /\ polls \in History /\ now \in Nat
        /\ Spaced(polls) /\ Fit(polls, now, stream, backoff, wake)
    BY TypeParts, BackoffIs DEF IInv, WorldType, StreamType
  <2>4. now' \in Nat /\ now <= now'
    BY <2>1, <2>3
  <2>5. Fit(polls, now', stream, backoff, wake)
    BY <2>3, <2>4, FitLater
  <2>6. QED
    BY <2>2, <2>3, <2>5, BackoffIs
<1>3. QED
  BY <1>1, <1>2

-----------------------------------------------------------------------------
(* The theorems.                                                           *)

\* The state of the dashboard keeps its types, and its channels their
\* capacities, however its goroutines interleave (tracer.go:407).
THEOREM TypeCorrect == Spec => []TypeOK
BY Invariance, PTL DEF IInv

\* No snapshot that the stream read is lost, shown twice or shown after a later
\* one, except the one it holds when a signal ends it (tracer.go:338).
THEOREM SnapshotsStayInOrder == Spec => []SnapshotsInOrder
BY Invariance, PTL DEF IInv

\* Polls do not pile up behind a slow answer or a long pause: between two of
\* them lie their ticks, but for the one tick a ticker keeps (tracer.go:260).
THEOREM PollsStayPaced == Spec => []PollsPaced
BY Invariance, PTL DEF IInv

\* A status line that says completed has said every publish error before
\* (tracer.go:421).
THEOREM ErrorsComeFirst == Spec => []ErrorsBeforeCompletion
BY Invariance, PTL DEF IInv

\* The table shows the slowest messages of the newest snapshot, and those
\* without a delay last (tracer.go:492).
THEOREM TableFollows == Spec => []TableIsLatest
BY Invariance, PTL DEF IInv

\* The pause after each failed poll is at least the one that the failures in a
\* row call for, and a success ends the row, however answers, the other
\* goroutines and a signal interleave (tracer.go:285).
THEOREM RetriesStayPolite == Spec => []RetriesBackOff
<1>1. Init => BackoffInv
  BY BackoffBegins
<1>2. IInv /\ IInv' /\ BackoffInv /\ [Next]_vars => BackoffInv'
  BY BackoffKeeps
<1>3. BackoffInv => RetriesBackOff
  BY DEF BackoffInv
<1>4. QED
  BY <1>1, <1>2, <1>3, Invariance, PTL DEF Spec
=============================================================================
