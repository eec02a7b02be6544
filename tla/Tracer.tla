-------------------------------- MODULE Tracer --------------------------------
(***************************************************************************)
(* `mump2p tracer dashboard`: cmd/tracer.go.                               *)
(*                                                                         *)
(* Goroutines share two bounded channels.  The stream polls the proxy and  *)
(* sends snapshots; the publisher sends random messages; a goroutine per   *)
(* reset asks the proxy to forget its statistics; all of them say on the   *)
(* status channel how they fare.  The main loop selects over the keyboard, *)
(* the signal and both channels.  It alone receives, and it never sends.   *)
(*                                                                         *)
(* The unit of the clock is the interval between two polls.                *)
(***************************************************************************)
EXTENDS Integers, Sequences

CONSTANTS
  Count,       \* how many messages the publisher sends
  First,       \* the pause after a first failure, backoff at its start
  Longest,     \* backoffMax
  ResetGap,    \* how long a second reset has to wait
  SnapSize,    \* capacity of snapCh
  StatusSize,  \* capacity of statusCh
  MaxRows,     \* rows of the table
  Content,     \* what a snapshot may hold: sequences of message delays
  MaxPolls,    \* bound: polls of the stream
  MaxResets,   \* bound: resets asked for
  MaxTime      \* bound: the last moment of the clock

ASSUME CapacityAssumption == {SnapSize, StatusSize, MaxRows} \subseteq Nat \ {0}
ASSUME BackoffAssumption == First \in Nat \ {0} /\ Longest \in Nat /\ First <= Longest
ASSUME CountAssumption == Count \in Nat /\ ResetGap \in Nat
ASSUME ContentAssumption == Content \subseteq Seq(Int)
ASSUME BoundAssumption == MaxPolls \in Nat /\ MaxResets \in Nat /\ MaxTime \in Nat

VARIABLES
  now,        \* the time
  due,        \* the stream's ticker has a tick that nobody took
  cancelled,  \* a signal has cancelled the context
  main,       \* "running", "exited" or "crashed"
  key,        \* the key that waits to be read, "none" if there is none
  lastReset,  \* when the last reset was asked for
  urlOk,      \* the service URL parses
  stream,     \* where the stream is; it closes snapCh when it ends
  backoff,    \* the pause after the next failure
  wake,       \* when the present pause is over
  polls,      \* the polls so far: when, how they came out, and the delays they brought
  publisher,  \* where the publisher is
  tries,      \* messages it has sent
  failures,   \* how many of them failed
  resets,     \* where each reset is
  snapCh,     \* numbers of the polls whose snapshots wait to be shown
  statusCh,   \* texts that wait to be shown
  shown,      \* numbers of the polls whose snapshots have been shown, in order
  table,      \* the delays in the rows of the table
  told        \* publish errors that have been in the status line, and completion

streamVars == <<stream, backoff, wake, polls>>
pubVars == <<publisher, tries, failures>>
mainVars == <<main, key, lastReset, shown, table, told>>
world == <<now, due, cancelled, urlOk>>
channels == <<snapCh, statusCh>>
vars == <<world, mainVars, streamVars, pubVars, resets, channels>>

\* A text that is said, by its kind; a publish error also by its number.
Text(k) == [kind |-> k, number |-> 0]

Init ==
  /\ now = 0 /\ due = FALSE /\ cancelled = FALSE /\ urlOk \in BOOLEAN
  /\ main = "running" /\ key = "none" /\ lastReset = -ResetGap
  /\ stream = "start" /\ backoff = First /\ wake = 0 /\ polls = << >>
  /\ publisher = IF Count = 0 THEN "ended" ELSE "start"
  /\ tries = 0 /\ failures = 0 /\ resets = << >>
  /\ snapCh = << >> /\ statusCh = << >>
  /\ shown = << >> /\ table = << >>
  /\ told = [errors |-> {}, completed |-> FALSE]

\* Mutant of Say: the send fits one text more than there is room for.
SayOneMore(text) == Len(statusCh) <= StatusSize /\ statusCh' = Append(statusCh, text)

\* Mutant of Say: a send that gives up when the channel is full.
SayOrDrop(text) ==
  statusCh' = IF Len(statusCh) < StatusSize THEN Append(statusCh, text) ELSE statusCh

\* statusCh <- text, which blocks while the channel is full, whatever the context.
Say(text) == Len(statusCh) < StatusSize /\ statusCh' = Append(statusCh, text)

-----------------------------------------------------------------------------
(* The stream of snapshots.                                                *)

Stream(from, to) == main = "running" /\ stream = from /\ stream' = to

\* The result of the poll under way.
Outcome(o) == polls' = [polls EXCEPT ![Len(polls)].outcome = o]

Announce ==
  /\ Stream("start", "head") /\ Say(Text("connecting"))
  /\ UNCHANGED <<world, mainVars, backoff, wake, polls, pubVars, resets, snapCh>>

\* The head of the loop: the first request does not wait for the ticker.
LoopHead ==
  /\ ~cancelled
  /\ Stream("head", IF polls = << >> THEN "ready" ELSE "ticking")
  /\ UNCHANGED <<world, mainVars, backoff, wake, polls, pubVars, resets, channels>>

\* Mutant of Tock: the stream takes a tick and leaves it in the channel.
TockForever ==
  /\ Stream("ticking", "ready") /\ due
  /\ UNCHANGED <<world, mainVars, backoff, wake, polls, pubVars, resets, channels>>

Tock ==
  /\ Stream("ticking", "ready") /\ due /\ due' = FALSE
  /\ UNCHANGED <<now, cancelled, urlOk, mainVars, backoff, wake, polls, pubVars, resets, channels>>

BadUrl ==
  /\ ~urlOk /\ Stream("ready", "ended") /\ Say(Text("config error"))
  /\ UNCHANGED <<world, mainVars, backoff, wake, polls, pubVars, resets, snapCh>>

Ask ==
  /\ urlOk /\ Stream("ready", "asking") /\ Len(polls) < MaxPolls
  /\ polls' = Append(polls, [at |-> now, outcome |-> "asking", content |-> << >>])
  /\ UNCHANGED <<world, mainVars, backoff, wake, pubVars, resets, channels>>

\* No answer within ten seconds, the context cancelled, or another status than 200.
PollFails ==
  /\ Stream("asking", "failed") /\ Outcome("failed")
  /\ UNCHANGED <<world, mainVars, backoff, wake, pubVars, resets, channels>>

Retry ==
  /\ Stream("failed", "pausing") /\ Say(Text("retrying"))
  /\ wake' = now + backoff
  /\ UNCHANGED <<world, mainVars, backoff, polls, pubVars, resets, snapCh>>

Doubled(b) == IF 2 * b > Longest THEN Longest ELSE 2 * b

Resume ==
  /\ Stream("pausing", "head") /\ now >= wake
  /\ backoff' = IF backoff < Longest THEN Doubled(backoff) ELSE backoff
  /\ UNCHANGED <<world, mainVars, wake, polls, pubVars, resets, channels>>

\* Mutant of PollAnswers: the backoff of earlier failures stays.
PollAnswersOnly ==
  /\ Stream("asking", "answered") /\ Outcome("answered")
  /\ UNCHANGED <<world, mainVars, backoff, wake, pubVars, resets, channels>>

\* A response with status 200; its body has yet to be read.
PollAnswers ==
  /\ Stream("asking", "answered") /\ Outcome("answered") /\ backoff' = First
  /\ UNCHANGED <<world, mainVars, wake, pubVars, resets, channels>>

Connected ==
  /\ Stream("answered", "reading") /\ Say(Text("connected"))
  /\ UNCHANGED <<world, mainVars, backoff, wake, polls, pubVars, resets, snapCh>>

Read ==
  /\ Stream("reading", "offering")
  /\ \E c \in Content :
       polls' = [polls EXCEPT ![Len(polls)].outcome = "snapshot", ![Len(polls)].content = c]
  /\ UNCHANGED <<world, mainVars, backoff, wake, pubVars, resets, channels>>

\* The body breaks off, or it does not parse.
ReadFails ==
  /\ Stream("reading", "spoilt") /\ Outcome("spoilt")
  /\ UNCHANGED <<world, mainVars, backoff, wake, pubVars, resets, channels>>

Spoilt ==
  /\ Stream("spoilt", "skipping") /\ Say(Text("spoilt"))
  /\ UNCHANGED <<world, mainVars, backoff, wake, polls, pubVars, resets, snapCh>>

\* After a spoilt answer a tick is taken, and the head of the loop takes another.
Skip ==
  /\ Stream("skipping", "head") /\ due /\ due' = FALSE
  /\ UNCHANGED <<now, cancelled, urlOk, mainVars, backoff, wake, polls, pubVars, resets, channels>>

\* Mutant of Offer: a snapshot that finds the channel full is thrown away.
OfferOrDrop ==
  /\ Stream("offering", "head")
  /\ snapCh' = IF Len(snapCh) < SnapSize THEN Append(snapCh, Len(polls)) ELSE snapCh
  /\ UNCHANGED <<world, mainVars, backoff, wake, polls, pubVars, resets, statusCh>>

Offer ==
  /\ Stream("offering", "head") /\ Len(snapCh) < SnapSize
  /\ snapCh' = Append(snapCh, Len(polls))
  /\ UNCHANGED <<world, mainVars, backoff, wake, polls, pubVars, resets, statusCh>>

\* The context is done.  A select that could also go on chooses either way.
StreamEnds ==
  /\ cancelled /\ \E at \in {"head", "ticking", "pausing", "skipping", "offering"} : Stream(at, "ended")
  /\ UNCHANGED <<world, mainVars, backoff, wake, polls, pubVars, resets, channels>>

-----------------------------------------------------------------------------
(* The publisher.                                                          *)

Publisher(from, to) == main = "running" /\ publisher = from /\ publisher' = to

\* The subscription that follows has no effect here: its failure is ignored.
PubStarts ==
  /\ Publisher("start", "loop") /\ Say(Text("publishing"))
  /\ UNCHANGED <<world, mainVars, streamVars, tries, failures, resets, snapCh>>

PubSends ==
  /\ tries < Count /\ ~cancelled /\ Publisher("loop", "asking") /\ tries' = tries + 1
  /\ UNCHANGED <<world, mainVars, streamVars, failures, resets, channels>>

PubStops ==
  /\ tries < Count /\ cancelled /\ Publisher("loop", "ended")
  /\ UNCHANGED <<world, mainVars, streamVars, tries, failures, resets, channels>>

\* The proxy took the message; the pause before the next one passes.
PubConfirmed ==
  /\ urlOk /\ Publisher("asking", "loop")
  /\ UNCHANGED <<world, mainVars, streamVars, tries, failures, resets, channels>>

PubFails ==
  /\ Publisher("asking", "failed") /\ failures' = failures + 1
  /\ UNCHANGED <<world, mainVars, streamVars, tries, resets, channels>>

PubReports ==
  /\ Publisher("failed", "loop") /\ Say([kind |-> "publish error", number |-> failures])
  /\ UNCHANGED <<world, mainVars, streamVars, tries, failures, resets, snapCh>>

\* Also when messages failed, and when the context was cancelled after the last one.
PubCompletes ==
  /\ tries = Count /\ Publisher("loop", "ended") /\ Say(Text("completed"))
  /\ UNCHANGED <<world, mainVars, streamVars, tries, failures, resets, snapCh>>

-----------------------------------------------------------------------------
(* A reset, in a goroutine of its own.                                     *)

Reset(i, from, to) == main = "running" /\ resets[i] = from /\ resets' = [resets EXCEPT ![i] = to]

ResetSends(i) ==
  /\ Reset(i, "start", "asking") /\ Say(Text("resetting"))
  /\ UNCHANGED <<world, mainVars, streamVars, pubVars, snapCh>>

ResetAnswers(i) ==
  /\ urlOk /\ \E o \in {"reset done", "reset failed"} : Reset(i, "asking", o)
  /\ UNCHANGED <<world, mainVars, streamVars, pubVars, channels>>

\* resetStats ignores that its request could not be made, and uses it.
ResetPanics(i) ==
  /\ ~urlOk /\ main = "running" /\ resets[i] = "asking" /\ main' = "crashed"
  /\ UNCHANGED <<world, key, lastReset, shown, table, told, streamVars, pubVars, resets, channels>>

ResetReports(i) ==
  /\ \E o \in {"reset done", "reset failed"} : Reset(i, o, "ended") /\ Say(Text(o))
  /\ UNCHANGED <<world, mainVars, streamVars, pubVars, snapCh>>

-----------------------------------------------------------------------------
(* The main loop: one case of its select at a time.  The cases that only   *)
(* draw the screen, its ticker and a resize, change nothing here.          *)

\* Mutant of Quit: the keyboard is read only while the stream lives.
QuitWhileStreaming ==
  /\ main = "running" /\ key = "q" /\ stream # "ended" /\ main' = "exited"
  /\ UNCHANGED <<world, key, lastReset, shown, table, told, streamVars, pubVars, resets, channels>>

Quit ==
  /\ main = "running" /\ key = "q" /\ main' = "exited"
  /\ UNCHANGED <<world, key, lastReset, shown, table, told, streamVars, pubVars, resets, channels>>

CtxDone ==
  /\ main = "running" /\ cancelled /\ main' = "exited"
  /\ UNCHANGED <<world, key, lastReset, shown, table, told, streamVars, pubVars, resets, channels>>

ResetTooSoon ==
  /\ main = "running" /\ key = "r" /\ now - lastReset < ResetGap
  /\ key' = "none"
  /\ UNCHANGED <<world, main, lastReset, shown, table, told, streamVars, pubVars, resets, channels>>

ResetStarts ==
  /\ main = "running" /\ key = "r" /\ now - lastReset >= ResetGap
  /\ key' = "none" /\ lastReset' = now /\ resets' = Append(resets, "start")
  /\ UNCHANGED <<world, main, shown, table, told, streamVars, pubVars, channels>>

\* Mutant of Before: delays in descending order, whether settled or not.
BeforeByDelay(a, b) == a > b

\* The order of the rows: slowest first, and last those without a delay yet.
\* A delay is negative when the clocks of two nodes differ.
Before(a, b) == a # 0 /\ (b = 0 \/ a > b)

\* What sort.Slice may make of the messages, cut to the table's size.
Rows(c) ==
  LET shuffles == {f \in [DOMAIN c -> DOMAIN c] : \A k \in DOMAIN c : \E i \in DOMAIN c : f[i] = k}
      sorted == {f \in shuffles : \A i, j \in DOMAIN c : i < j => ~Before(c[f[j]], c[f[i]])}
      top == IF Len(c) < MaxRows THEN Len(c) ELSE MaxRows
  IN {[i \in 1..top |-> c[f[i]]] : f \in sorted}

TakeSnap ==
  /\ main = "running" /\ snapCh # << >>
  /\ snapCh' = Tail(snapCh) /\ shown' = Append(shown, Head(snapCh))
  /\ table' \in Rows(polls[Head(snapCh)].content)
  /\ UNCHANGED <<world, main, key, lastReset, told, streamVars, pubVars, resets, statusCh>>

\* The closed channel is always ready: this case comes up again and again, and
\* only rewrites the status line.
StreamClosed ==
  /\ main = "running" /\ snapCh = << >> /\ stream = "ended"
  /\ UNCHANGED vars

\* What has been in the status line once text t is in it.
Noted(t) ==
  [errors |-> IF t.kind = "publish error" THEN told.errors \union {t.number} ELSE told.errors,
   completed |-> told.completed \/ t.kind = "completed"]

\* Mutant of TakeStatus: the status channel is read only while the stream lives.
TakeStatusWhileStreaming ==
  /\ main = "running" /\ stream # "ended" /\ statusCh # << >>
  /\ statusCh' = Tail(statusCh)
  /\ told' = Noted(Head(statusCh))
  /\ UNCHANGED <<world, main, key, lastReset, shown, table, streamVars, pubVars, resets, snapCh>>

TakeStatus ==
  /\ main = "running" /\ statusCh # << >>
  /\ statusCh' = Tail(statusCh)
  /\ told' = Noted(Head(statusCh))
  /\ UNCHANGED <<world, main, key, lastReset, shown, table, streamVars, pubVars, resets, snapCh>>

-----------------------------------------------------------------------------
(* The user, the system and the clock.                                     *)

Press(k) ==
  /\ main = "running" /\ key = "none" /\ (k = "r" => Len(resets) < MaxResets)
  /\ key' = k
  /\ UNCHANGED <<world, main, lastReset, shown, table, told, streamVars, pubVars,
                 resets, channels>>

Signal ==
  /\ main = "running" /\ ~cancelled /\ cancelled' = TRUE
  /\ UNCHANGED <<now, due, urlOk, mainVars, streamVars, pubVars, resets, channels>>

\* The ticker is made after the first text; it holds one tick and drops others.
Tick ==
  /\ main = "running" /\ now < MaxTime
  /\ now' = now + 1 /\ due' = (stream # "start")
  /\ UNCHANGED <<cancelled, urlOk, mainVars, streamVars, pubVars, resets, channels>>

StreamNext ==
  \/ Announce \/ LoopHead \/ Tock \/ BadUrl \/ Ask \/ PollFails \/ Retry \/ Resume \/ PollAnswers
  \/ Connected \/ Read \/ ReadFails \/ Spoilt \/ Skip \/ Offer \/ StreamEnds

PubNext ==
  PubStarts \/ PubSends \/ PubStops \/ PubConfirmed \/ PubFails \/ PubReports \/ PubCompletes

ResetNext(i) == ResetSends(i) \/ ResetAnswers(i) \/ ResetPanics(i) \/ ResetReports(i)

MainNext ==
  Quit \/ CtxDone \/ ResetTooSoon \/ ResetStarts \/ TakeSnap \/ StreamClosed \/ TakeStatus

Next ==
  \/ StreamNext \/ PubNext \/ MainNext \/ Signal \/ Tick
  \/ \E i \in DOMAIN resets : ResetNext(i)
  \/ \E k \in {"q", "r"} : Press(k)

\* A select chooses at random among its ready cases, so that none waits for
\* ever.  Goroutines go on when they can; those that wait to send are served in
\* turn, hence the strong fairness.  Nobody has to press a key.
Fairness ==
  /\ WF_vars(Quit) /\ WF_vars(CtxDone) /\ WF_vars(TakeSnap) /\ WF_vars(TakeStatus)
  /\ SF_vars(StreamNext) /\ SF_vars(PubNext) /\ WF_vars(Tick)
  /\ \A i \in 1..MaxResets : SF_vars(i \in DOMAIN resets /\ ResetNext(i))

Spec == Init /\ [][Next]_vars /\ Fairness

-----------------------------------------------------------------------------
(* Properties.                                                             *)

Kinds == {"connecting", "config error", "retrying", "connected", "spoilt", "publishing",
          "publish error", "completed", "resetting", "reset done", "reset failed"}

StreamPlaces == {"start", "head", "ticking", "ready", "asking", "failed", "pausing", "answered",
                 "reading", "spoilt", "skipping", "offering", "ended"}

Polls == [at : Nat, outcome : {"asking", "failed", "answered", "spoilt", "snapshot"}, content : Seq(Int)]

\* Types, and the capacities of the two channels (tracer.go:407).
TypeOK ==
  /\ now \in Nat /\ due \in BOOLEAN /\ cancelled \in BOOLEAN /\ urlOk \in BOOLEAN
  /\ main \in {"running", "exited", "crashed"} /\ key \in {"none", "q", "r"} /\ lastReset \in Int
  /\ stream \in StreamPlaces /\ backoff \in First..Longest /\ wake \in Nat
  /\ polls \in Seq(Polls)
  /\ publisher \in {"start", "loop", "asking", "failed", "ended"}
  /\ tries \in 0..Count /\ failures \in 0..tries
  /\ resets \in Seq({"start", "asking", "reset done", "reset failed", "ended"})
  /\ snapCh \in Seq(Nat) /\ Len(snapCh) <= SnapSize
  /\ statusCh \in Seq([kind : Kinds, number : Nat]) /\ Len(statusCh) <= StatusSize
  /\ shown \in Seq(Nat) /\ table \in Seq(Int) /\ Len(table) <= MaxRows
  /\ told \in [errors : SUBSET Nat, completed : BOOLEAN]

Snapshots == {k \in DOMAIN polls : polls[k].outcome = "snapshot"}
OnTheWay == shown \o snapCh

\* No snapshot is lost, shown twice or shown after a later one: those shown and
\* those in the channel are the answered polls in their order.  The last one is
\* missing only while the stream holds it, or when the context ended meanwhile.
SnapshotsInOrder ==
  /\ \A i, j \in DOMAIN OnTheWay : i < j => OnTheWay[i] < OnTheWay[j]
  /\ \A i \in DOMAIN OnTheWay : OnTheWay[i] \in Snapshots
  /\ \A k \in Snapshots :
       \/ \E i \in DOMAIN OnTheWay : OnTheWay[i] = k
       \/ /\ k = Len(polls)
          /\ (stream = "offering" \/ (stream = "ended" /\ cancelled))

\* How many of the polls in h failed in a row, up to number k.
Streak(h, k) ==
  CHOOSE n \in 0..k : /\ \A i \in (k - n + 1)..k : h[i].outcome = "failed"
                      /\ n < k => h[k - n].outcome # "failed"

Doublings[n \in Nat] == IF n = 0 THEN First ELSE 2 * Doublings[n - 1]

\* The pause that the n-th failure in a row calls for: First for a first one,
\* twice as long for each further one, and never more than Longest.
PauseAfter(n) == IF Doublings[n - 1] < Longest THEN Doublings[n - 1] ELSE Longest

Pause(k) == PauseAfter(Streak(polls, k))

\* A proxy that fails is polled less and less often, and a success makes the
\* stream as eager again as at the start (tracer.go:285).
RetriesBackOff ==
  /\ \A k \in 1..(Len(polls) - 1) :
       polls[k].outcome = "failed" => polls[k + 1].at - polls[k].at >= Pause(k)
  /\ stream \in {"failed", "pausing"} => backoff = Pause(Len(polls))

\* However long answers and pauses take, polls do not pile up afterwards:
\* between two polls lie as many ticks as polls, less the one the ticker kept.
PollsPaced ==
  \A i, j \in DOMAIN polls : i < j => j - i <= polls[j].at - polls[i].at + 1

\* When the status line says that publishing is completed, every publish that
\* failed has been in it before: the sends of one goroutine keep their order.
ErrorsBeforeCompletion == told.completed => told.errors = 1..failures

Latest(t, c) ==
  LET slower(d) == {k \in DOMAIN c : c[k] # 0 /\ (d = 0 \/ c[k] > d)}
  IN /\ Len(t) = IF Len(c) < MaxRows THEN Len(c) ELSE MaxRows
     /\ \A i \in DOMAIN t : \E k \in DOMAIN c : c[k] = t[i]
     /\ \A i \in DOMAIN t : \A k \in slower(t[i]) : \E j \in 1..(i - 1) : t[j] = c[k]

\* The table belongs to the newest snapshot shown: no message left out of it is
\* slower than one in it, and one without a delay is in it only when every
\* message with a delay is, before it.
TableIsLatest == shown # << >> => Latest(table, polls[shown[Len(shown)]].content)

\* q, Ctrl+C and a signal end the dashboard whatever the goroutines do, also
\* when the stream has ended and its closed channel is always ready.
QuitEnds == (key = "q" \/ cancelled) ~> main # "running"

\* No goroutine waits for ever on a channel while the dashboard runs, also when
\* the stream has ended: what wants to be said or offered goes out.
SendersGoOn ==
  /\ \A at \in {"start", "failed", "answered", "spoilt", "offering"} :
       stream = at ~> (stream # at \/ main # "running")
  /\ \A at \in {"start", "failed"} : publisher = at ~> (publisher # at \/ main # "running")
  /\ \A i \in 1..MaxResets :
       i \in DOMAIN resets ~>
         (\/ i \in DOMAIN resets /\ resets[i] = "ended"
          \/ main # "running")

-----------------------------------------------------------------------------
(* What makes these invariants inductive.                                  *)

Last == polls[Len(polls)]

\* Where the stream is, it knows how its last poll came out.
StreamKnows ==
  /\ stream \in {"asking", "failed", "pausing", "answered", "reading", "spoilt", "skipping",
                "offering"} => polls # << >>
  /\ stream = "asking" => Last.outcome = "asking"
  /\ stream \in {"answered", "reading"} => Last.outcome = "answered"
  /\ stream = "offering" => Last.outcome = "snapshot" /\ \A i \in DOMAIN OnTheWay : OnTheWay[i] < Len(polls)
  /\ stream = "start" => polls = << >>

\* The publisher counts a message before it can fail, and a failure before it
\* says so.
TriesFirst ==
  /\ publisher = "asking" => failures < tries
  /\ publisher = "failed" => failures > 0

\* The ticks since poll i, less the polls since.
Slack(i) == now - polls[i].at - (Len(polls) - i)

\* A tick that waits, and one that was taken for the poll to come, is one more
\* tick than PollsPaced needs.
TicksLeft ==
  \A i \in DOMAIN polls :
    Slack(i) >= (IF due THEN 1 ELSE 0) + (IF stream = "ready" THEN 1 ELSE 0) - 1

\* A publish error is in the status line, or in the channel, or about to be
\* sent; behind the completion there is none.
IsError(text) == text.kind = "publish error"
ErrorsOnTheirWay ==
  /\ \A i \in DOMAIN statusCh : IsError(statusCh[i]) => statusCh[i].number \in 1..failures
  /\ told.errors \subseteq 1..failures
  /\ \A n \in 1..failures :
       \/ n \in told.errors
       \/ \E i \in DOMAIN statusCh : IsError(statusCh[i]) /\ statusCh[i].number = n
       \/ publisher = "failed" /\ n = failures
  /\ \A i \in DOMAIN statusCh :
       statusCh[i].kind = "completed" =>
         publisher = "ended" /\ \A j \in DOMAIN statusCh : j > i => ~IsError(statusCh[j])
  /\ told.completed => publisher = "ended" /\ \A i \in DOMAIN statusCh : ~IsError(statusCh[i])

IInv ==
  /\ TypeOK /\ TriesFirst /\ StreamKnows /\ SnapshotsInOrder
  /\ TicksLeft /\ PollsPaced
  /\ ErrorsOnTheirWay /\ ErrorsBeforeCompletion
  /\ TableIsLatest

\* Wherever the stream is, backoff is the pause that the next failure calls for,
\* or the one that the last failure called for until that pause is over.  After
\* it that much time has passed since the poll that failed.
PausesFit ==
  LET last == Len(polls)
  IN /\ \A k \in DOMAIN polls : polls[k].at <= now
     /\ stream \in {"start", "head", "ticking", "ready"} =>
          /\ backoff = PauseAfter(Streak(polls, last) + 1)
          /\ polls # << >> /\ Last.outcome = "failed" => now - Last.at >= Pause(last)
     /\ stream = "asking" => backoff = PauseAfter(Streak(polls, last - 1) + 1)
     /\ stream \in {"failed", "pausing"} => Last.outcome = "failed" /\ backoff = Pause(last)
     /\ stream = "pausing" => wake - Last.at >= backoff
     /\ stream \in {"answered", "reading", "spoilt", "skipping", "offering"} =>
          Last.outcome # "failed" /\ backoff = First

\* The part of the inductive invariant that only RetriesBackOff needs.
BackoffInv == RetriesBackOff /\ PausesFit
=============================================================================
