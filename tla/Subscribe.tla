------------------------------ MODULE Subscribe ------------------------------
(***************************************************************************)
(* One run of `mump2p subscribe` from the session it has obtained to the   *)
(* exit of the process: cmd/subscribe.go with the receiver goroutine of    *)
(* internal/node.                                                          *)
(*                                                                         *)
(* The main goroutine tries the nodes of the session in order.  From the   *)
(* first that accepts the subscription, messages then flow                 *)
(*                                                                         *)
(*   stream -> receiver -> channel -> consumer -> stdout, file, queue      *)
(*                                    queue -> dispatcher -> POSTs         *)
(*                                                                         *)
(* through goroutines of their own, while the main goroutine waits for a   *)
(* signal or for the consumer to end, prints the summary, closes what it   *)
(* has deferred and exits, which ends all the others where they are.       *)
(* A message is its position in what has arrived on the stream.  The       *)
(* command line always has --persist; without it nothing is in the file.   *)
(***************************************************************************)
EXTENDS Integers, Sequences

CONSTANTS
  N,            \* the number of nodes in the session
  Message,      \* records [trace, other, readable]: is it a trace, does it name
                \* another topic, is its payload readable text
  BufSize,      \* the capacity of the message channel (100 in the code)
  QueueSize,    \* --webhook-queue-size; 0 also when there is no --webhook
  WriteFaults,  \* may writes to the --persist file fail?
  MaxMessages   \* bound: messages the node sends

ASSUME NodeAssumption == N \in Nat \ {0}
ASSUME MessageAssumption ==
  \A m \in Message : {m.trace, m.other, m.readable} \subseteq BOOLEAN
ASSUME SizeAssumption ==
  BufSize \in Nat \ {0} /\ QueueSize \in Nat /\ WriteFaults \in BOOLEAN /\ MaxMessages \in Nat

VARIABLES
  debug,      \* --debug
  main,       \* where the main goroutine is
  node,       \* the node it tries, or is connected to
  failed,     \* the nodes it has failed to subscribe at
  client,     \* client[n]: the connection to node n
  signalled,  \* SIGINT or SIGTERM is, or was, in sigChan
  cancelled,  \* the context of the subscription is cancelled
  sent,       \* the messages of the node that have arrived on the stream
  stream,     \* the stream, as the node or the connection left it
  receiver,   \* where the receiver goroutine is
  received,   \* how many messages the receiver has taken off the stream
  chan,       \* the message channel
  consumer,   \* where the consumer goroutine is
  taken,      \* the last message the consumer has taken
  shown,      \* the messages printed, in order
  persisted,  \* the messages in the file, in order
  summary,    \* the count of the closing line, -1 before it is printed
  fileOpen,   \* the file is open
  queue,      \* the webhook queue
  posting,    \* the messages whose POST is under way
  posted,     \* those whose POST was answered
  unposted,   \* those whose POST failed
  dropped     \* those that found the queue full

connectVars == <<node, failed, client>>
endVars == <<cancelled, summary, fileOpen>>
mainVars == <<debug, main, connectVars, signalled, endVars>>
streamVars == <<sent, stream>>
recvVars == <<receiver, received>>
consumerVars == <<consumer, taken>>
outVars == <<shown, persisted, dropped>>
postVars == <<posting, posted, unposted>>
hookVars == <<queue, postVars>>
flowVars == <<streamVars, recvVars, chan, consumerVars, outVars, hookVars>>
vars == <<mainVars, flowVars>>

Nodes == 1..N

\* Mutants of Shows and of Keeps: unreadable payloads are printed, or persisted.
ShowsBinary(m) == ~((m.trace /\ ~debug) \/ m.other)
KeepsAll(m) == ~((m.trace /\ ~debug) \/ m.other)

\* Messages the consumer skips, prints, and passes on to the file and the queue.
Skips(m) == (m.trace /\ ~debug) \/ m.other
Shows(m) == ~Skips(m) /\ (debug \/ m.readable)
Keeps(m) == ~Skips(m) /\ m.readable

Init ==
  /\ debug \in BOOLEAN
  /\ main = "connecting" /\ node = 1 /\ failed = {}
  /\ client = [n \in Nodes |-> "none"]
  /\ signalled = FALSE /\ cancelled = FALSE
  /\ sent = << >> /\ stream = "none"
  /\ receiver = "none" /\ received = 0
  /\ chan = << >>
  /\ consumer = "none" /\ taken = 0
  /\ shown = << >> /\ persisted = << >>
  /\ summary = -1 /\ fileOpen = TRUE
  /\ queue = << >> /\ posting = {} /\ posted = {} /\ unposted = {} /\ dropped = {}

-----------------------------------------------------------------------------
(* The main goroutine: the connect loop.                                   *)

\* Mutant of TryFails: the client is not closed when Subscribe fails.
TryFailsOpen ==
  /\ main = "connecting" /\ node <= N
  /\ client' = [client EXCEPT ![node] = "open"]
  /\ failed' = failed \cup {node}
  /\ node' = node + 1
  /\ UNCHANGED <<debug, main, signalled, endVars, flowVars>>

\* node.NewClient fails, or Subscribe does and the client is closed again.
TryFails ==
  /\ main = "connecting" /\ node <= N
  /\ \E c \in {"none", "closed"} : client' = [client EXCEPT ![node] = c]
  /\ failed' = failed \cup {node}
  /\ node' = node + 1
  /\ UNCHANGED <<debug, main, signalled, endVars, flowVars>>

\* The stream is open and the subscribe command sent; the goroutines start.
TrySucceeds ==
  /\ main = "connecting" /\ node <= N
  /\ client' = [client EXCEPT ![node] = "open"]
  /\ stream' = "open"
  /\ receiver' = "receiving"
  /\ consumer' = "taking"
  /\ main' = "selecting"
  /\ UNCHANGED <<debug, node, failed, signalled, endVars, sent, received, chan,
                 taken, outVars, hookVars>>

AllFailed ==
  /\ main = "connecting" /\ node > N
  /\ main' = "closing"
  /\ UNCHANGED <<debug, connectVars, signalled, endVars, flowVars>>

-----------------------------------------------------------------------------
(* The main goroutine: waiting and leaving.                                *)

\* The user's signal waits in sigChan until the select.
Interrupt ==
  /\ main # "exited" /\ ~signalled
  /\ signalled' = TRUE
  /\ UNCHANGED <<debug, main, connectVars, endVars, flowVars>>

\* Mutant of SelectSignal: main waits for the consumer before it cancels.
SignalWaits ==
  /\ main = "selecting" /\ signalled /\ consumer = "ended"
  /\ cancelled' = TRUE
  /\ main' = "summing"
  /\ UNCHANGED <<debug, connectVars, signalled, summary, fileOpen, flowVars>>

SelectSignal ==
  /\ main = "selecting" /\ signalled
  /\ cancelled' = TRUE
  /\ main' = "summing"
  /\ UNCHANGED <<debug, connectVars, signalled, summary, fileOpen, flowVars>>

SelectDone ==
  /\ main = "selecting" /\ consumer = "ended"
  /\ main' = "summing"
  /\ UNCHANGED <<debug, connectVars, signalled, endVars, flowVars>>

Summarise ==
  /\ main = "summing"
  /\ summary' = Len(shown)
  /\ main' = "closing"
  /\ UNCHANGED <<debug, connectVars, signalled, cancelled, fileOpen, flowVars>>

\* The deferred calls: nodeClient.Close, cancel, persistFile.Close.
CloseAll ==
  /\ main = "closing"
  /\ client' = [n \in Nodes |-> IF client[n] = "open" THEN "closed" ELSE client[n]]
  /\ cancelled' = TRUE
  /\ fileOpen' = FALSE
  /\ main' = "leaving"
  /\ UNCHANGED <<debug, node, failed, signalled, summary, flowVars>>

Exit ==
  /\ main = "leaving"
  /\ main' = "exited"
  /\ UNCHANGED <<debug, connectVars, signalled, endVars, flowVars>>

-----------------------------------------------------------------------------
(* The node and the receiver goroutine.                                    *)

NodeSends ==
  /\ main # "exited" /\ stream = "open" /\ Len(sent) < MaxMessages
  /\ \E m \in Message : sent' = Append(sent, m)
  /\ UNCHANGED <<mainVars, stream, recvVars, chan, consumerVars, outVars, hookVars>>

\* The node closes the stream, or the connection to it breaks.
StreamEnds ==
  /\ main # "exited" /\ stream = "open"
  /\ stream' \in {"eof", "error"}
  /\ UNCHANGED <<mainVars, sent, recvVars, chan, consumerVars, outVars, hookVars>>

\* stream.Recv returns a message.
Recv ==
  /\ main # "exited" /\ receiver = "receiving" /\ received < Len(sent)
  /\ received' = received + 1
  /\ receiver' = "holding"
  /\ UNCHANGED <<mainVars, streamVars, chan, consumerVars, outVars, hookVars>>

Forward ==
  /\ main # "exited" /\ receiver = "holding" /\ Len(chan) < BufSize
  /\ chan' = Append(chan, received)
  /\ receiver' = "receiving"
  /\ UNCHANGED <<mainVars, streamVars, received, consumerVars, outVars, hookVars>>

\* Mutants of Stop: the message in hand is dropped when the stream ends; the
\* receiver returns at EOF only, not at another error.
StopDropping ==
  /\ main # "exited"
  /\ receiver \in {"receiving", "holding"} /\ (stream # "open" \/ cancelled)
  /\ receiver' = "stopped"
  /\ UNCHANGED <<mainVars, streamVars, received, chan, consumerVars, outVars, hookVars>>

StopAtEof ==
  /\ main # "exited"
  /\ \/ receiver = "receiving" /\ stream = "eof" /\ received = Len(sent)
     \/ receiver \in {"receiving", "holding"} /\ cancelled
  /\ receiver' = "stopped"
  /\ UNCHANGED <<mainVars, streamVars, received, chan, consumerVars, outVars, hookVars>>

\* stream.Recv reports the end of the stream, or of the context; or the context
\* ends while the receiver waits for room.  The receiver closes the channel.
Stop ==
  /\ main # "exited"
  /\ \/ receiver = "receiving" /\ stream # "open" /\ received = Len(sent)
     \/ receiver \in {"receiving", "holding"} /\ cancelled
  /\ receiver' = "stopped"
  /\ UNCHANGED <<mainVars, streamVars, received, chan, consumerVars, outVars, hookVars>>

-----------------------------------------------------------------------------
(* The consumer goroutine.                                                 *)

\* It takes a message, filters it, and counts and prints it.
Consume ==
  /\ main # "exited" /\ consumer = "taking" /\ chan # << >>
  /\ taken' = Head(chan)
  /\ chan' = Tail(chan)
  /\ LET m == sent[Head(chan)] IN
       /\ shown' = IF Shows(m) THEN Append(shown, Head(chan)) ELSE shown
       /\ consumer' = IF Keeps(m) THEN "persisting" ELSE "taking"
  /\ UNCHANGED <<mainVars, streamVars, recvVars, persisted, dropped, hookVars>>

Persist ==
  /\ main # "exited" /\ consumer = "persisting" /\ fileOpen
  /\ persisted' = Append(persisted, taken)
  /\ consumer' = "queueing"
  /\ UNCHANGED <<mainVars, streamVars, recvVars, chan, taken, shown, dropped, hookVars>>

\* Mutant of PersistFails: the message is given up, not passed to the webhook.
PersistFailsSkips ==
  /\ main # "exited" /\ consumer = "persisting"
  /\ WriteFaults \/ ~fileOpen
  /\ consumer' = "taking"
  /\ UNCHANGED <<mainVars, streamVars, recvVars, chan, taken, outVars, hookVars>>

\* The write fails, or the file is closed already: only a line on stdout.
PersistFails ==
  /\ main # "exited" /\ consumer = "persisting"
  /\ WriteFaults \/ ~fileOpen
  /\ consumer' = "queueing"
  /\ UNCHANGED <<mainVars, streamVars, recvVars, chan, taken, outVars, hookVars>>

\* Mutant of Enqueue: the queue takes one message more than its size.
EnqueueBeyond ==
  /\ main # "exited" /\ consumer = "queueing"
  /\ queue' = IF Len(queue) <= QueueSize THEN Append(queue, taken) ELSE queue
  /\ dropped' = IF Len(queue) > QueueSize THEN dropped \cup {taken} ELSE dropped
  /\ consumer' = "taking"
  /\ UNCHANGED <<mainVars, streamVars, recvVars, chan, taken, shown, persisted, postVars>>

\* The message is put into the webhook queue if there is room, else dropped.
Enqueue ==
  /\ main # "exited" /\ consumer = "queueing"
  /\ queue' = IF Len(queue) < QueueSize THEN Append(queue, taken) ELSE queue
  /\ dropped' = IF QueueSize > 0 /\ Len(queue) >= QueueSize
                THEN dropped \cup {taken} ELSE dropped
  /\ consumer' = "taking"
  /\ UNCHANGED <<mainVars, streamVars, recvVars, chan, taken, shown, persisted, postVars>>

\* Mutant of ConsumerEnds: the consumer does not drain the closed channel.
EndsUndrained ==
  /\ main # "exited" /\ consumer = "taking" /\ receiver = "stopped"
  /\ consumer' = "ended"
  /\ UNCHANGED <<mainVars, streamVars, recvVars, chan, taken, outVars, hookVars>>

\* The channel is closed and drained; doneChan is closed.
ConsumerEnds ==
  /\ main # "exited" /\ consumer = "taking" /\ chan = << >> /\ receiver = "stopped"
  /\ consumer' = "ended"
  /\ UNCHANGED <<mainVars, streamVars, recvVars, chan, taken, outVars, hookVars>>

-----------------------------------------------------------------------------
(* The webhook dispatcher and the goroutines of the POSTs.                 *)

Dispatch ==
  /\ main # "exited" /\ queue # << >>
  /\ posting' = posting \cup {Head(queue)}
  /\ queue' = Tail(queue)
  /\ UNCHANGED <<mainVars, streamVars, recvVars, chan, consumerVars, outVars, posted, unposted>>

PostSucceeds(i) ==
  /\ main # "exited" /\ i \in posting
  /\ posting' = posting \ {i}
  /\ posted' = posted \cup {i}
  /\ UNCHANGED <<mainVars, streamVars, recvVars, chan, consumerVars, outVars, queue, unposted>>

\* The payload cannot be formatted, or the request fails or times out.
PostFails(i) ==
  /\ main # "exited" /\ i \in posting
  /\ posting' = posting \ {i}
  /\ unposted' = unposted \cup {i}
  /\ UNCHANGED <<mainVars, streamVars, recvVars, chan, consumerVars, outVars, queue, posted>>

-----------------------------------------------------------------------------

Main ==
  \/ TryFails \/ TrySucceeds \/ AllFailed
  \/ SelectSignal \/ SelectDone \/ Summarise \/ CloseAll \/ Exit
Receiver == Recv \/ Forward \/ Stop
Consumer == Consume \/ Persist \/ PersistFails \/ Enqueue \/ ConsumerEnds
Post == \E i \in posting : PostSucceeds(i) \/ PostFails(i)

Next ==
  \/ Main \/ Receiver \/ Consumer \/ Dispatch \/ Post
  \/ Interrupt \/ NodeSends \/ StreamEnds

Spec == Init /\ [][Next]_vars

\* The Go scheduler runs every goroutine that can run, a node answers or the
\* dial times out, and a POST ends within --webhook-timeout.  The user and the
\* node owe nothing.
Fairness ==
  WF_vars(Main) /\ WF_vars(Receiver) /\ WF_vars(Consumer) /\ WF_vars(Dispatch) /\ WF_vars(Post)

FairSpec == Spec /\ Fairness

-----------------------------------------------------------------------------
(* Properties.                                                             *)

\* The messages that have arrived, by position.
Position == 1..Len(sent)

MainType ==
  /\ debug \in BOOLEAN /\ signalled \in BOOLEAN /\ cancelled \in BOOLEAN
  /\ fileOpen \in BOOLEAN
  /\ main \in {"connecting", "selecting", "summing", "closing", "leaving", "exited"}
  /\ node \in 1..(N + 1) /\ failed \subseteq Nodes
  /\ client \in [Nodes -> {"none", "open", "closed"}]
  /\ summary \in Nat \cup {-1}

FlowType ==
  /\ sent \in Seq(Message) /\ stream \in {"none", "open", "eof", "error"}
  /\ receiver \in {"none", "receiving", "holding", "stopped"}
  /\ received \in Position \cup {0} /\ (receiver = "holding" => received # 0)
  /\ chan \in Seq(Position) /\ Len(chan) <= BufSize
  /\ consumer \in {"none", "taking", "persisting", "queueing", "ended"}
  /\ taken \in Position \cup {0} /\ (consumer \in {"persisting", "queueing"} => taken # 0)
  /\ shown \in Seq(Position) /\ persisted \in Seq(Position)

HookType ==
  /\ queue \in Seq(Position) /\ Len(queue) <= QueueSize
  /\ {posting, posted, unposted, dropped} \subseteq SUBSET Position

\* Types, and the capacities of the two buffered channels.
TypeOK == MainType /\ FlowType /\ HookType

\* Between the stream and the consumer nothing is lost, repeated or reordered:
\* the channel holds the messages that follow the last one taken, up to the one
\* in the receiver's hand.  Only a receiver stopped by cancel drops that one.
NoGap ==
  /\ \A j \in 1..Len(chan) : chan[j] = taken + j
  /\ LET ahead == received - (taken + Len(chan)) IN
       /\ receiver \in {"none", "receiving"} => ahead = 0
       /\ receiver = "holding" => ahead = 1
       /\ receiver = "stopped" => ahead = 0 \/ (ahead = 1 /\ cancelled)

Increasing(s) == \A j, k \in 1..Len(s) : j < k => s[j] < s[k]
In(i, s) == \E k \in 1..Len(s) : s[k] = i

\* What the user asks to see: the texts on the topic, with --debug everything
\* on the topic.
Wanted(m) == ~m.other /\ (debug \/ (m.readable /\ ~m.trace))

\* What is on the screen is, in order and once each, what the command line
\* asks to see of the messages taken so far: no trace unless --debug, no other
\* topic, no unreadable payload unless --debug.
ShownExactly ==
  /\ Increasing(shown)
  /\ \A i \in 1..Len(sent) : In(i, shown) <=> i <= taken /\ Wanted(sent[i])

\* The file follows the screen: its lines are readable messages that were
\* shown, in the same order and once each, and a message that was shown and is
\* not in the file is the one just being written, or a write has failed, or the
\* file was closed because the process is leaving.
FileFollowsScreen ==
  /\ Increasing(persisted)
  /\ \A i \in 1..Len(sent) :
       /\ In(i, persisted) => In(i, shown) /\ sent[i].readable
       /\ In(i, shown) /\ sent[i].readable =>
            \/ In(i, persisted)
            \/ i = taken /\ consumer = "persisting"
            \/ WriteFaults \/ ~fileOpen

\* Where message i is on its way to the webhook.
HookPlaces(i) ==
  {place \in {"queue", "posting", "posted", "unposted", "dropped"} :
     \/ place = "queue" /\ In(i, queue)
     \/ place = "posting" /\ i \in posting
     \/ place = "posted" /\ i \in posted
     \/ place = "unposted" /\ i \in unposted
     \/ place = "dropped" /\ i \in dropped}

\* The consumer is done with message i and has meant it for the webhook.
ForHook(i) ==
  /\ QueueSize > 0 /\ i <= taken /\ Wanted(sent[i]) /\ sent[i].readable
  /\ ~(i = taken /\ consumer \in {"persisting", "queueing"})

\* A message bound for the webhook is in one place and one only, from the moment
\* the consumer is done with it: waiting, being posted, posted once, given up,
\* or dropped because the queue was full.
WebhookConserved ==
  \A i \in 1..Len(sent) :
    IF ForHook(i) THEN \E place \in HookPlaces(i) : HookPlaces(i) = {place}
                  ELSE HookPlaces(i) = {}

\* A run that ends by itself has shown, kept and counted everything: if no
\* signal has come, main leaves the select only after the consumer has taken
\* every message the node sent before it ended the stream.
EndIsComplete ==
  main \notin {"connecting", "selecting"} /\ ~signalled /\ failed # Nodes =>
    /\ taken = Len(sent) /\ consumer = "ended"
    /\ summary \in {-1, Len(shown)}

\* At most one connection is open, to the first node that did not fail, and
\* none is when the process exits.
NoConnectionLeft ==
  /\ failed = 1..(node - 1)
  /\ \A n \in Nodes :
       client[n] = "open" <=> n = node /\ main \in {"selecting", "summing", "closing"}

\* SIGINT or SIGTERM ends the program, also one that comes while it is still
\* connecting or while the receiver waits for room in the channel.
InterruptEnds == signalled ~> main = "exited"

\* The end of the stream ends the program: no goroutine waits for another one.
StreamEndEnds == stream \in {"eof", "error"} ~> main = "exited"

-----------------------------------------------------------------------------
(* What makes the safety properties inductive.                             *)

\* How far the goroutines are, and what their end means.
Phases ==
  /\ main = "connecting" =>
       receiver = "none" /\ consumer = "none" /\ stream = "none"
  /\ main \in {"connecting", "selecting"} => summary = -1
  /\ cancelled => signalled \/ main \in {"leaving", "exited"}
  /\ receiver = "stopped" /\ ~cancelled => received = Len(sent) /\ stream # "open"
  /\ consumer = "ended" => receiver = "stopped" /\ chan = << >>

\* EndIsComplete, with what keeps it true.
Ended ==
  main \notin {"connecting", "selecting"} /\ ~signalled /\ failed # Nodes =>
    /\ taken = Len(sent) /\ consumer = "ended" /\ stream # "open"
    /\ summary \in {-1, Len(shown)}

\* What the consumer has in hand is for the file and the webhook, and is in the
\* file only after its turn; the queue is in the order of the stream.
InHand ==
  /\ consumer \in {"persisting", "queueing"} => Keeps(sent[taken])
  /\ consumer = "persisting" => ~In(taken, persisted)
  /\ Increasing(queue)

IInv ==
  /\ TypeOK /\ NoGap /\ ShownExactly /\ NoConnectionLeft /\ Phases /\ Ended
  /\ InHand /\ FileFollowsScreen /\ WebhookConserved
=============================================================================
