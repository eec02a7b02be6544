# A TLA+ development for mump2p-cli

`mump2p` is a command line client of a peer-to-peer message network. A user logs in, asks a
proxy for a *session* (a list of nodes with a ticket for each), and then publishes to, or
subscribes at, the nodes directly. Every command is a process of its own. What makes the program
more than a sequence of calls is what these processes share and what runs inside them: files under
`~/.mump2p` that several commands read and overwrite, one of them under a file lock and the others
under none; a client that falls back from node to node; and goroutines joined by bounded channels
that must neither lose messages nor wait for each other for ever.

The modules here model that part of the program, TLC checks them on small instances, and TLAPS
proves the safety properties for every instance. Paths are relative to the repository.

## 1. Inventory

| Component | State | Operations | Modelled |
| --- | --- | --- | --- |
| Session cache, `internal/session` | `session.json`, the flock on `session.lock`, the sessions at the proxy | `GetOrCreateSession`, `InvalidateSession`, `CreateSession` | `SessionTypes`, `SessionCache`, `SessionService` |
| Subscribe command, `cmd/subscribe.go` | connection, message channel, webhook queue, file, counter, signal | connect loop, consumer, webhook dispatcher, shutdown | `Subscribe`, from the session on |
| Node client, `internal/node` | gRPC connection, stream, receiver goroutine | `Subscribe`, `Publish`, `Close` | `Subscribe`; the outcomes of `Publish` in `Publish` |
| Publish command, `cmd/publish.go` | the verdict of the limiter, the node it tries | check, session, node loop, record | `Publish`, the authenticated path |
| Rate limiter, `internal/ratelimit`, `cmd/usages.go` | `<subject>_usage.json` and its copy in memory | load, reset, check, record, save, show | `Publish` |
| Authentication, `internal/auth`, `cmd/auth.go` | the token file | login with polling, load, refresh, save, remove | `Auth`; with the session cache in `Client` |
| Tracer dashboard, `cmd/tracer.go` | snapshot and status channels, backoff, table | stream of polls, publisher, resets, main loop | `Tracer` |
| Tracer load and reset, `cmd/tracer.go` | none | a loop of requests; one request | no |
| Update, `cmd/update.go` | the binary, its backup, temporary files | download, verify, back up, replace, restore | `Update` |
| Versions, `internal/version` | none | `Compare` | `Version` |
| Configuration, flags, list, health, templates, formatter, generated protocol code, scripts | none that changes, or one HTTP request | | no |

How they interact: `publish` and `subscribe` call `GetOrCreateSession` with the client id that
the token names, then use the nodes of the session in order; both may run any number of times at
once for one user. The client id is the claim `client_id`, the client that requested the token
(`internal/auth/models.go:44`), and the subject only where that claim is missing
(`internal/auth/token.go:69`), so that users may have one in common; the usage file goes by the
subject. `publish` brackets its work with two separate loads of the usage file. `logout`
removes the token and then the cached session, while other commands run. `usage` loads the
counters and by that may reset them. The node client's receiver goroutine feeds the consumer
goroutine of `subscribe` through a channel of 100 places; the consumer feeds a dispatcher through
the webhook queue, and the dispatcher starts one goroutine for each POST.

What is hard about it, and what correctness means for each part:

- **Session cache.** Check and use without the lock, a second check under it, a truncating
  overwrite that readers without the lock can see half done, logout in between, a proxy whose
  answer comes too late, processes killed at any point. Correct means: what is reused serves the
  request; a session is created under the lock only while the file has none that would do; the
  cache never goes back to an older session; no way out keeps the lock; every call returns.
- **Subscribe.** Five kinds of goroutines, two bounded channels, two ways to the end. Correct
  means: nothing lost, repeated or reordered between the stream and the screen; the file follows
  the screen; every message for the webhook is in exactly one place; a run that ends by itself is
  complete; a signal and the end of the stream both end it; no connection is left.
- **Publish and the limiter.** Counters loaded, checked, saved, loaded again and saved again
  without a lock, by commands that overlap; two windows with their boundaries. Correct means:
  exact counts and kept limits for commands that do not overlap; and when they do, no publish
  that never happened is counted, and a day without publishing admits again.
- **Authentication.** A token judged before and after a request that may take any time, tokens
  saved and removed without a lock by commands that overlap, a polling loop with two clocks.
  Correct means: no command goes on with a stored token that has expired; commands that do not
  overlap leave the token of the last login, and none after a logout; every slow_down slows the
  rest of the polling, which ends with the device code.
- **Login, logout and sessions.** Two files that belong together, without a common lock, and
  commands of one user that go on while another logs in. Correct means: no command uses the
  session of another client, and none takes one for new that another user's token has made; a
  logout leaves no session behind.
- **Tracer.** A stream, a publisher and resets that send to two bounded channels without giving
  up, one reader for both, a backoff that doubles up to its bound and falls back on success, a
  channel that may be closed and is then always ready. Correct means: snapshots reach the screen in
  order and none is lost; polls neither pile up nor come too fast; what is said of errors comes
  before the completion; a key or a signal ends it all, and nobody waits for ever.
- **Update.** A program that takes its own file away before it puts another one there, where every
  step may fail or be the last, and an order of versions made of text. Correct means: what is
  installed has been tried; a run without a failure leaves a program that runs, and one failure
  does not cost it; what is restored is what was there; the latest release is recognised as such.

## 2. The modules and the code

### SessionTypes, SessionCache, SessionService

`SessionTypes` is the pure part of `store.go`: `Matches`, `IsExpired`, `NeedsRefresh` and
`Serves` are `matches`, `isExpired`, `needsRefresh` and `isUsable`. A request keeps the five
arguments of `GetOrCreateSession`; a session keeps its request, its number of nodes and its two
dates. Session identifiers, tickets and addresses are left out. A date that does not parse counts
as past in the code; it is one that lies in the past here.

`SessionCache` runs `GetOrCreateSession` in any number of processes, one action for each step
between which another process can act:

| Action | Code in `internal/session` |
| --- | --- |
| `Call`, `FastHit`, `FastMiss` | the read without the lock, and its judgement, which happens later than the read |
| `Lock`, `LockFails`, `Unlock` | `acquireLock`, the branch that goes on without cache, the deferred `releaseLock` |
| `Reread`, `SlowHit`, `SlowMiss` | the second look under the lock |
| `ProxyGrants`, `ProxyRefuses`, `ReplyLost`, `ReplyArrives` | `CreateSession`: the session exists at the proxy before the answer arrives, and the answer may not arrive |
| `Truncate`, `Write`, `SaveFails` | `saveCached`: `os.WriteFile` empties the file before it fills it; either step may fail |
| `Exit`, `Crash` | the end of the process, with the kernel dropping its flock |
| `InvalidateSession` | `mump2p logout`, without the lock |

The file is `Absent`, `Torn` (it does not parse) or `Holding(i)`, where `i` is the place of the
session among those the proxy has created. A write after logout has removed the file goes to an
inode without a name. `Fault` selects which of the failures an instance has.

`SessionService` is what a caller may expect of all this, without file, lock or steps: a call
waits, at most one session is opened for it, and it is given that session, or an earlier one that
serves its request at that moment, or an error. `SessionCache` implements it under the mapping at
`Service`; `ServiceSpec` is checked by TLC and proved.

### Subscribe

One run of the command, from the session to the exit. `main` is the main goroutine (the connect
loop, the select, the closing line, the deferred calls in one step, the exit); `receiver` is the
goroutine of `node.Client.Subscribe`; `consumer` is the goroutine that filters, prints, persists
and enqueues; the dispatcher and the POST goroutines are `queue`, `posting`, `posted` and
`unposted`. A message is its position among those that have arrived on the stream, and of its
content only what the consumer asks is kept: is it a trace, does it name another topic, is it
readable. Which of these a message has is arbitrary, and so is the moment at which the node sends,
ends or breaks the stream and at which the user interrupts.

When the process exits, every goroutine stops where it is; that is why all actions of the other
goroutines require `main # "exited"`. The consumer may go on between the closing of the file and
the exit, and its write then fails (`PersistFails`). `--persist` is always given. `QueueSize = 0`
stands for no webhook, or a queue of size 0, with which the code does the same: no queue.

### Publish

A publish command with authentication around `internal/ratelimit`, and the usage command. Each
load of the counters is one step, `checkAndResetCounters` another (`Reset`, `NoReset`), which
`CheckPublishAllowed` and `GetUsageStats` repeat because the day may have ended since the load
(`Checks`, `Onward`). The per-second count and its save come before the other limits as in `CheckPublishAllowed`, and a save is `Truncate` and
`Write`. Overlapping saves may leave the end of a longer content behind a shorter one
(`Garbled`), which, like a missing or empty file, makes the next load start from zero. The
session is the business of `SessionCache`; here it is there or not (`GiveUp`). A node that fails
may have taken the message (`NodeFails`); whether it did is not visible to the command.

Two kinds of state are there for the properties only: the histories `admitted` and `records`
with the moment `began`, and the field `since` of the counters, which says how many publishes had
been recorded at their last reset. No guard reads them.

### Auth

The token file and every command that touches it: `use` is `GetValidToken`, which `publish`,
`subscribe`, `list`, `usage` and the tracer call first; `refresh`, `login` and `logout` are the
commands of that name. A process is gone with its memory when its command is over (`Finish`), and
another one may start in its place. `Load` reads the file; `Accept` and `Expired` are the test at
the end of `LoadToken`, `Fresh`, `Refresh` and `SkipRefresh` the one with the buffer of five
minutes, `Fallback` the last one, and the clock may advance between them. `Refreshed` is an answer
of the authority, with or without a new refresh token. A login is `RequestDeviceCode` and then
the loop of `pollForToken`: `Sleep`, `RequestToken` and one of the answers. After `SlowDown` the
interval is one second longer, which is what the code adds; `polls` counts these answers beside
the requests, so that the property says what they come to over the whole login. A save is `Truncate`
and `Write` as for the counters; an empty file parses as a token that expired long ago, so it is
as good as none. A logout between the two leaves the writer with a file that has no name
(`orphaned`). Whose token it is only the field `login` says, which is for the properties, as are
`logins`, `current`, `overlapped` and `polls`.

### Version, Update

`Version` has `Compare` and `CompareSuffixes`. A version is a base of three numbers and a suffix
of a name and a number, the form of the tags that the Makefile makes; the code has the base as
text, so `Text` writes it out, digit by digit, for the comparison. `Precedes` is the order
semantic versions have, against which the runs hold it.

`Update` is one run of the command after the other. A file is absent, or a program with its
version, whether the whole file is there and whether it may be executed. The actions follow
`RunE`: `Fetch`, `UpToDate` or `Outdated`, `Download`, `Verify` or `Reject`, then `replaceBinary`
with `OpenBackup` and `Backup`, `Remove`, `Create` and `Copy` (the two halves of `copyFile`, twice),
`Chmod` and `Cleanup` or `Restore`, and `Check`. Next to each stands what its failure does. The current version is the
one built into the running program (`before`); a program whose build was given none (`stamped` is
false) is always replaced. The next run is one of the program the last run has left, and there is none
if that cannot be executed.

### Client

`Client` puts login and logout beside the session cache: it extends `SessionCache`, whose
processes now ask with a token they have loaded (`LoadToken`), or with the client id of the
command line (`SkipAuth`, for `--disable-auth`), and then call (`CallAs`); the rest of
`GetOrCreateSession` is `StepOn`. A token is a user and a client id, and two users may have the
same; the cache compares client ids only (`matches`). How a token is granted and saved is `Auth`.
`Login` replaces the token and leaves the cache alone, as `loginCmd` does; `logoutCmd`
is `RemoveToken` and then `LogoutInvalidates`, and a process that is killed between the two
(`LogoutKilled`) leaves the session behind, and another logout cannot help, because its `RemoveToken`
fails. `made` remembers of each session the token it was created with; with `era` and `late`,
which count logouts, it is there for the properties only.

### Tracer

The dashboard of `cmd/tracer.go`. `stream` is where the goroutine of `streamSnapshots` is; each
place before which it may have to wait (for the ticker, an answer, the end of a pause, room in a
channel) is one of its own, so that the others can act there. `publisher` is the goroutine of auto-publish,
`resets` has one entry for each goroutine that `r` has started, and the main loop is its select,
one action for each case. A send to the status channel (`Say`) waits for room and does not watch
the context, as in the code; the send of a snapshot does (`Offer`, `StreamEnds`). Of a poll the
module keeps when it was made, how it came out and the delays of the messages it brought, because
the table is sorted by them; `Rows` is every order that `sort.Slice`, which is not stable, may
leave, cut to the rows of the table. Of a status text it keeps the kind, and which publish an
error is about. Time is in intervals of the ticker, which drops a tick when one is waiting. A
service URL that does not parse is one of the initial states: then no poll is made, every publish
fails, and a reset crashes the program (`ResetPanics`), because `resetStats` ignores the error
of `http.NewRequestWithContext`. `told` remembers what has been in the status line, for the
properties; drawing the screen is left out.

### Recursion

`Recursion` models nothing. It has the lemmas on recursive functions of the naturals that three of
the proofs need; section 5 says how they come about.

### Mutants

Next to some actions stands a variant with a comment *Mutant of ...*: the action with a plausible
mistake in it, a guard dropped or a step in the wrong order. No specification uses them. Each
property is checked against the system with one of them put in its place and has to fail there;
`PROJECT.json` says which.

## 3. The runs

`tlc -config <cfg> <module>`; seconds are for two workers on a small machine.

| Run (cfg) | Distinct states | What it shows |
| --- | --- | --- |
| `session_cache` (`MCSessionCache.cfg`) | 1.28 million, 45 s | `TypeOK`, `LockDiscipline`, `CreatesOnlyWhenUnusable`, `InstallsNewer`, `NoSpareSession` and the refinement `ServiceSpec`, with every fault |
| `client` (`MCClient.cfg`) | 1.23 million, 126 s | login and logout around the cache, with every fault but that of the lock: `OwnClientSession`, `LogoutForgets`, and under fairness `EveryCallReturns` |
| `session_short_reply` (`MCSessionShortReply.cfg`) | violation | `NoTwinSession` fails: finding 1 |
| `subscribe` (`MCSubscribe.cfg`) | 177 thousand, 15 s | `TypeOK`, `NoGap`, `ShownExactly`, `FileFollowsScreen`, `WebhookConserved`, `EndIsComplete`, `NoConnectionLeft`, and under fairness `InterruptEnds` and `StreamEndEnds` |
| `publish` (`MCPublish.cfg`) | 0.9 million, 6 s | commands one after the other: `CountsExactly`, `QuotaKept`, `RateKept` |
| `publish_overlap` (`MCPublishOverlap.cfg`) | 3.2 million, 38 s | commands that overlap, failing saves, crashes: `TypeOK`, `NeverOvercounts`, `QuietDayAdmits` |
| `publish_hour` (`MCPublishHour.cfg`) | violation | `HourlyRefusalJustified` fails: finding 2 |
| `auth` (`MCAuth.cfg`) | 2.67 million, 42 s | `TypeOK`, `GivenIsValid`, `AloneStoredIsCurrent`, `PollingSlowsDown`, with failing saves and crashes |
| `auth_logout` (`MCAuthLogout.cfg`) | violation | `LogoutHolds` fails: finding 3 |
| `update` (`MCUpdate.cfg`) | 422 thousand, 4 s | `TypeOK`, `SurvivesOneFailure`, `NeverAnEarlierOne`, `NewerOnly`, with failing steps and kills |
| `tracer` (`MCTracer.cfg`) | 3.2 million, 35 s | `TypeOK`, `SnapshotsInOrder`, `RetriesBackOff`, `PollsPaced`, `ErrorsBeforeCompletion`, `TableIsLatest` |
| `tracer_live` (`MCTracerLive.cfg`) | 52 thousand, 37 s | under fairness `QuitEnds` and `SendersGoOn` |

Every action of every specification is taken in a passing run. Deadlock is not an error in any of
them: calls, messages and time are bounded, and a command that is over does nothing more.

**Bounds.** `MaxCalls` and `MaxTime` bound the calls and the clock, `MaxMessages` the messages of
the node. Three processes are what it takes for one to hold the lock, one to wait for it and one
to read without it while a fourth party, logout, removes the file. Their three requests differ
in capability and in the number of nodes wanted, and the two answers are one that lasts and
suffices and one whose dates pass within the run, so that a cached session can be usable,
unsuitable and stale in one behaviour. The theorems of section 5 remove the bounds for these
properties. In `subscribe` the two channels have one place, so that two messages fill and
overflow each of them, and two nodes suffice for a failed one before the one in use; four kinds
of messages distinguish all the tests of the consumer. In `publish`
the limits are two publishes in a second and in a day and three bytes, with sizes 1 to 3, so that
four commands pass, meet and exceed each of them, and a day of two time units ends within the
four of the run. In `publish_overlap` two commands are at work at a time and three in all, so that
a third one finds what the overlap of two has left. In `auth` three commands, two at a time, start
with a stored token or without: enough for a login, a refresh and a logout in a row and for each
pair to overlap; one kind of token lasts longer than the buffer and can be refreshed and the other
is within the buffer from the start and cannot, and a device code leaves time for several requests
before its end and one after it, and after a slow_down for one more: that a second and a third
slow_down add up is left to the theorem. In `update` two runs are what it takes for one to find the backup of
the other; three failures in a run are those of the backup, of the copy and of the restoration;
the five releases differ in base, name and number of the suffix, and rc9 and rc10 in the number
of digits. In `client` two users and two logins are what it takes for one to find what the other
has left, and two processes for one that started before a logout and one that started after it, or
one that waits for the lock of the other; the users have one client id in common, and the command
without a token is for another. A failing lock is left to `session_cache`: such a call waits for
nobody. In
`tracer` both channels have one place, so that every sender has to wait; three polls are two
failures in a row, the second of which meets the longest pause, and one more; two publishes can
both fail before the completion; the table has two rows for three messages, one of them
unsettled and one with a negative delay. Two resets, of which the second is asked for too soon or
not, compete with the publisher and the stream in `tracer_live`.

**Fairness.** `SessionCache` assumes that a process which can take a step of
`GetOrCreateSession` takes one (a request is answered or ended by the ten-second timeout of the
HTTP client in `client.go`), and strong fairness of `Lock`, because `flock` serves its waiters
in turn. `Subscribe` assumes weak fairness of each goroutine, which the Go scheduler
gives, of the connect loop, where a dial or a subscription either succeeds or fails, and of the POSTs, which
end with `--webhook-timeout`. In `Tracer` the cases of the main loop are weakly fair, because a
`select` chooses at random among those that are ready, so that the closed channel cannot
starve the others; the goroutines are strongly fair, because those that wait to send on a channel
are served in turn, and their requests end (`Timeout: 10 * time.Second`). Nothing is assumed of
the user, the node, the clock (but for the ticker of `Tracer`), login, logout or any
failure. `Publish` and `Auth` state no liveness: the requests to the authority have no timeout in
the code, so that nothing makes a login or a refresh end.

## 4. Findings

1. **A short session is created again and again** (`session_short_reply`). `isUsable` refuses a
   cached session that has fewer nodes than `--expose-amount`, also when this is all the proxy had
   to give to the same request. Of two processes with one and the same request the second waits
   for the lock, finds the fresh session of the first, and creates another. The comment at
   `internal/session/store.go:158` says that the lock is there to prevent this.
2. **The hourly limit is a daily one** (`publish_hour`). `MaxPublishPerHour`, "Max publish
   operations per hour" in `internal/auth/models.go:41`, is compared with a count that is reset
   after 24 hours.
3. **A refresh undoes a logout** (`auth_logout`). `GetValidToken` and the refresh command save the
   refreshed token without looking at the file again. If a logout, or a login of another user,
   came in between, the old login is back. `src/cmd/auth.go:63` and `docs/guide.md:112` say that
   logout removes the stored token.

Others that the modules make visible and no run is spent on:

- The comment at `internal/auth/client.go:244` speaks of refreshing an expired token, but
  `LoadToken` has rejected it before (`Expired`); only the last five minutes before expiry lead to
  a refresh. If the authority sends no new refresh token, the stored one is lost (`Refreshed`).
- A logout that is killed after the token is removed cannot be repeated: `RemoveToken` fails for
  want of a file, and the session stays (`LogoutKilled`).
- `docs/guide.md:156` describes a failover when a node fails; it exists while connecting, but a
  stream that breaks later ends the run (`SelectDone`), and the backups are never used. The list
  of backups (`cmd/subscribe.go:224`) is every node but the connected one, those included that
  have just failed; the output shown in `README.md:87-94` has the untried node only.
- Users whose tokens name the same client id share the cached session, and with it the tickets
  that were made out to one of them, until somebody logs out (`OwnClientSession` says of a session
  that is reused only that the client id is the same).
- The polling of a login adds one second for each slow_down answer (`SlowDown`) and does not pause
  at all when the authority names no interval; RFC 8628, section 3.5, asks for five seconds in both
  cases. No line of this repository says otherwise than the code, and `PollingSlowsDown` says what
  the code does.
- `QuotaKept` holds for commands one after the other only: two that overlap both pass the check
  before either is recorded, so that quota and hourly limit can be exceeded, each time by what is
  under way.
- `Compare` orders the bases of versions as text (`internal/version/version.go:34`), so that
  0.0.10 is before 0.0.9 and the update command would say "already on the latest version"; the
  comment above it says that this could be improved. It orders well what has equally many digits
  at each place (`OnlyNewerAsLong`), as the releases of `MCUpdate` have.
- An update that fails after the removal restores a copy that cannot be executed (`Restore`:
  `copyFile` creates files without the execute bit, and nothing sets it again), and one that is
  killed before the end of the copy leaves no program at all. Nothing in the Makefile or the
  workflows sets `config.Version`, although the comment at `internal/config/config.go:15` says
  that it is injected at build time: a program built that way has no version and updates itself
  every time.
- The dashboard says "Stream ended. Waiting for reconnect…" (`cmd/tracer.go:565`), but the
  stream ends for good only, nothing reconnects, and the loop spins on the closed channel and
  overwrites the text that says why (`StreamClosed`). With a service URL that does not parse, `r`
  crashes the program (`ResetPanics`). "Completed: N messages sent" counts those that failed
  (`PubCompletes`), and a text of the status channel may be overwritten before it is drawn.

## 5. What is proved

### The session cache

`SessionCacheProofs` (`tlapm SessionCacheProofs.tla`) proves, for every set of processes, requests,
replies and faults and without any bound on calls, sessions or time:

| Theorem | States |
| --- | --- |
| `TypeCorrect` | `Spec => []TypeOK`: what a file, a memory or a result refers to is a session that was created |
| `LockIsHeldAndReleased` | `Spec => []LockDiscipline`: mutual exclusion, and no way out keeps the lock |
| `CreationIsJustified` | `Spec => []CreatesOnlyWhenUnusable` |
| `CacheNeverGoesBack` | `Spec => []InstallsNewer` |
| `LockSparesSessions` | `Spec => []NoSpareSession` |
| `ImplementsService` | `Spec => ServiceSpec`, the refinement |

The assumptions are those declared with the constants: requests have a natural number as amount,
replies name at least one node (`CreateSession` turns any other into an error) and have integer
dates, and the value that stands for no process is not a process.

The properties are not inductive alone; `IInv` at the end of `SessionCache` is, with three parts
that no one asked for. `CallState` ties what a call holds to how far it is: without it a process
might write a session it does not have. `RecheckCurrent` says that what was read under the lock
is still in the file unless logout removed it: this carries the check over to the moment of the
request, and it holds because only the holder of the lock writes (`FileStep`), which is
`LockDiscipline`. From then on a file that does not serve the request keeps not serving it,
because no step of another process puts a new session there and because time only makes sessions
worse (`ServesOnlyEarlier`, `UnusableStays`). `PendingNewer` is `InstallsNewer` from the moment
the proxy has created the session: the new one is the last of `sessions`, so it is younger than
whatever the file has. One lemma for each part (`TypeStep`, `CallStep`, `LockStep`,
`RecheckStep`, `CreateStep`, `PendingStep`) goes through the actions that can disturb it;
`IInvHolds` puts them together. For the refinement, `ServiceStep` maps each action to one of
`SessionService` or to a stutter: `Call` to `Ask`, the two hits to `Reuse`, `ProxyGrants` to
`Open`, `ReplyArrives` to `Deliver`, the failures to `Fail`, `Exit` and `Crash` to `Leave`.

`NoSpareSession` is what the lock is for. It speaks of the behaviours so far in which at most the
proxy has refused: without a lock, after a failed save or a logout, with a lost answer or a process
killed before it has saved, the newest session is not where the next process looks for it. The
variable `spoilt` remembers that one of these has happened and is there for this property only.
Its invariant, as long as `spoilt` is false, is `NewestCached`: the newest session is in the
file or in the hands of a process that holds the lock and is about to put it there; so a
process that comes to the request under the lock has compared that very session with its own
request (`NewestStep`, `NewestSuffices`). Finding 1 is no exception: there the newest session does not
serve by `isUsable`, and it is that judgement which the finding is about.

### Subscribe

`SubscribeProofs` proves, for every number of nodes, every messages and every capacity of the two
channels:

| Theorem | States |
| --- | --- |
| `TypeCorrect` | `Spec => []TypeOK`, with the capacities of both channels |
| `ChannelIsAWindow` | `Spec => []NoGap` |
| `ScreenIsFaithful` | `Spec => []ShownExactly` |
| `NothingLeftAtTheEnd` | `Spec => []EndIsComplete` |
| `FileIsFaithful` | `Spec => []FileFollowsScreen` |
| `WebhookKeepsCount` | `Spec => []WebhookConserved` |
| `ConnectionsClosed` | `Spec => []NoConnectionLeft` |

It assumes at least one node, a message channel with room for at least one message, and a webhook queue of any size. The
inductive invariant `IInv` at the end of `Subscribe` joins these properties with `Phases`,
`Ended` and `InHand`. `NoGap` is what the others rest on: because the channel holds exactly the positions after
`taken`, the message at its head is the next one, so that the screen grows in order
(`ShownStep`), and a drained channel behind a receiver that has stopped means that everything was
taken (`EndStep`). For the latter `Phases` says what the end of a goroutine implies: a receiver
that stops without cancel has reached the end of the stream, and a consumer ends only on a
drained channel behind it. The last two properties say where each message is that was shown: in
the file or given up, and with a webhook in exactly one of the queue, the POSTs under way, those
that ended either way, and the dropped ones. A message changes its place in one step, so that what has to be carried along is the one
between two steps of the consumer. `InHand` says of it that it passed the filter and
is not in the file before it was persisted, and that the queue is in the order of arrival, so that the
dispatcher takes each message once.

### Publish

`PublishProofs` proves, for any limits, windows, sizes, numbers of processes and nodes, and any
faults:

| Theorem | States |
| --- | --- |
| `TypeCorrect` | `Spec => []TypeOK` |
| `NothingInvented` | `Spec => []NeverOvercounts` |
| `QuietDayLiftsRefusal` | `Spec => []QuietDayAdmits` |
| `AloneCountsExactly` | without failing saves and crashes, `Spec /\ []Alone => []CountsExactly` |
| `AloneKeepsQuota` | likewise `[]QuotaKept` |
| `AloneKeepsRate` | likewise `[]RateKept` |

The assumptions are that limits and sizes are natural numbers and the windows positive. `IInv` at
the end of `Publish` adds what makes them inductive, about every copy of the counters, on disk or
in memory: `CountersSound` (they were reset in the past, they have bytes only with a publish, and
every publish they count was recorded after their reset), `CheckedFresh` (the limits see counters
that were reset at most a day before the command began, because `Reset` and `NoReset` stand
between the load and the check) and `CommandState` (what a command has in memory where it is).
From these a refusal by the hourly limit or by the quota means a count that is not zero, hence a
publish recorded after a reset of at most a day ago (`RefusalStep`). `CountersStep` shows that
each step gives only counters that were there before, or one of the three changes of
them, which is why overlapping saves invent nothing.

The last three are about commands of which no two are under way at the same time (`Alone`), as many
processes as there may be and whatever the nodes do. They need the other two assumptions, because a save that fails, or that
a crash cuts off, loses a publish that was made. `AloneInv` is the
invariant: the counters in memory, and in the file but for the moments of a save, are `Exact`,
which is number and bytes of what was recorded since the reset, and `Rated`, which says that the
last `secondCount` admissions, and only they, are in the second they count. `FileCurrent` ties the
file to the memory of the one command, so that its second load finds what its first one left, or
later counters that were reset; and `Room` carries the check of the limits to the moment of
the record, in another load. That the bytes grow by the size of the message with each record
(`BytesAfter`, a recursive function on the records) is proved with `Recursion`.

### Authentication

`AuthProofs` proves, for any tokens, device codes, numbers of commands and faults:

| Theorem | States |
| --- | --- |
| `TypeCorrect` | `Spec => []TypeOK` |
| `GivenTokenIsValid` | `Spec => GivenIsValid`, an action property |
| `StoredTokenIsCurrent` | `Spec => []AloneStoredIsCurrent` |
| `SlowDownLasts` | `Spec => []PollingSlowsDown` |

It assumes that the lives of tokens and device codes and the intervals are natural numbers.
`GivenIsValid` needs no more than the types: whatever `Fresh` and `Fallback` let through has been
compared with the clock in that step. The other two have invariants of their own at the end of
`Auth`. `Alone` says what a command works with while no other has overlapped it: it is the only
one at work, so that the token it has loaded stays the one of the last login until it saves its
own. `Paced` says that the interval in the loop is that of the device code and a second for each
slow_down answer so far, and that a sleeper has found the device code valid and wakes late enough.

### Update

`UpdateProofs` proves, for any set of versions and any number of runs and failing steps:

| Theorem | States |
| --- | --- |
| `TypeCorrect` | `Spec => []TypeOK` |
| `OneFailureIsSurvived` | `Spec => []SurvivesOneFailure` |
| `EarlierProgramStaysGone` | `Spec => []NeverAnEarlierOne` |
| `OnlyNewerReplaces` | `ComparesWell => (Spec => []NewerOnly)` |
| `OnlyNewerAsLong` | `Spec => []NewerOnly`, for releases whose majors, minors and patches have equally many digits each |
| `CompareIsAnOrder` | `Compare` is a strict total order of all versions |

The first three rest on `Progress` at the end of `Update`: what the three files hold at each step
of `replaceBinary`, and how much of the backup the failed steps so far have cost; with one
failure the backup is either what it should be or gone, and never an older one. `NewerOnly` depends on the
comparison; `ComparesWell` says that `Compare` orders the versions at hand as semantic versions
are, which it does not do for all of them (section 4). `OnlyNewerReplaces` proves
that the command acts on the comparison alone, and that it is still true when it is used.

The other two say how far the comparison can be trusted. `ComparesAsLong` is that it is the order of
semantic versions as long as corresponding numbers have equally many digits, as in `MCUpdate`:
`Digits` is proved to give as many digits as its argument has (`DigitsGrow`) and, among numbers
that have equally many, to keep the order (`DigitsOrder`), and texts that begin with equal parts
differ as their remainders do (`Joined`). Beyond that it is still an order, only another one: texts are ordered
strictly and totally (`BeforeTransitive`, `BeforeTotal`), and `Text` can be read back
(`TextIsFaithful`, because no digit is a dot: `SplitAtDot`), so that different versions are never taken for equal ones. A wrong
comparison may keep a newer release away, therefore, but no two releases replace each other in
turn.

### The tracer

`TracerProofs` proves, for every capacity of the channels, number of rows, messages and resets,
every pause and every content of the snapshots:

| Theorem | States |
| --- | --- |
| `TypeCorrect` | `Spec => []TypeOK`, with the capacities of both channels |
| `SnapshotsStayInOrder` | `Spec => []SnapshotsInOrder` |
| `PollsStayPaced` | `Spec => []PollsPaced` |
| `ErrorsComeFirst` | `Spec => []ErrorsBeforeCompletion` |
| `TableFollows` | `Spec => []TableIsLatest` |
| `RetriesStayPolite` | `Spec => []RetriesBackOff` |

It assumes channels and a table with room for one at least, a first pause of at least one
interval that is not longer than the longest, and sequences of integers as contents. `IInv` at the
end of `Tracer` joins the properties with four parts. `StreamKnows`: where the stream is tells how its last
poll came out, so that only a snapshot not yet sent is offered. `TicksLeft`: between any poll and
now there have been as many ticks as polls since, less one, and a tick that waits or that was
taken for the next poll is one more; this is what `PollsPaced` needs when the next poll is made.
`ErrorsOnTheirWay`: a publish error has been in the status line, or is in the channel, or about to
be sent, and none is behind the completion. `TriesFirst` counts: a failure is of a message that was
tried. A snapshot that the main loop takes goes from the head of the channel to the end of those shown, which is
the same place on the way (`WayKept`), and the stream puts one behind all others (`WayLonger`). For
the table, `RowsAre` shows that any order `Rows` allows has the slowest messages on top.

`RetriesBackOff` has an invariant of its own, `BackoffInv`, checked in the same way. Its part
`PausesFit` says for every place of the stream which pause `backoff` is: the one for the next
failure, or, between a failure and the end of its pause, the one for that failure, with enough time passed
when the pause is over. The pause of a failure is a power of two of the failures in a row before
it (`Streak`), cut at the longest one. `StreakIs` shows that there is exactly one such number for
each history, `StreakGrows` and `StreakSame` how it changes with a failure and not with what is
appended later, and `PauseSteps` that the doubling of the code, which stops at the bound, stays
equal to the power that is cut.

### Login, logout and the cache

`ClientProofs` proves, for any tokens, users, client ids, processes, requests and faults and any number of logins and
logouts:

| Theorem | States |
| --- | --- |
| `CacheUnchanged` | `ClientSpec => Spec`: the cache behaves as `SessionCache` says |
| `SessionIsTheClients` | `ClientSpec => []OwnClientSession` |
| `LogoutLeavesNothing` | `ClientSpec => []LogoutForgets` |

It adds the assumption that the value for having no token is not one to ask with. Each step of
`Client` is a step of `SessionCache` or leaves its variables alone (`CacheSteps`), so that the
theorems above carry over and `TypeOK` and `CallState` can be used here. `Origins` says that the
client id a session was created for is that of the token it was created with. `Owned` says that a
call is made for the client id its process has loaded, that the session it holds is one for that
client id, and that one it has created was created with its token; it is preserved because a hit
compares the client ids and the proxy copies that of the request. A token that `Login` replaces meanwhile does
not matter, as a command loads it once. `Eras` says that a session
between the answer of the proxy and the file was made in the era of its process; only `Write`
fills the file, so that what it holds without `late` is of the current one.

### Recursive functions

`BytesAfter`, `Doublings` and `Digits` rest on recursive functions, which TLA+ defines by a
`CHOOSE`; that they satisfy their equations has to be proved, and the induction theorems of the
library, whose parameter is an operator, cannot be used. `Recursion` does without them. `Least`,
that a set of naturals that is not empty has a least element, follows from the library's theorem
on well-founded relations, and `Induction` from `Least`, both about sets in place of predicates.
`PrimitiveRecursion` and `CourseOfValues` then show that a step, which is a function and not an
operator, determines a function on the naturals: the former joins its initial segments, and the
latter, where a value may depend on all smaller ones as in `Digits`, iterates on whole functions.

### Only model-checked

Liveness, which is out of the prover's reach: `EveryCallReturns`, `InterruptEnds`,
`StreamEndEnds`, `QuitEnds` and `SendersGoOn`. Every other property of a passing run is stated by
a theorem; those that are not about every behaviour are `NoSpareSession` (until more than
a refusal goes wrong), `CountsExactly`, `QuotaKept` and `RateKept`
(commands that do not overlap), `AloneStoredIsCurrent` and `SurvivesOneFailure` (which say so
themselves) and `NewerOnly` (versions that are compared well).

## 6. What is not modelled

Of the modelled commands: argument checks, debug output, wording. The composition of login and
logout with the session cache (`Client`) knows of a token only its user and client id; its expiry and refresh
are in `Auth` alone. Parsing the claims of a token and `whoami` change nothing and are left out. Publishing without authentication has no limiter and is the node loop alone. Two updates
at the same time are not modelled, nor suffixes of another form than the tags have. Of
the proxy and the nodes only what the client sees. Clocks of several machines: the limiter and the cache
use the one local clock, which does not go back here. Partial content of `session.json` and of the
usage file is one kind of content, because every content that does not parse is treated alike.

Of the dashboard the widgets other than table and status line, which show fields of the newest
snapshot, and drawing and resizing are left out. The subscription that the publisher makes first is
left out because its failure is ignored.

Not modelled at all: `tracer load` and `tracer reset` (requests whose failures nobody acts on),
static configuration and flags, the webhook template (a pure function, whose
failure is a case of `PostFails`), the formatter, `list`, `health` and `version` (one request and
its output), generated code, and the installation scripts.

## 7. Plan

1. **Proofs.** How far limits can be exceeded by commands that overlap: each of those under way has
   passed the check, so that quota and hourly limit are exceeded by no more than these. It needs
   counters that no overlapping save has lost, and so is about the check alone.
2. **Publish without authentication**, and the nodes' side of a publish, for what a late answer
   and a second node mean for the number of deliveries.
