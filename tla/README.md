# Verification of host-net-monitor

TLA+ models of host-net-monitor, their TLC runs, and theorems about them that
TLAPS checks. Paths below are relative to `src/`, the repository. Every
definition that models code is listed in `PROJECT.json` with the lines it
stands for; this file explains how the parts fit together.

To check a module: `tlc -workers 2 -config X.cfg M`; to check proofs: `tlapm M.tla`.

## 1. The system

### Components

**Flow accounting** (`src/flow.rs`). State: the local addresses, the set of flows
of the open window (at most `max_flows`), a bucket (count, bytes) per remote
endpoint. Operations: `observe`, `replace_local`, `flush`, and the pure
`aggregate_by_ip`. Correct when a bucket's count is the number of distinct flows
of its endpoint, a held flow is accounted completely, a flush reports the window
and leaves nothing behind, and the per-address roll-up counts no flow twice.

**Capture thread** (`capture_loop`, `Windows` in `src/runtime.rs`). State: the
window (label and deadline), the times of the next refresh and report, counters.
It alone sends on the event queue: boundaries and addresses with `send`, which
waits for room, packets with `try_send`, which does not. Correct when no packet
passes a boundary, boundaries are never lost, labels are aligned and increase,
every lost packet is counted, and a stop ends the thread.

**Main thread** (`run`, `aggregate_loop`, `submit` in `src/runtime.rs`). State: the
`Aggregator`, the batch it submits, the result. It takes events, flushes on a
boundary, submits with `try_send`, and ends the run: set stop, drop the receiver
of the events, drop the sender of the outputs, join both threads, return the
first error in the order output, aggregation, capture.

**Writer thread** (`run` in `src/runtime.rs`, `src/output.rs`). Takes a window,
looks all its addresses up, appends the window to the endpoint log and then its
roll-up to the per-IP log; opens each file anew for each append. Correct when the
logs are a prefix of what a sequential program would write, cut inside a window
only when the returned error says so.

**Log files over time** (`src/output.rs` with the service unit and the logrotate
configuration in `packaging/`). The two files survive the process; writes are cut
by kills and by full disks; files are renamed under an open handle.

**Reputation updater** (`tools/reputation/update.py`). Per feed a cache of two
files (`state.json`, `snapshot.txt`) and a download with retries and conditional
requests; per output a lock and four published files. Correct when the evidence
of a build is what the server confirmed, a failure falls back on the cache,
sudden changes of size are held back, and the published pair of database and
manifest fits. Between the two stands the merge of all networks into ranges
(`merge_networks`), correct when each address gets exactly the evidence of the
networks that hold it.

**Map server** (`map-server/AttackMapServer.py`). State: the Redis stream, the
broadcaster's set of WebSocket clients behind a lock, one thread per request and
one per connection; in the page, what it shows. A POST stores its lines one by
one, reads the newest entries back, aggregates them and sends the result to every
client; a GET gives the same aggregate; each replaces what the page shows.
Correct when what a request stored is a beginning of its body, what it publishes
covers its own events and all that was answered before it came, and the pages
that stay connected get it in an order that does not take them back.

**JSONL feeders** (`map-server/tail_jsonl.py`, `map-server/cat_jsonl.py`). State:
open files with their positions, the pending lines, the chunk of the post under
way. The tailer reads, posts a share of what is pending every `chunk_seconds` and
puts a chunk back when its post fails; the replay reads everything, posts chunk
after chunk and gives up at the first failure. Correct when every line is
delivered at least once, in the order of its file, and again only after a failure.

**Packet parser, configuration, enrichment, command line**: see section 6.

### How they interact

```
 libpcap --read--> capture thread ==event queue (bounded)==> main thread
                        |  stop flag (shared by all, set by signals)  |
                        |                                   output queue (bounded)
                        |                                             v
                    joined by main                              writer thread
                                                                |          |
                                                        endpoint log   per-IP log
 timer --> updater --(lock)--> feed caches --> sweep --> database + manifest (+ previous)

 endpoint log, per-IP log --readline--> tailer / replay --POST--> request threads
                                                                   |   |    ^
                        pages <--send-- set of clients <--publish--+   +--> stream
                          +---connect--> handler threads                 (Redis)
```

The threads share three things: the two queues and the stop flag. Dropping an end
of a queue is the only other signal: the end of the event channel means "no more
traffic", the end of the output channel means "no more windows", and a send to a
dropped receiver is an error. The map server's threads share the stream, which
Redis serialises, and the set of clients, which a lock does. A feeder and the
server share only requests, and a request may outlive the call that made it.

### What is hard here

* two senders' calls of different kinds on one queue (one waits, one drops);
* a clock sample that is older than the packet it is used for;
* an orderly shutdown of three threads each of which may be waiting for another,
  or may already have failed;
* counters that are updated in one call and cleared in another;
* files replaced one after the other by processes that may be killed;
* files renamed while they are open, lines cut in the middle;
* requests that are retried while their first attempt is still being served;
* snapshots that are read, copied out of a lock and sent by many threads, to pages
  that come, go and come back.

`PROJECT.json` lists each hazard at the line where it bites, with the properties
that would catch it, or the reason why none does.

## 2. The modules

| Module | Models | Role |
|---|---|---|
| `Flow` | `src/flow.rs` | the types of `flow.rs` and its functions as operators on values |
| `Accounts` | | abstract specification: one account per endpoint |
| `Aggregator` | `Aggregator` | packets, address changes and flushes in any order, with the history of the window |
| `Windows` | `Windows` | alignment and advance of a window |
| `CaptureLoop` | `capture_loop` | every step of the thread; extended by the next two |
| `CaptureTiming` | `capture_loop` | the thread alone with any receiver, and the history of what it queued |
| `Output` | `src/output.rs` | a log file as a value: lines, and whether the end is torn |
| `Monitor` | `run`, `aggregate_loop`, `submit`, writer | the three threads together: `CaptureLoop`, `Flow` and `Output` composed |
| `LogFiles` | `src/output.rs`, `packaging/` | the two files over restarts, cuts and rotations |
| `FeedCache` | `get_source`, `download` | the cache of one feed over many runs |
| `Publication` | `lock`, `update`, the replacement of files | the updaters of one output |
| `Networks` | `network`, `merge_networks` | the sweep over the addresses where a network begins or ends |
| `Build` | `update`, `publish` | `Publication` and `Networks` composed: a run from its rows to its files |
| `Ingest` | `do_POST`, its storing half | concurrent requests and the stream; extended by the next two |
| `MapServer` | `do_POST`, `do_GET`, `ActivityBroadcaster`, the page | `Ingest` with publication, connections and pages |
| `Posting` | `post` of both feeders | `Ingest` with clients that give up, and files that are being written |
| `Tailer`, `Replay` | `main` of the two feeders | their loops |
| `Delivery` | | abstract specification: lines delivered at least once, in the order of their file |
| `Feeders` | both | `Tailer` and `Replay` composed with server and writer |
| `AggregatorProofs`, `CaptureTimingProofs`, `MonitorProofs`, `LogFilesProofs`, `FeedCacheProofs`, `PublicationProofs`, `MapServerProofs`, `FeedersProofs` | | theorems |
| `MCAggregator`, `MCMonitor`, `MCFeedCache`, `MCBuild`, `MCMapServer`, `MCFeeders` | | constants of the runs |

Operators introduced by "Mutated:" are deliberate errors (a dropped guard, a
missing reset, the wrong kind of send). No specification uses them. Each one was
put in the place of the definition that follows it to see that the property it is
paired with in `PROJECT.json` fails.

### State and actions against the code

*Flow, Aggregator.* `agg` is the struct `Aggregator`; `Observe`, `ReplaceLocal`,
`Flushed` and `FlushRecords` are its methods; `Accounted` is the returned
`Observation`. `FlowOf` is the direction test of `observe`, `KeyOf` the projection
`key`. A record's `flow_count` and sum are integers: `u64` sums would need 2^64
bytes in a window to wrap. Records are kept without the JSON and without
enrichment. `flush` sorts by endpoint, and so does `FlushRecords`.

*CaptureLoop.* `cpc` is the place in the loop body; an iteration goes through
`top`, `boundary`, `addresses`, `send_addresses`, `drops`, `read` and skips the
stages that are not due at its sample `now`. Reading the stop flag and sampling
the clock are one action, `BeginIteration`: a stop that is set between the two
behaves as one that is set after both. The clock is in ticks and goes on at every
step; UTC is the clock plus a constant. `read` delivers a packet, a skipped frame,
nothing (a timeout), or an error.

*Monitor.* `mpc` and `wpc` are the places of main and of the writer. Main is one
action per receive, submit, final flush, final send and step of the shutdown.
`SendFinal` waits for room or for the receiver to go. The writer's `LookUp` stands
for the enrichment and the reputation of every address, which come before
anything of the window is written. `OutputTxOpen` is whether main has dropped its
sender. A closure's values are dropped when it returns, hence `outRxOpen` becomes
FALSE in `WriterReturns`. `trace` is a history: every event that got into the
event queue and the final flush.

*Output, LogFiles.* A file is its complete lines and a flag for bytes after the
last newline. `Appended` is `append`: nothing for no records, one line per
record. `PartlyAppended` is an append cut at any byte. What is appended to a torn
file continues its last line, which then is `Unreadable`. In `LogFiles` a path
has generations, the last one has the name; `Open` fixes the generation and
`Write` writes to it, so that `Rotate` can come between. `opened` is a history: which generation
an append opened, where its lines ended and whether it was torn. The rotation renames a
file that is not empty and creates an empty one.

*FeedCache.* A body is a model value with a number of entries; its digest is the
body, its tag the body it was sent with. Of a body that is sent less may arrive without an
error (`Received`): a sized `read` does not compare with the Content-Length. `Start` is the validation of the pair and the decision to
refresh; `AnswerBody`, `AnswerNotModified`, `TransientError`, `PermanentError` and
`UncaughtError` are what one attempt can come to, the last an `HTTPException`, which no
handler names; `WriteSnapshot` and `WriteState` are the two
`atomic_write`s; `RefreshFails` is the exception handler; `Conclude` gives the
build its rows. `Killed` ends a run anywhere. `torn` records that a commit was cut
between its files.

*Publication.* A build is a number and so is a file's content. `Gather` ends the
run on a failed feed or without any usable one. `KeepDb`, `KeepManifest`,
`ReplaceDb`, `ReplaceManifest` are the replacements in the order of the code;
`Interrupted` ends the run before any of them. The lock is the kernel's, not the
file: it goes with its holder.

*Networks, Build.* An entry is a range of addresses with its evidence; `NetworkOf`
drops the host bits of a row and `Acceptable` is what `network` refuses. `Sweep` is
one round of the loop of `merge_networks`: the range from `previous` to the next
position gets what is `active`, then what begins or ends there is applied.
`active` is a set where the code counts by the evidence: `parse_feed` has made the
rows of a source unique, and the evidence names source and network, so that every
count is 0 or 1. The two IP versions are swept one after the other over disjoint
dictionaries; the model is one of them. The split of a range into CIDR blocks and
the verification of the written file (update.py:328-335) are left out. In `Build`
the sweep stands between `Gather` and the first replacement, and an interruption
may come inside it.

*Ingest, MapServer.* A request goes through "adding" (the loop over its lines),
"copying" (its snapshot is read, the clients are not copied yet), "sending" and
"answered". `AddLine` is one XADD; `AddFails` is an XADD that raises, before or
after Redis did it. The stream is the sequence of all entries and a snapshot the
part of it between two indices: Redis dropping old entries changes no newest part
(the maximum length is at least 100; with `--limit` above it a snapshot is shorter).
`RefuseBody` is a body of which no line is looked at (a `Content-Length` that is no
number, bytes that are no UTF-8). `Raised` is what `aggregate` makes of the view:
`NotNumbers` are objects with a count that `int` refuses with a `ValueError` (a
NaN), which the handler answers 400, `Odd` ones raise anything else, answered 503,
in both cases after everything was stored, and to whichever request meets them
in its view; the loop for `new_line_keys` may also stumble over an `Odd` event of the request's own that the view no
longer reaches. Which objects these are is a matter of each one alone; two
timestamps that cannot be compared (line 87) are left out. `Newest` cuts a view at both ends, and
`Covers` is what a view owes an event: to contain it, or as many newer ones as its limit. `CopyClients` and `Send` are the two halves of
`publish`; a send to a connection that is down raises, or is lost before the
library knows. `handler` is the thread of a connection between its registration
and its `finally`. A page has one connection at a time and messages on their way
(`wire`), which a `Disconnect` loses. `Load` takes the response at the moment the
stream is read. A response that is overtaken by a message puts the page back, as
the code allows; `NothingMissedAfterALoad` speaks of what the page was shown, not
of which of two is on the screen.

*Posting, Tailer, Replay.* A line is its file and number. `readline` gives it whole,
or, when it meets the writer inside a line, a "head" and later a "tail"; if only
the newline is missing, the "bare" record and later a blank rest, which is dropped. A body is the
concatenation of its pieces, which the server splits again (`Boundaries`, `Split`); `Records`
are the lines that come out as one good record.
`Send` starts a post, `Heard` is its answer, `GivenUp` any failure that is not an
answer: a refused connection, a timeout, a reset. After it the request may reach the server
whole (`Reach`), in part or never (`ReachInPart`), and is served beside its retry;
`Unheard` ends it. A body cut inside a character is one that was never read (`RefuseBody`
would store nothing either). `Heard`, `Unheard` make the request's name free again. The tailer's
`at` is the place in its loop: each file, then the timer. Its time is abstract:
at the timer it may flush or sleep.

## 3. The runs

| Run | Distinct states | Deadlock |
|---|---|---|
| `aggregator` | 45,346 | checked |
| `capture_timing` | 583,004 | checked |
| `capture_lateness` | violation | |
| `monitor` | 240,733 | checked |
| `log_files` | 37,982 | off: windows, failures and rotations run out |
| `log_files_torn` | violation | |
| `feed_cache` | 754,976 | checked |
| `feed_cache_torn` | violation | |
| `publication` | 55,328 | off: builds run out |
| `map_server` | 176,243 | off: requests and connections run out |
| `feeders` | 109,760 | off: lines and posts run out |
| `feeders_backlog` | violation | |

**aggregator** (`MCAggregator.cfg`): the counters against the history of the
window, and as a refinement of `Accounts`. Six packets: both directions of one
flow, a second flow of the same endpoint when address 2 is local, a second bucket
of the same address, a flow that exists only while 2 is not local, and an excluded
address; two address sets; `MaxFlows = 2`, so that the limit is reached and then
hit by known and by new flows; up to 4 packets in a window, enough for two flows,
a rejected third and a repeat. Windows follow each other without bound.
`FlowCountsAreDistinctFlows` compares two structures that `observe` updates
separately and `flush` clears separately; `HeldFlowsAreComplete` computes the
admitted flows and bytes from the history alone; `FlushReportsTheWindow` and
`RollUpCountsFlowsOnce` look at the returned records; `ImplementsAccounts` is the
refinement.

**capture_timing** (`CaptureTiming.cfg`): one packet, a queue of 1, an interval of
2 seconds of 2 ticks (instants within a second), refresh and report every 5 ticks,
11 ticks: at least two windows close, and up to two elapse during one send. The
receiver takes events at any pace and may go away after a stop. The property that
earns it most is `PacketsKeepTheirWindow`: whatever waits where, a packet is
closed by the boundary of the window in which its loop iteration began.

**capture_lateness** (`CaptureLateness.cfg`): under `PromptSpec`, in which the
thread is never preempted and time passes only while it waits, a packet is still
read after the window of its label has ended (finding 1).

**monitor** (`MCMonitor.cfg`): three threads, both queues at capacity 1, an
interval of one tick and three ticks, two packets to two endpoints, a read error,
and every fault of the writer. With these bounds every exit (ok, capture,
aggregation, output) occurs; so do a full output queue, a drop in a full event
queue, and every order of failures and shutdown. `LogsFollowTheTraffic` compares
both logs at every moment with `Sequential`, a fold of the trace without threads
or queues; `ExitTellsTheTruth` relates the returned error to what the logs lack;
the two liveness properties say that every stop and every failure ends the
process.

**log_files** (`LogFiles.cfg`): 3 windows, 2 failures or kills, 2 rotations of
each file at any moment. Two records of a window in one log and one in the other
tell a whole window from a part of it. Enough for two failures around a rotation
and a successful append after both. `AckedWindowsAreWhole` gives every acknowledged record its
line: in the file that had the name at the open of its append, behind the end found there; a record may
be missing only if its append found a torn line, and then it is the first.

**log_files_torn** (`LogFilesTorn.cfg`): the same bounds, violates the documented
property (finding 2).

**feed_cache** (`MCFeedCache.cfg`): an empty list, one of 4 (the bound from which
lists are guarded, for 100 in the code), one of 9, and a body that does not
parse; of the list of 9 the one of 4 may arrive, and of that the empty one; two URLs; time 0 to 2 with a refresh after 1 and a maximum age of 2, so
that a cache is fresh, due and expired.

**feed_cache_torn** (`FeedCacheTorn.cfg`): one URL, the documented fallback
(finding 3).

**publication** (`MCBuild.cfg`): two updaters and five builds: a first
publication, one that is cut, one that follows it, and two more to see the files
recover. Each build is of any subset of the acceptable ones of seven rows in a space of eight
addresses: single addresses, networks nested in one of the same or of another
source, touching ones, one that ends with the last address, two given with host
bits, and two that are refused (a reserved address, the whole space).

**map_server** (`MCMapServer.cfg`): two requests, each with an odd line before a good
one, with a line of a count that is no number before a bad line, with blank lines
only, or refused for its length or its bytes; one page with two connections. The
published view has 1 entry and the loaded one 2, of up to four in the
stream, so that both are cut, and a view of one event hides that a request's own
odd line is in the stream. Two requests are
enough for every overlap of two publications, two connections for a loss and a
return; one request's line may be what the other stumbles over, after its own good lines are stored.
`StoredIsABeginning` separates the meanings of the answers;
`MessagesFollowThePosts` and `SnapshotsCoverTheAnswered` say how far requests that
overlap may disturb each other; `NothingMissedAfterALoad` what a page can rely on, the
limits included; the two liveness properties that dead connections neither keep a message from
others nor stay. (Four bodies, with the bad line
behind a good one and the NaN alone, pass as well: 262,567 states.)

**feeders** (`MCFeeders.cfg`): two files of 2 and 1 lines; the writer may be met
inside the first line and before the newline of the second; the line of the
second file is bad. One post may fail without a refusal, two may be refused; two
requests, so that a retry runs beside the request it repeats; a body takes three
pieces; two slots. `ReadLinesAreKept` and `CopiesAreRetries` are the two halves of "at least
once, and again only after a failure", `Delivers` the refinement of `Delivery`,
`LinesArrive` that the lines come through in the end. (The invariants were also checked with
two failures: 622,901 states.)

**feeders_backlog** (`FeedersBacklog.cfg`): no damaged line and no failure, a body of
at most one line, one slot: existing lines are never forwarded (finding 4).

### Fairness

* `WF` of each thread in `Monitor` and of `Capture` and `Receive` in
  `CaptureTiming`: an operating system thread that can go on does go on. `read`
  returns after its timeout even without traffic (`src/capture.rs`), so that a step
  of the loop is always possible. A wait is the absence of an enabled step; no
  strong fairness is assumed and no fairness of signals, ticks or faults. In
  `CaptureTiming`, `Receive` is fair because main's loop does nothing else until it
  gives up, and giving up closes the receiver.
* `WF` of the steps of a started updater run in `FeedCache` and `Publication`:
  downloads have a timeout, attempts are counted, and local file operations
  return or raise. Starting a run, kills, the server and time are not fair.
  `Build` includes the sweep, which ends because each round passes a position.
* `WF` of the request threads and handlers of `MapServer` and of the requests in
  `Feeders`, operating system threads that can go on; of a page that is up taking
  its messages. Nobody has to post, connect, load or fail. A send returns or
  raises, which is the WebSocket library's matter, and so is that `recv` raises once a
  connection is down: after a silent loss of the network it does so only with a
  keepalive, which older synchronous servers of the library, allowed by
  `requirements.txt`, do not have.
* `WF` of the tailer's reading and of its waiting for an answer (a post has a
  timeout); `SF` of `Flush`, because the loop passes its timer again and again and the
  time of the next flush, which the model leaves open, has come in some of
  those rounds (tail_jsonl.py:67-87).

`CaptureTiming` and `Monitor` bound the clock, after which no further boundary can
fall due; the liveness properties are about ending after a stop or a failure and
do not depend on time going on.

## 4. Findings

1. `README.md:57-58` says that packets belong to the window in which the capture
   worker reads them, and that backlog only shifts traffic to a later window. The
   clock is sampled before sends that may wait (`src/runtime.rs:80-87`) and the
   packet is read after them (103), so that it may be labelled with an EARLIER
   window than the one in which it was read. Run `capture_lateness`. What does
   hold is `PacketsKeepTheirWindow`.
2. `README.md:227-228` says that a write failure can leave a partial final line. The
   next run appends to it (`src/output.rs:125`), so that the partial line ends up in
   the middle, joined to a record whose append succeeded. Run `log_files_torn`. What
   does hold is `DamageIsBounded`: one line per failure.
3. `tools/reputation/README.md:124` says that failed refreshes use a validated cache
   until its maximum age. A cut between `snapshot.txt` and `state.json`
   (`tools/reputation/update.py:251-252`) leaves a pair that does not validate, and
   the next failed refresh has nothing to fall back on. Run `feed_cache_torn`. What
   does hold is `FailuresFallBackOnTheCache`, with that exception.
4. `map-server/README.md:35` says that without `--start-at-end` existing lines are
   forwarded first. The size of a chunk is a share of all that is pending
   (`map-server/tail_jsonl.py:71`), the server refuses a body over 8 MiB
   (`AttackMapServer.py:155`), and a refused chunk is put back and posted again
   (tail_jsonl.py:80): from some size of the files on nothing is forwarded at all. Run
   `feeders_backlog`. What does hold is `LinesArrive`, while every chunk fits.

The retry of finding 4 makes any line that the server refuses hold up all lines behind it:
one that is not a JSON object, or one that was met half written and posted in two
chunks. No document says what becomes of such a line, so that this is not a
finding; `Damaged` for ever in `LinesArrive` is that exception.

Two more lines of `tools/reputation/README.md` do not hold as they stand. The model
has what happens, and no run of its own for it:

* Line 124 again: an answer that is no HTTP, or a chunked body that is cut, raises
  an `http.client.HTTPException`, which is caught at none of `tools/reputation/update.py:198, 204, 255`.
  The whole update ends with a traceback and no cache is used (`UncaughtError`). What does
  hold is `FailuresFallBackOnTheCache`, for all other errors.
* Line 99 says that `fresh` means a successfully fetched snapshot.
  `response.read(limit + 1)` (update.py:193) returns a body that ends before its
  Content-Length without an error (`Received`); what parses is committed with the
  ETag of the whole, and later 304 answers confirm it. What does hold is
  `ConfirmedListsWereSent`, that a confirmed list is what came of one that the
  server had, and `LargeChangesAreReviewed`.

## 5. What is proved

All proofs hold for every value of the constants that satisfies the named
assumptions, which TLC also evaluates in the runs.

**`AggregatorProofs`** (assumptions `FlowAssumption`, `AggregatorAssumption`). All
properties of `Aggregator`. `TypeCorrect` and `CountsCorrect`
(`FlowCountsAreDistinctFlows`): both conjuncts about buckets are inductive only together with the types and the finiteness of the flow set. The
argument: `CreditShape` says what crediting a flow does to the buckets,
`CountedStep` that the count of the flow's endpoint and the cardinality of its
part of the flow set grow together (a new element of a finite set), and that all
other endpoints keep both; a flush empties both; an address change touches
neither. Sets of flows are finite by the limit, not by the type of an address,
which may be infinite. `HeldFlowsComplete`: the invariant `HeldInv` adds to the property
that below the limit every relevant packet of the window was admitted; without it a
flow that was turned away could be admitted later. `FlushReports` (one record per
endpoint of the window in increasing order, with its counts and sums), `RollUpCounts` and
`Refinement` (`Spec => ImplementsAccounts`) are about reports and sums. A sorted report is stated by
ranks (the i-th element has i - 1 smaller ones), so that "increasing" and
"complete" are facts about cardinalities; a sum of a function over a finite set changes by what one
argument changes (`AllSubsets`, `AllNumbers`: a least set or number for which
it fails cannot exist, which takes the place of an induction).

**`CaptureTimingProofs`** (assumptions `WindowsAssumption`, `CaptureAssumption`).
`AdvancedContainsSample`: after
`due` skipped any number of elapsed windows, the sample is before the new deadline
and not before the deadline less one interval, and label and deadline moved by
the same positive whole number of intervals. It rests on `TwoQuotients`: truncating to seconds
before dividing by the interval loses nothing.
`PacketsKept`: `Spec => []PacketsKeepTheirWindow`. The property is not inductive:
it says nothing of how the deadline, the label and the clock go together. The
invariant is `Inductive == Typed /\ WindowsTrackTheClock /\
PacketsKeepTheirWindow`, where `WindowsTrackTheClock` says that deadline and label differ by
the start time, that the sample of an iteration lies in the window after the
boundary stage, and that the boundary being sent is the one before the window.
There is one lemma for every kind of step of the thread.
`LabelsInSequence`: `Spec => LabelsAlignedAndIncreasing`, an action property. The
additional invariant `LabelsInOrder` says that the window is aligned and after the last
boundary, and that a boundary which waits for room is aligned, over, and
between the two; only `SendBoundary` closes a window, and then with the label it
held while it waited. `LossesAreCounted`: `Spec => []NoUncountedLoss`, inductive with the
types of its terms: a failed thread takes no step, and a receiver that is gone
does not come back. `TypeCorrect` needs `Bounds`: the instants a thread holds are not after the clock.

**`MonitorProofs`** (assumptions `WindowsAssumption`, `CaptureAssumption`, `FlowAssumption`,
`MonitorAssumption`). `QueuesConnectTheThreads`: `Spec => []IInv`. Neither property of `Monitor` says
what is on the way between two threads, so that neither is inductive. `IInv` has a part for
each thread. `CaptureInv`: the trace is one that the accounting can take, and
every parsed packet is in it or counted as a drop. `MainInv`: the event queue is the rest of the trace, and the
`Aggregator` is what the sequential program has after the part that was taken. `WriterInv`: of the sequential
program's windows the first n are written, and the next are in the hands of the
writer, on its queue and in the hands of main, in this order (`Written`, `Queued`,
`Pending`); after an error the logs are cut within one window (`CutAfter`). `LogsFollow`
(`LogsFollowTheTraffic`) and `ExitTruth` (`ExitTellsTheTruth`) follow. The sequential program is a
fold over the trace; what it does with one event more is shown by a least
counterexample (`AllNumbers`).

**`LogFilesProofs`** (assumption `LogFilesAssumption`). `LogsStaySound`: `Spec => []IInv`, and from
it `AckedWhole`, `AppearOnce`, `Damage` and `RotatedAlone`, the four safety properties of
`LogFiles`. `LogsInv` is about one file and its rotated generations: records come in the order of their
windows, each once, none of a later window than the one at work, none in a rotated file that is
of a later window than its rotation, and unreadable lines and torn ends together
are not more than the failures. The properties do not say what a `Write` that comes after a rotation
may find: `HandleInv` says that all generations since the open one are empty. `FollowedInv` and
`BetweenInv` connect the two files: the per-IP log gets a
window only after the endpoint log has all of it. `FoundInv` says that between an open and its write
nothing is added to the open generation, whatever is rotated; so that a write puts its lines
where the history says, and `AckedInv`, which is `AckedWindowsAreWhole`, stays true
because what is in a log keeps its place.

**`FeedCacheProofs`** (assumption `FeedCacheAssumption`). The four safety properties
of `FeedCache` and its type invariant. The properties speak of what a run gave the build and
of the two files; what connects them is what the run holds in between. `Held` says
that the loaded state and body belong together, that a candidate is what came of
the server's answer and that a tag is that of the body of which it is kept with a part or all
(hence `ConfirmationsWereSent`, through a 304 as well); `Files` that the pair on disk fits except within a commit and
after a cut one, and is what the run loaded if it could; `Reviewed` that the
candidate passed the size guard; `Given` is the two properties about the outcome. `IInv` is their
conjunction with `Typed`, one lemma for each action.

**`PublicationProofs`** (assumptions of `Publication`, `Networks`, `Build`). `SweepIsExact`:
`SweepSpec => []MergeIsExact`. The invariant `SweepInv` says that everything before
`previous` is final, everything from there on untouched, and `active` is the set of entries that hold
the address at `previous`. `NothingInBetween` is the heart: between two
neighbouring positions no entry begins or ends. The others are about
`BuildSpec`: `BuildPublishes` shows that every step of `Build` is a step or a stutter
of `Publication`, so that its invariant carries over. `Exclusive`: the lock's holder is alone at
work and makes the last build. `Ages`: the four files hold builds in order of age, and how far the
present run has come tells which it has replaced. `Prior` and `Pairs` say, for each
step, what the previous files are. `MergesAreExact` takes `SweepInv` through the runs: a new run and
an interrupted one start the sweep again.

**`MapServerProofs`** (assumption `MapServerAssumption`). `SnapshotsCover`,
`MessagesFollow` and `NothingIsMissed`. A page's order is not inductive by itself: it follows from the
order in which requests were answered. `Steps`: a request is answered once, and
what was answered stays so; `Views`: a snapshot reaches to the request's own lines,
those of the requests before it and what these published (`IsNewest` gives its lower
end: it begins with the stream or has as many entries as the limit, so that an event in front of it has that many newer
ones, `NewestCover`); `Messages`: in what a
page has rendered followed by what is on its way, no request precedes one that was
answered before it arrived. The last rests on that a request sends before it is
answered. `Sockets` (clients only of handlers that receive, messages only on
connections that are up) gives the type invariant. `NothingIsMissed` needs three more:
`Accounted`, the request that stored a line counted it or is answered 503; `Loads`, a
page whose last load was on the connection it still has is registered; and `Informed`,
the request of every line stored after that load has told the page, or has the page's
connection among its targets once it sends. What remains is that an answered 202 has
no target left. `StoredBeginning` (`StoredIsABeginning`): `Stores` says that the counted lines of a request are
in the stream in the order of its body and nothing else of it, unless its last XADD failed;
`Refused` are the three reasons of a 400, which stay true while the stream grows.

**`FeedersProofs`** (assumptions `PostingAssumption`, `RecordsAssumption`, `TailerAssumption`,
`ReplayAssumption`). The three safety properties of the feeders (`ReadLinesKept`, `OneCopyPerFailure`,
`ReplaysInOrder`) and the refinement of `Delivery` (`FeedersDeliver`). Three layers:

* *The body.* `SplitShape`: the server's lines are the sent pieces in their order, none
  lost and none twice. `Boundary` is a choice by rank; `NumberRanks` shows that each rank is that of one
  boundary. `CutArrival`: of a body that arrives cut, all lines but an unreadable last one are
  lines of what was sent. `PostingSteps` reduces every step of the server to one of a few on one
  request; `ServerInv` and `PostInv` say that the request of the post under way
  has, or is still to get, what the client put in its chunk.
* *The tailer.* `Good` is the invariant of every text there is (what waits, what
  was sent, what arrived): read in this order, no line begun twice, and the lines
  before each piece stored or before it in the text. A text may lose its beginning only
  when that is stored (`GoodRest`), which a 202 means (`SentIsStored`) and a failed post
  does not rely on, since its chunk goes back to the front. `NextObject` is what
  follows for the line a request is about to store: it was read, and all before it are in the stream,
  whichever other requests are at work. That gives `Deliver` of `Delivery`; `Kept` gives
  `ReadLinesAreKept`. The bound on copies is not inductive: a request that the client gave
  up may still add its line. `CountInv` counts these requests, and the tailer's own next
  copy, beside the copies that are there: copies, requests that may still add one, and one
  if the tailer may, are together at most 1 + faults + refusals.
* *The replay.* One request is ever busy. `Progress(L, b, n)`: of what was read, the
  first b pieces are stored, the next n are the post that is or was under way, and
  the stream has as many more as that request accepted; after an unsure failure at
  most one more. `OneEach`: as long as the server accepts its lines, they are the
  pieces one by one, since the replay never reads the rest of a half line.

`FeedersInv` joins the two tools.

Only proved, not listed in a run: the type invariants of `FeedCache`, `Publication`
and `MapServer`, and the invariants that the theorems about `Monitor` and `LogFiles` rest on.

Only model-checked: every liveness property, since the prover does not reason about
ENABLED and hence not about fairness. Where a fact about data would take an
induction (a fold, the k-th boundary of a body), a least counterexample is
refuted instead.

## 6. Not modelled, and why

* **Panics.** `run` turns a panic of a joined thread into an error
  (`src/runtime.rs:219-224`), without joining the writer when it is the capture thread that panicked. The only panics that the code of the loops states itself
  are the conversions of `Windows` (38, 41, 54), for instants no clock shows.
* **Steps of the wall clock.** UTC is monotonic plus a constant. The final window is
  labelled by the wall clock and may then be out of order (`README.md:59-62`).
* **Loss of power.** Kills are modelled, file systems that reorder writes are not.
* **Logging and the rejected counter**, and the failure of writing to the log stream.
* **Packet parser** (`src/packet.rs`): a pure function of the frame. Its results are
  inputs.
* **Configuration** (`src/config.rs`): checked once at the start; what it ensures are the
  assumptions on the constants.
* **Geo and reputation databases** (`src/enrichment.rs`, `src/reputation.rs`): a lookup
  succeeds or fails; the data are left out.
* **The rows of a feed** (`parse_feed`): a body parses or not, and has a number of
  entries; which networks it lists is any subset of the model's rows.
* **CIDR blocks**: that `summarize_address_range` covers a range is the library's
  promise; the verification of the written database catches a writer that fails it
  and ends the run, which is an `Interrupted`.
* **The figures of the map** (`aggregate`): sums per city and their order. A
  snapshot is the part of the stream it was made from, or an error. In `Posting` the
  error is a 503 only: the counts that the monitor writes are integers.
* **Redis**: its stream is a sequence; the client library's own retries of a command, which could add an
  entry twice, and a restart of Redis that forgets entries are left out.
* **Rotation under the tailer**: it opens a file once (tail_jsonl.py:46), so that a
  rotated file is to it one that stops growing, which is a behaviour of `Posting`;
  the lines of the new file are not its business. A copytruncate, which the
  configuration in `packaging/` does not use, would be.
* **Lines with characters at which `str.splitlines` splits** besides the newline (the
  server's `raw.splitlines()`): the monitor's JSON escapes the ASCII ones; the
  Unicode ones could come only with a name from a geo database or a feed.
* **Command line and installers.**

## 7. Plan

Done, in the order of importance: accounting, capture, the three threads, the
logs, the updater's cache and publication, the merge of networks, the map server, the
feeders; the theorems of section 5.

What would add most next:

1. The feeders and the map server in one model, pages included: at present they
   share `Ingest` and are checked apart.
2. `PacketParse`: the length arithmetic of `packet.rs` over small headers.
3. Steps of the wall clock, and the order of labels with them.
