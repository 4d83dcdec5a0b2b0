----------------------------- MODULE FeedCache ------------------------------
(***************************************************************************)
(* The cache of one reputation feed, tools/reputation/update.py:179-283:   *)
(* state.json says which snapshot was confirmed when, snapshot.txt holds   *)
(* it.  A run of get_source() loads the pair if the digest fits, asks the  *)
(* feed's server when a refresh is due, replaces the two files one after   *)
(* the other, and hands its evidence to the build.  The lock of update()   *)
(* keeps it to one run at a time; a run may be killed between any two of   *)
(* its steps, and the server changes the feed whenever it likes.           *)
(*                                                                         *)
(* A body is a model value with a number of entries; its digest is itself. *)
(* The tag of a body (ETag, Last-Modified) is the body it was sent with,   *)
(* of which less may have arrived.                                         *)
(***************************************************************************)
EXTENDS Integers

CONSTANTS
  Urls,          \* feed URLs the configuration may name
  Bodies,        \* what a server may answer
  Malformed,     \* the bodies parse_feed() rejects
  Entries,       \* the number of distinct entries of a body
  Cut,           \* what a connection that ends early may leave of a body
  LargeFeed,     \* 100 in the code: lists from here on are guarded
  AllowEmpty,    \* allow_empty of the source
  Refresh,       \* refresh_seconds
  MaxAge,        \* max_age_seconds
  Attempts,      \* 3 in the code
  MaxTime        \* bound: the clock

Nothing == [nothing |-> TRUE]

ASSUME FeedCacheAssumption ==
  /\ Nothing \notin Bodies
  /\ Malformed \subseteq Bodies
  /\ Entries \in [Bodies -> Nat]
  /\ Cut \in [Bodies -> SUBSET Bodies]
  /\ LargeFeed \in Nat \ {0}
  /\ AllowEmpty \in BOOLEAN
  /\ Refresh \in Nat \ {0} /\ MaxAge \in Nat /\ MaxAge >= Refresh
  /\ Attempts \in Nat \ {0}
  /\ MaxTime \in Nat

State == [url : Urls, sha256 : Bodies, confirmed_at : 0..MaxTime,
          tag : Bodies \cup {Nothing}]

VARIABLES
  clock,       \* time.time()
  url,         \* the configured URL
  upstream,    \* what its server has
  snapshot,    \* snapshot.txt, or Nothing
  state_json,  \* state.json, or Nothing
  pc,          \* where the run is; "idle" between runs
  run,         \* its `now`, --force, --accept-large-change and attempts so far
  state,       \* the run's validated state, or Nothing
  body,        \* the snapshot that goes with it
  candidate,   \* what it is about to commit, or Nothing
  health,      \* the feed's status
  outcome,     \* what the last run gave the build, or Nothing
  answered,    \* history: what the server had when it answered this run
  torn         \* history: a commit was cut between its two files

memory == <<run, state, body, candidate, health, answered>>
vars == <<clock, url, upstream, snapshot, state_json, pc, memory, outcome, torn>>

NoRun == [now |-> 0, accept |-> FALSE, attempt |-> 0]

Init ==
  /\ clock = 0
  /\ url \in Urls
  /\ upstream \in Bodies
  /\ snapshot = Nothing
  /\ state_json = Nothing
  /\ pc = "idle"
  /\ run = NoRun
  /\ state = Nothing
  /\ body = Nothing
  /\ candidate = Nothing
  /\ health = "cached"
  /\ outcome = Nothing
  /\ answered = Nothing
  /\ torn = FALSE

-----------------------------------------------------------------------------
\* Mutated: the snapshot is not compared with its digest.
CacheValidByUrl == state_json # Nothing /\ state_json.url = url

\* Mutated: a cache that is due for a refresh is not loaded.
CacheValidUntilDue ==
  /\ state_json # Nothing /\ state_json.url = url /\ state_json.sha256 = snapshot
  /\ clock - state_json.confirmed_at < Refresh

CacheValid ==
  /\ state_json # Nothing
  /\ state_json.url = url
  /\ state_json.sha256 = snapshot

\* The body of a feed that parse_feed() returns rows for.
Parses(b) == b \notin Malformed /\ (Entries[b] > 0 \/ AllowEmpty)

\* Mutated: only a loss of entries counts as a large change.
AcceptableUnlessSmaller(new) ==
  state # Nothing /\ Entries[state.sha256] >= LargeFeed /\ ~run.accept
      /\ ~(Entries[new] = 0 /\ AllowEmpty) =>
    2 * Entries[new] >= Entries[state.sha256]

\* For lists that were large, 0.5 <= ratio <= 2.
Acceptable(new) ==
  state # Nothing /\ Entries[state.sha256] >= LargeFeed /\ ~run.accept
      /\ ~(Entries[new] = 0 /\ AllowEmpty) =>
    LET old == Entries[state.sha256] IN
    2 * Entries[new] >= old /\ Entries[new] <= 2 * old

Due(loaded) == loaded = Nothing \/ clock - loaded.confirmed_at >= Refresh

Start ==
  /\ pc = "idle"
  /\ \E force, accept \in BOOLEAN :
       LET loaded == IF CacheValid THEN state_json ELSE Nothing IN
       /\ run' = [now |-> clock, accept |-> accept, attempt |-> 0]
       /\ state' = loaded
       /\ body' = IF loaded = Nothing THEN Nothing ELSE snapshot
       /\ pc' = IF Due(loaded) \/ force THEN "download" ELSE "conclude"
  /\ health' = "cached"
  /\ outcome' = Nothing
  /\ UNCHANGED <<clock, url, upstream, snapshot, state_json, candidate, answered, torn>>

\* The exception handler of get_source(): state and body stay what they were.
RefreshFails ==
  /\ pc' = "conclude"
  /\ health' = "stale"
  /\ candidate' = Nothing

\* response.read(limit + 1): a body that is cut before its Content-Length is
\* returned as far as it came, without an error.
Received(sent) == {sent} \cup Cut[sent]

\* HTTP 200: what came of the body is parsed and compared with the last list,
\* and kept with the tag of the whole.
AnswerBody ==
  /\ pc = "download"
  /\ answered' = upstream
  /\ \E received \in Received(upstream) :
       \/ /\ Parses(received) /\ Acceptable(received)
          /\ \E tag \in {upstream, Nothing} :
               candidate' = [url |-> url, sha256 |-> received,
                             confirmed_at |-> run.now, tag |-> tag]
          /\ pc' = "write_snapshot"
          /\ health' = "fresh"
       \/ /\ ~(Parses(received) /\ Acceptable(received))
          /\ RefreshFails
  /\ UNCHANGED <<clock, url, upstream, snapshot, state_json, run, state, body,
                 outcome, torn>>

\* HTTP 304 to the tag of the state; the cached body goes through the same
\* checks as a fresh one, and has passed them before.
AnswerNotModified ==
  /\ pc = "download"
  /\ state # Nothing
  /\ state.tag = upstream
  /\ answered' = upstream
  /\ candidate' = [state EXCEPT !.sha256 = body, !.confirmed_at = run.now]
  /\ pc' = "write_snapshot"
  /\ health' = "not_modified"
  /\ UNCHANGED <<clock, url, upstream, snapshot, state_json, run, state, body,
                 outcome, torn>>

\* Mutated: the attempts start over after the last one.
RetryForever ==
  /\ pc = "download"
  /\ run' = [run EXCEPT !.attempt = (@ + 1) % Attempts]
  /\ UNCHANGED <<pc, health, candidate>>
  /\ UNCHANGED <<clock, url, upstream, snapshot, state_json, state, body,
                 outcome, answered, torn>>

\* A 5xx, a 429 or no connection: three attempts, then the error goes up.
TransientError ==
  /\ pc = "download"
  /\ run' = [run EXCEPT !.attempt = @ + 1]
  /\ \/ run.attempt + 1 < Attempts /\ UNCHANGED <<pc, health, candidate>>
     \/ run.attempt + 1 = Attempts /\ RefreshFails
  /\ UNCHANGED <<clock, url, upstream, snapshot, state_json, state, body,
                 outcome, answered, torn>>

\* A 4xx, a redirect off HTTPS, a body over the limit.
PermanentError ==
  /\ pc = "download"
  /\ RefreshFails
  /\ UNCHANGED <<clock, url, upstream, snapshot, state_json, run, state, body,
                 outcome, answered, torn>>

Forgotten ==
  /\ pc' = "idle"
  /\ run' = NoRun
  /\ state' = Nothing
  /\ body' = Nothing
  /\ candidate' = Nothing
  /\ health' = "cached"
  /\ answered' = Nothing

\* An answer that is no HTTP, or a chunked body that is cut: HTTPException is
\* caught neither by download() nor by its callers, and ends the update.
UncaughtError ==
  /\ pc = "download"
  /\ outcome' = [status |-> "uncaught", at |-> run.now]
  /\ Forgotten
  /\ UNCHANGED <<clock, url, upstream, snapshot, state_json, torn>>

WriteSnapshot ==
  /\ pc = "write_snapshot"
  /\ snapshot' = candidate.sha256
  /\ pc' = "write_state"
  /\ UNCHANGED <<clock, url, upstream, state_json, memory, outcome, torn>>

WriteState ==
  /\ pc = "write_state"
  /\ state_json' = candidate
  /\ state' = candidate
  /\ body' = candidate.sha256
  /\ candidate' = Nothing
  /\ pc' = "conclude"
  /\ torn' = FALSE
  /\ UNCHANGED <<clock, url, upstream, snapshot, run, health, outcome, answered>>

\* atomic_write() fails before its rename, and the file is what it was.
WriteFails ==
  /\ pc \in {"write_snapshot", "write_state"}
  /\ RefreshFails
  /\ torn' = (torn \/ pc = "write_state")
  /\ UNCHANGED <<clock, url, upstream, snapshot, state_json, run, state, body,
                 outcome, answered>>

Expired(s) == run.now >= s.confirmed_at + MaxAge

\* Without a validated snapshot the whole update fails; an expired one
\* contributes no rows.
Conclude ==
  /\ pc = "conclude"
  /\ outcome' =
       IF state = Nothing THEN [status |-> "failed", at |-> run.now]
       ELSE IF Expired(state) THEN [status |-> "expired", at |-> run.now]
       ELSE [status |-> health, at |-> run.now, rows |-> body,
             sha256 |-> state.sha256, confirmed_at |-> state.confirmed_at]
  /\ Forgotten
  /\ UNCHANGED <<clock, url, upstream, snapshot, state_json, torn>>

Killed ==
  /\ pc # "idle"
  /\ Forgotten
  /\ torn' = (torn \/ pc = "write_state")
  /\ UNCHANGED <<clock, url, upstream, snapshot, state_json, outcome>>

-----------------------------------------------------------------------------
Tick ==
  /\ clock < MaxTime
  /\ clock' = clock + 1
  /\ UNCHANGED <<url, upstream, snapshot, state_json, pc, memory, outcome, torn>>

\* The server changes the feed.
UpstreamChanges ==
  /\ upstream' \in Bodies \ {upstream}
  /\ UNCHANGED <<clock, url, snapshot, state_json, pc, memory, outcome, torn>>

\* The source's URL is edited between two runs.
Reconfigure ==
  /\ pc = "idle"
  /\ url' \in Urls \ {url}
  /\ upstream' \in Bodies
  /\ outcome' = Nothing
  /\ UNCHANGED <<clock, snapshot, state_json, pc, memory, torn>>

RunStep ==
  \/ AnswerBody \/ AnswerNotModified
  \/ TransientError \/ PermanentError \/ UncaughtError
  \/ WriteSnapshot \/ WriteState \/ WriteFails \/ Conclude

Next ==
  \/ Start \/ RunStep \/ Killed
  \/ Tick \/ UpstreamChanges \/ Reconfigure

\* A started run goes on: downloads time out, and local writes return.
Spec == Init /\ [][Next]_vars /\ WF_vars(RunStep)

-----------------------------------------------------------------------------
TypeOK ==
  /\ clock \in 0..MaxTime
  /\ snapshot \in Bodies \cup {Nothing}
  /\ state_json \in State \cup {Nothing}
  /\ pc \in {"idle", "download", "write_snapshot", "write_state", "conclude"}
  /\ state \in State \cup {Nothing}
  /\ (body = Nothing) <=> (state = Nothing)
  /\ candidate \in State \cup {Nothing}
  /\ (candidate # Nothing) <=> (pc \in {"write_snapshot", "write_state"})
  /\ state_json # Nothing => snapshot # Nothing
  /\ run.now <= clock /\ run.attempt \in 0..Attempts
  /\ outcome # Nothing => outcome.at <= clock

Built == outcome # Nothing /\ outcome.status \notin {"failed", "uncaught", "expired"}

(* The evidence a build gets is the body its confirmation time is about,   *)
(* and what the cache has now, unless a commit was cut short since         *)
(* (update.py:225, 253, 266).                                              *)
EvidenceIsTheConfirmedFeed ==
  Built =>
    /\ outcome.rows = outcome.sha256
    /\ outcome.at < outcome.confirmed_at + MaxAge
    /\ ~torn => snapshot = outcome.rows /\ state_json.sha256 = outcome.rows

(* A confirmation is the server's word: what state.json comes to call      *)
(* confirmed at a time is what the server had when a run of that time      *)
(* asked, or what came of it, sent in full or by a 304 to the tag of the   *)
(* same body; never a body kept beside the tag of another                  *)
(* (update.py:181-199, 234-252).                                           *)
ConfirmedListsWereSent ==
  [][state_json' # state_json =>
       /\ state_json'.sha256 \in Received(answered)
       /\ state_json'.confirmed_at = run.now
       /\ snapshot = state_json'.sha256]_vars

(* A list of LargeFeed entries or more never gives way to one more than    *)
(* twice or less than half its size without --accept-large-change, unless  *)
(* empty lists are allowed, the URL is another, or a cut commit has made   *)
(* the old list unusable (update.py:238-242).                              *)
LargeChangesAreReviewed ==
  [][state_json' # state_json /\ state_json # Nothing /\ ~torn =>
       LET old == Entries[state_json.sha256]
           new == Entries[state_json'.sha256] IN
       \/ run.accept
       \/ state_json.url # state_json'.url
       \/ old < LargeFeed
       \/ new = 0 /\ AllowEmpty
       \/ new \in (old + 1) \div 2 .. 2 * old]_vars

(* A run finds no validated snapshot only when there is nothing to fall    *)
(* back on: none of this URL was ever committed, or a later commit was cut *)
(* short between its two files (update.py:217-228, 255-260).               *)
FailuresFallBackOnTheCache ==
  outcome # Nothing /\ outcome.status = "failed" =>
    state_json = Nothing \/ state_json.url # url \/ torn

(* Every started run ends: three attempts, then an outcome                 *)
(* (update.py:186-208).                                                    *)
RunsEnd == pc # "idle" ~> pc = "idle"

\* state.json names a snapshot of this URL, not yet too old for the last run.
Usable ==
  /\ state_json # Nothing /\ state_json.url = url
  /\ outcome.at < state_json.confirmed_at + MaxAge

(* tools/reputation/README.md:124: failed refreshes use a validated cache  *)
(* until its maximum age.  They do not when the run before was cut between *)
(* the two files of a new snapshot: the confirmed one is gone, and the     *)
(* whole update fails.                                                     *)
FailedRefreshesUseTheCache ==
  outcome # Nothing /\ outcome.status = "failed" => ~Usable
=============================================================================
