--------------------------- MODULE FeedCacheProofs ----------------------------
(***************************************************************************)
(* Proofs about FeedCache, for any bodies, URLs, ages and thresholds: what *)
(* the two cache files say of each other and of the run that is at work.   *)
(***************************************************************************)
EXTENDS FeedCache, TLAPS

Writing == {"write_snapshot", "write_state"}
Before == {"download", "write_snapshot", "conclude"}   \* files as at the start, or committed

Typed ==
  /\ clock \in 0..MaxTime
  /\ url \in Urls /\ upstream \in Bodies
  /\ snapshot \in Bodies \cup {Nothing} /\ body \in Bodies \cup {Nothing}
  /\ state_json \in State \cup {Nothing}
  /\ state \in State \cup {Nothing}
  /\ candidate \in State \cup {Nothing}
  /\ pc \in {"idle", "download", "write_snapshot", "write_state", "conclude"}
  /\ run \in [now : 0..MaxTime, accept : BOOLEAN, attempt : 0..Attempts]
  /\ run.now <= clock
  /\ pc = "download" => run.attempt < Attempts
  /\ torn \in BOOLEAN
  /\ health \in {"cached", "fresh", "not_modified", "stale"}
  /\ outcome # Nothing => pc = "idle" /\ outcome.at \in 0..clock

\* A tag is that of the body of which it is kept with what was received.
Tagged(s) == s # Nothing /\ s.tag # Nothing => s.sha256 \in Received(s.tag)

\* What the run holds: the state it loaded with its body, and a candidate
\* that is what came of the server's answer.
Held ==
  /\ (body = Nothing) <=> (state = Nothing)
  /\ state # Nothing => state.sha256 = body /\ state.url = url
  /\ Tagged(state) /\ Tagged(state_json) /\ Tagged(candidate)
  /\ pc = "idle" => state = Nothing
  /\ (candidate # Nothing) <=> pc \in Writing
  /\ candidate # Nothing =>
       /\ candidate.sha256 \in Received(answered)
       /\ candidate.confirmed_at = run.now /\ candidate.url = url

\* What the files are: a pair, except within a commit and after a cut one; and
\* the pair the run has loaded if it could.
Files ==
  /\ state_json # Nothing => snapshot # Nothing
  /\ ~torn /\ pc # "write_state" /\ state_json # Nothing => state_json.sha256 = snapshot
  /\ pc = "write_state" => snapshot = candidate.sha256
  /\ ~torn /\ pc \in Before /\ state # Nothing => snapshot = body
  /\ ~torn /\ pc # "idle" =>
       IF state_json # Nothing /\ state_json.url = url
       THEN state = state_json ELSE state = Nothing

\* The size guard, of the candidate that was let through.
Reviewed ==
  pc \in Writing /\ state # Nothing =>
    LET old == Entries[state.sha256]
        new == Entries[candidate.sha256] IN
    \/ run.accept
    \/ old < LargeFeed
    \/ new = 0 /\ AllowEmpty
    \/ 2 * new >= old /\ new <= 2 * old

\* What the last run gave the build.
Given == EvidenceIsTheConfirmedFeed /\ FailuresFallBackOnTheCache

IInv == Typed /\ Held /\ Files /\ Reviewed /\ Given

-----------------------------------------------------------------------------
(* Nothing is no state and no body, so that an absent file is told from    *)
(* one that is there (update.py:217, 234).                                 *)
LEMMA NothingIsNone == Nothing \notin State /\ Nothing \notin Bodies
<1>1. \A s \in State : DOMAIN s = {"url", "sha256", "confirmed_at", "tag"}
  BY DEF State
<1>2. DOMAIN Nothing = {"nothing"}
  BY DEF Nothing
<1>3. ASSUME Nothing \in State PROVE FALSE
  <2>1. DOMAIN Nothing = {"url", "sha256", "confirmed_at", "tag"}
    BY <1>1, <1>3
  <2>2. "url" \in {"nothing"}
    BY <1>2, <2>1
  <2>3. QED
    BY <2>2
<1>4. QED
  BY <1>3, FeedCacheAssumption

(* There is no cache and no outcome at first (update.py:213-217).          *)
LEMMA IInvStarts == Init => IInv
<1> SUFFICES ASSUME Init PROVE IInv
  OBVIOUS
<1>1. Typed
  <2>1. NoRun \in [now : 0..MaxTime, accept : BOOLEAN, attempt : 0..Attempts]
    BY FeedCacheAssumption DEF NoRun
  <2>2. run.now = 0 /\ clock = 0 /\ clock \in 0..MaxTime
    BY FeedCacheAssumption DEF Init, NoRun
  <2>3. torn \in BOOLEAN /\ run = NoRun
    BY DEF Init
  <2>4. pc = "idle" /\ outcome = Nothing /\ health = "cached" /\ url \in Urls /\ upstream \in Bodies
    BY DEF Init
  <2>5. snapshot = Nothing /\ body = Nothing /\ state_json = Nothing /\ state = Nothing
          /\ candidate = Nothing
    BY DEF Init
  <2>6. QED
    BY <2>1, <2>2, <2>3, <2>4, <2>5 DEF Typed
<1>2. Held /\ Files /\ Reviewed /\ Given
  BY DEF Init, Held, Tagged, Files, Reviewed, Given, Writing, Before,
     EvidenceIsTheConfirmedFeed, FailuresFallBackOnTheCache, Built
<1>3. QED
  BY <1>1, <1>2 DEF IInv

(* A run starts with the pair on disk, or with nothing if it does not fit  *)
(* (update.py:217-233).                                                    *)
LEMMA StartKeepsIInv == IInv /\ Start => IInv'
<1> SUFFICES ASSUME IInv, Start PROVE IInv'
  OBVIOUS
<1>1. PICK force \in BOOLEAN, accept \in BOOLEAN :
        LET loaded == IF CacheValid THEN state_json ELSE Nothing IN
        /\ run' = [now |-> clock, accept |-> accept, attempt |-> 0]
        /\ state' = loaded
        /\ body' = IF loaded = Nothing THEN Nothing ELSE snapshot
        /\ pc' = IF Due(loaded) \/ force THEN "download" ELSE "conclude"
  BY DEF Start
<1>2. /\ pc = "idle" /\ outcome' = Nothing /\ health' = "cached"
      /\ UNCHANGED <<clock, url, upstream, snapshot, state_json, candidate, answered, torn>>
  BY DEF Start
<1>3. pc' \in {"download", "conclude"}
  BY <1>1
<1>4. Typed'
  BY <1>1, <1>2, <1>3, FeedCacheAssumption DEF IInv, Typed
<1>5. Held'
  BY <1>1, <1>2, <1>3, NothingIsNone DEF IInv, Typed, Held, Files, Tagged, Writing, CacheValid
<1>6. Files'
  BY <1>1, <1>2, <1>3, NothingIsNone DEF IInv, Typed, Files, Before, CacheValid
<1>7. Reviewed' /\ Given'
  BY <1>2, <1>3 DEF Reviewed, Writing, Given, EvidenceIsTheConfirmedFeed,
     FailuresFallBackOnTheCache, Built
<1>8. QED
  BY <1>4, <1>5, <1>6, <1>7 DEF IInv

(* A refresh that fails leaves the run with what it had loaded, which is   *)
(* still on disk unless a commit was cut (update.py:255-258).              *)
LEMMA RefreshFailsKeepsIInv ==
  ASSUME IInv, RefreshFails, pc \in {"download", "write_snapshot", "write_state"},
         UNCHANGED <<clock, url, upstream, snapshot, state_json, state, body, outcome>>,
         run' \in [now : 0..MaxTime, accept : BOOLEAN, attempt : 0..Attempts],
         run'.now = run.now,
         torn' \in BOOLEAN, torn => torn', pc = "write_state" => torn'
  PROVE  IInv'
<1>1. pc' = "conclude" /\ candidate' = Nothing /\ outcome = Nothing /\ health' = "stale"
  BY DEF RefreshFails, IInv, Typed
<1>2. Typed'
  BY <1>1 DEF IInv, Typed
<1>3. Held'
  BY <1>1 DEF IInv, Held, Tagged, Writing
<1>4. Files'
  BY <1>1 DEF IInv, Files, Before
<1>5. Reviewed' /\ Given'
  BY <1>1 DEF Reviewed, Writing, Given, EvidenceIsTheConfirmedFeed,
     FailuresFallBackOnTheCache, Built
<1>6. QED
  BY <1>2, <1>3, <1>4, <1>5 DEF IInv

(* What arrives of a body is a body (update.py:193).                       *)
LEMMA ReceivedIsABody ==
  ASSUME NEW sent \in Bodies, NEW received \in Received(sent)
  PROVE  received \in Bodies
BY FeedCacheAssumption DEF Received

(* An answer that is accepted becomes the candidate (update.py:234-250).   *)
LEMMA CandidateKeepsIInv ==
  ASSUME IInv, pc = "download", pc' = "write_snapshot", answered' = upstream,
         NEW received \in Received(upstream), received \in Bodies,
         UNCHANGED <<clock, url, upstream, snapshot, state_json, run, state, body,
                     outcome, torn>>,
         candidate' \in State, candidate'.url = url, candidate'.sha256 = received,
         candidate'.confirmed_at = run.now, candidate'.tag \in {upstream, Nothing},
         health' \in {"fresh", "not_modified"}, Acceptable(received)
  PROVE  IInv'
<1>1. outcome = Nothing
  BY DEF IInv, Typed
<1>2. Typed'
  BY <1>1 DEF IInv, Typed
<1>3. Held'
  BY NothingIsNone DEF IInv, Held, Tagged, Writing
<1>4. Files'
  BY DEF IInv, Files, Before
<1>5. Reviewed'
  <2>1. ASSUME state # Nothing, ~run.accept, ~(Entries[state.sha256] < LargeFeed),
               ~(Entries[received] = 0 /\ AllowEmpty)
        PROVE  2 * Entries[received] >= Entries[state.sha256]
                 /\ Entries[received] <= 2 * Entries[state.sha256]
    <3>1. state.sha256 \in Bodies
      BY <2>1 DEF IInv, Typed, State
    <3>2. Entries[state.sha256] \in Nat /\ LargeFeed \in Nat
      BY <3>1, FeedCacheAssumption
    <3>3. Entries[state.sha256] >= LargeFeed
      BY <2>1, <3>2
    <3>4. QED
      BY <2>1, <3>3 DEF Acceptable
  <2>2. QED
    BY <2>1 DEF Reviewed
<1>6. Given'
  BY <1>1 DEF Given, EvidenceIsTheConfirmedFeed, FailuresFallBackOnTheCache, Built
<1>7. QED
  BY <1>2, <1>3, <1>4, <1>5, <1>6 DEF IInv

(* The download gives an acceptable body, the word that the tagged one is  *)
(* still current, or an error (update.py:181-208, 233-242).                *)
LEMMA DownloadKeepsIInv ==
  IInv /\ (AnswerBody \/ AnswerNotModified \/ TransientError \/ PermanentError) => IInv'
<1> SUFFICES ASSUME IInv, AnswerBody \/ AnswerNotModified \/ TransientError \/ PermanentError
             PROVE IInv'
  OBVIOUS
<1>1. /\ run \in [now : 0..MaxTime, accept : BOOLEAN, attempt : 0..Attempts]
      /\ torn \in BOOLEAN /\ url \in Urls /\ upstream \in Bodies
  BY DEF IInv, Typed
<1>2. CASE AnswerBody
  <2>1. /\ pc = "download" /\ answered' = upstream
        /\ UNCHANGED <<clock, url, upstream, snapshot, state_json, run, state, body,
                       outcome, torn>>
    BY <1>2 DEF AnswerBody
  <2>2. CASE RefreshFails
    BY <1>1, <2>1, <2>2, RefreshFailsKeepsIInv
  <2>3. ASSUME NEW received \in Received(upstream), Acceptable(received),
               pc' = "write_snapshot", health' = "fresh",
               \E tag \in {upstream, Nothing} :
                 candidate' = [url |-> url, sha256 |-> received,
                               confirmed_at |-> run.now, tag |-> tag]
        PROVE  IInv'
    <3>1. PICK tag \in {upstream, Nothing} :
            candidate' = [url |-> url, sha256 |-> received,
                          confirmed_at |-> run.now, tag |-> tag]
      BY <2>3
    <3>2. received \in Bodies
      BY <1>1, ReceivedIsABody
    <3>3. candidate' \in State
      BY <1>1, <3>1, <3>2 DEF State
    <3>4. QED
      BY <2>1, <2>3, <3>1, <3>2, <3>3, CandidateKeepsIInv
  <2>4. QED
    BY <1>2, <2>2, <2>3 DEF AnswerBody
<1>3. CASE AnswerNotModified
  <2>1. /\ pc = "download" /\ pc' = "write_snapshot" /\ answered' = upstream
        /\ health' = "not_modified"
        /\ state # Nothing /\ state.tag = upstream
        /\ candidate' = [state EXCEPT !.sha256 = body, !.confirmed_at = run.now]
        /\ UNCHANGED <<clock, url, upstream, snapshot, state_json, run, state, body,
                       outcome, torn>>
    BY <1>3 DEF AnswerNotModified
  <2>2. state \in State /\ state.url = url /\ state.sha256 = body /\ upstream # Nothing
    BY <1>1, <2>1, NothingIsNone DEF IInv, Typed, Held
  <2>3. body \in Received(upstream) /\ body \in Bodies
    BY <2>1, <2>2 DEF IInv, Held, Tagged, State
  <2>4. /\ candidate' \in State /\ candidate'.url = url /\ candidate'.sha256 = body
        /\ candidate'.confirmed_at = run.now /\ candidate'.tag = upstream
    BY <1>1, <2>1, <2>2, <2>3 DEF State
  <2>5. Acceptable(body)
    <3>1. Entries[body] \in Nat
      BY <2>3, FeedCacheAssumption
    <3>2. QED
      BY <2>2, <3>1 DEF Acceptable
  <2>6. QED
    BY <2>1, <2>3, <2>4, <2>5, CandidateKeepsIInv
<1>4. CASE TransientError
  <2>1. /\ pc = "download" /\ run' = [run EXCEPT !.attempt = @ + 1]
        /\ UNCHANGED <<clock, url, upstream, snapshot, state_json, state, body,
                       outcome, answered, torn>>
    BY <1>4 DEF TransientError
  <2>2. run' \in [now : 0..MaxTime, accept : BOOLEAN, attempt : 0..Attempts]
          /\ run'.now = run.now /\ run'.accept = run.accept /\ run'.attempt = run.attempt + 1
    BY <1>1, <2>1, FeedCacheAssumption DEF IInv, Typed
  <2>3. CASE RefreshFails
    BY <1>1, <2>1, <2>2, <2>3, RefreshFailsKeepsIInv
  <2>4. CASE run.attempt + 1 < Attempts /\ UNCHANGED <<pc, health, candidate>>
    <3>1. Typed'
      BY <2>1, <2>2, <2>4 DEF IInv, Typed
    <3>2. Held' /\ Files' /\ Reviewed' /\ Given'
      BY <2>1, <2>2, <2>4 DEF IInv, Held, Tagged, Files, Reviewed, Given,
         EvidenceIsTheConfirmedFeed, FailuresFallBackOnTheCache, Built
    <3>3. QED
      BY <3>1, <3>2 DEF IInv
  <2>5. QED
    BY <1>4, <2>3, <2>4 DEF TransientError
<1>5. CASE PermanentError
  BY <1>1, <1>5, RefreshFailsKeepsIInv DEF PermanentError
<1>6. QED
  BY <1>2, <1>3, <1>4, <1>5

(* The commit: the snapshot first, then the state that fits it, either of  *)
(* which may fail (update.py:251-254).                                     *)
LEMMA CommitKeepsIInv == IInv /\ (WriteSnapshot \/ WriteState \/ WriteFails) => IInv'
<1> SUFFICES ASSUME IInv, WriteSnapshot \/ WriteState \/ WriteFails PROVE IInv'
  OBVIOUS
<1>1. outcome = Nothing
  BY DEF IInv, Typed, WriteSnapshot, WriteState, WriteFails
<1>2. candidate # Nothing /\ candidate \in State /\ candidate.sha256 \in Bodies
  BY DEF IInv, Typed, Held, Writing, State, WriteSnapshot, WriteState, WriteFails,
     RefreshFails
<1>3. CASE WriteSnapshot
  <2>1. Typed'
    BY <1>2, <1>3 DEF WriteSnapshot, memory, IInv, Typed
  <2>2. Held' /\ Reviewed'
    BY <1>3 DEF WriteSnapshot, memory, IInv, Held, Reviewed, Tagged, Writing
  <2>3. Files'
    BY <1>2, <1>3, NothingIsNone DEF WriteSnapshot, memory, IInv, Files, Before
  <2>4. Given'
    BY <1>1, <1>3 DEF WriteSnapshot, Given, EvidenceIsTheConfirmedFeed,
       FailuresFallBackOnTheCache, Built
  <2>5. QED
    BY <2>1, <2>2, <2>3, <2>4 DEF IInv
<1>4. CASE WriteState
  <2>1. Typed'
    <3>1. torn' \in BOOLEAN
      BY <1>4 DEF WriteState
    <3>2. QED
      BY <1>1, <1>2, <1>4, <3>1 DEF WriteState, IInv, Typed
  <2>2. Held' /\ Reviewed'
    BY <1>2, <1>4, NothingIsNone DEF WriteState, IInv, Held, Reviewed, Tagged, Writing
  <2>3. Files'
    BY <1>2, <1>4, NothingIsNone DEF WriteState, IInv, Held, Files, Before
  <2>4. Given'
    BY <1>1, <1>4 DEF WriteState, Given, EvidenceIsTheConfirmedFeed,
       FailuresFallBackOnTheCache, Built
  <2>5. QED
    BY <2>1, <2>2, <2>3, <2>4 DEF IInv
<1>5. CASE WriteFails
  <2>1. torn' \in BOOLEAN /\ (torn => torn') /\ (pc = "write_state" => torn')
    BY <1>5 DEF WriteFails, IInv, Typed
  <2>2. run' = run /\ run \in [now : 0..MaxTime, accept : BOOLEAN, attempt : 0..Attempts]
    BY <1>5 DEF WriteFails, IInv, Typed
  <2>3. QED
    BY <1>5, <2>1, <2>2, RefreshFailsKeepsIInv DEF WriteFails
<1>6. QED
  BY <1>3, <1>4, <1>5

(* A run that ends, by its return or its death, leaves the files as they   *)
(* are, torn if it was cut between them (update.py:259-283).               *)
LEMMA ForgottenKeepsFiles ==
  ASSUME IInv, pc # "idle", Forgotten,
         UNCHANGED <<clock, url, upstream, snapshot, state_json>>,
         torn' \in BOOLEAN, torn => torn', pc = "write_state" => torn',
         outcome' # Nothing => outcome'.at \in 0..clock
  PROVE  Typed' /\ Held' /\ Files' /\ Reviewed'
<1>1. /\ pc' = "idle" /\ run' = NoRun /\ state' = Nothing /\ body' = Nothing
      /\ candidate' = Nothing /\ health' = "cached"
  BY DEF Forgotten
<1>2. Typed'
  <2>1. NoRun \in [now : 0..MaxTime, accept : BOOLEAN, attempt : 0..Attempts] /\ NoRun.now = 0
    BY FeedCacheAssumption DEF NoRun
  <2>2. clock \in 0..MaxTime /\ 0 <= clock
    BY DEF IInv, Typed
  <2>3. QED
    BY <1>1, <2>1, <2>2 DEF IInv, Typed
<1>3. Held' /\ Reviewed'
  BY <1>1 DEF IInv, Held, Tagged, Writing, Reviewed
<1>4. Files'
  BY <1>1 DEF IInv, Files, Before
<1>5. QED
  BY <1>2, <1>3, <1>4

(* What a run gives the build is the body its state is about, and it fails *)
(* only for want of a pair (update.py:259-272).                            *)
LEMMA ConcludeKeepsIInv == IInv /\ Conclude => IInv'
<1> SUFFICES ASSUME IInv, Conclude PROVE IInv'
  OBVIOUS
<1>1. /\ pc = "conclude" /\ Forgotten
      /\ UNCHANGED <<clock, url, upstream, snapshot, state_json, torn>>
      /\ run.now \in 0..clock /\ torn \in BOOLEAN
  BY DEF Conclude, IInv, Typed
<1>2. CASE state = Nothing
  <2>1. outcome' = [status |-> "failed", at |-> run.now]
    BY <1>2 DEF Conclude
  <2>2. outcome'.status = "failed" /\ outcome'.at = run.now
    BY <2>1
  <2>3. Given'
    BY <1>1, <1>2, <2>2, NothingIsNone DEF IInv, Files, Given,
       EvidenceIsTheConfirmedFeed, FailuresFallBackOnTheCache, Built
  <2>4. QED
    BY <1>1, <2>2, <2>3, ForgottenKeepsFiles DEF IInv
<1>3. CASE state # Nothing /\ Expired(state)
  <2>1. outcome' = [status |-> "expired", at |-> run.now]
    BY <1>3 DEF Conclude
  <2>2. outcome'.status = "expired" /\ outcome'.at = run.now
    BY <2>1
  <2>3. Given'
    BY <2>2 DEF Given, EvidenceIsTheConfirmedFeed, FailuresFallBackOnTheCache, Built
  <2>4. QED
    BY <1>1, <2>2, <2>3, ForgottenKeepsFiles DEF IInv
<1>4. CASE state # Nothing /\ ~Expired(state)
  <2>1. outcome' = [status |-> health, at |-> run.now, rows |-> body,
                    sha256 |-> state.sha256, confirmed_at |-> state.confirmed_at]
    BY <1>4 DEF Conclude
  <2>2. /\ outcome'.status = health /\ outcome'.at = run.now /\ outcome'.rows = body
        /\ outcome'.sha256 = state.sha256 /\ outcome'.confirmed_at = state.confirmed_at
    BY <2>1
  <2>3. state.sha256 = body /\ health \notin {"failed", "uncaught"}
    BY <1>4 DEF IInv, Held, Typed
  <2>4. run.now < state.confirmed_at + MaxAge
    BY <1>1, <1>4, FeedCacheAssumption DEF IInv, Typed, State, Expired
  <2>5. ~torn => snapshot = body /\ state_json = state
    BY <1>1, <1>4 DEF IInv, Files, Before
  <2>6. Given'
    BY <1>1, <2>2, <2>3, <2>4, <2>5 DEF Given, EvidenceIsTheConfirmedFeed,
       FailuresFallBackOnTheCache, Built
  <2>7. QED
    BY <1>1, <2>2, <2>6, ForgottenKeepsFiles DEF IInv
<1>5. QED
  BY <1>2, <1>3, <1>4

(* An error nobody catches ends the run without evidence, and the files    *)
(* are what they were (update.py:204, 255).                                *)
LEMMA UncaughtKeepsIInv == IInv /\ UncaughtError => IInv'
<1> SUFFICES ASSUME IInv, UncaughtError PROVE IInv'
  OBVIOUS
<1>1. /\ pc = "download" /\ Forgotten
      /\ UNCHANGED <<clock, url, upstream, snapshot, state_json, torn>>
      /\ run.now \in 0..clock /\ torn \in BOOLEAN
  BY DEF UncaughtError, IInv, Typed
<1>2. outcome' = [status |-> "uncaught", at |-> run.now]
  BY DEF UncaughtError
<1>3. outcome'.status = "uncaught" /\ outcome'.at = run.now
  BY <1>2
<1>4. Given'
  BY <1>3 DEF Given, EvidenceIsTheConfirmedFeed, FailuresFallBackOnTheCache, Built
<1>5. QED
  BY <1>1, <1>3, <1>4, ForgottenKeepsFiles DEF IInv

(* Between and beside the runs: a kill, the clock, the feed's server, the  *)
(* operator (update.py:114-115, 211-283).                                  *)
LEMMA EnvironmentKeepsIInv ==
  IInv /\ (Killed \/ Tick \/ UpstreamChanges \/ Reconfigure) => IInv'
<1> SUFFICES ASSUME IInv, Killed \/ Tick \/ UpstreamChanges \/ Reconfigure PROVE IInv'
  OBVIOUS
<1>1. CASE Killed
  <2>1. /\ pc # "idle" /\ Forgotten /\ outcome = Nothing
        /\ UNCHANGED <<clock, url, upstream, snapshot, state_json, outcome>>
    BY <1>1 DEF Killed, IInv, Typed
  <2>2. torn' \in BOOLEAN /\ (torn => torn') /\ (pc = "write_state" => torn')
    BY <1>1 DEF Killed, IInv, Typed
  <2>3. Given'
    BY <2>1 DEF Given, EvidenceIsTheConfirmedFeed, FailuresFallBackOnTheCache, Built
  <2>4. QED
    BY <2>1, <2>2, <2>3, ForgottenKeepsFiles DEF IInv
<1>2. CASE Tick
  <2>1. Typed'
    BY <1>2, FeedCacheAssumption DEF Tick, memory, IInv, Typed
  <2>2. QED
    BY <1>2, <2>1 DEF Tick, memory, IInv, Held, Tagged, Files, Reviewed, Given,
       EvidenceIsTheConfirmedFeed, FailuresFallBackOnTheCache, Built
<1>3. CASE UpstreamChanges
  <2>1. Typed'
    BY <1>3 DEF UpstreamChanges, memory, IInv, Typed
  <2>2. QED
    BY <1>3, <2>1 DEF UpstreamChanges, memory, IInv, Held, Tagged, Files, Reviewed, Given,
       EvidenceIsTheConfirmedFeed, FailuresFallBackOnTheCache, Built
<1>4. CASE Reconfigure
  <2>1. state = Nothing /\ candidate = Nothing /\ pc = "idle" /\ outcome' = Nothing
    BY <1>4 DEF Reconfigure, IInv, Held, Typed, Writing, Files
  <2>2. Typed' /\ Held'
    BY <1>4, <2>1 DEF Reconfigure, memory, IInv, Typed, Held, Tagged
  <2>3. Files' /\ Reviewed' /\ Given'
    BY <1>4, <2>1 DEF Reconfigure, memory, IInv, Files, Before, Reviewed, Writing, Given,
       EvidenceIsTheConfirmedFeed, FailuresFallBackOnTheCache, Built
  <2>4. QED
    BY <2>2, <2>3 DEF IInv
<1>5. QED
  BY <1>1, <1>2, <1>3, <1>4

(* Every step keeps the invariant (update.py:211-283).                     *)
LEMMA IInvKept == IInv /\ [Next]_vars => IInv'
<1>1. IInv /\ UNCHANGED vars => IInv'
  BY DEF vars, memory, IInv, Typed, Held, Tagged, Files, Reviewed, Given,
     EvidenceIsTheConfirmedFeed, FailuresFallBackOnTheCache, Built
<1>2. QED
  BY <1>1, StartKeepsIInv, DownloadKeepsIInv, CommitKeepsIInv, ConcludeKeepsIInv,
     UncaughtKeepsIInv, EnvironmentKeepsIInv DEF Next, RunStep

-----------------------------------------------------------------------------
(* For any bodies, URLs and ages: types, and what is held where            *)
(* (update.py:211-283).                                                    *)
THEOREM TypeCorrect == Spec => []TypeOK
<1>1. IInv => TypeOK
  BY DEF IInv, Typed, Held, Files, Writing, TypeOK
<1>2. QED
  BY <1>1, IInvStarts, IInvKept, PTL DEF Spec

(* For any bodies, URLs and ages, and wherever runs are killed: what the   *)
(* build gets is the body its confirmation is about, not yet too old       *)
(* (update.py:225, 253, 261-266).                                          *)
THEOREM EvidenceConfirmed == Spec => []EvidenceIsTheConfirmedFeed
<1>1. IInv => EvidenceIsTheConfirmedFeed
  BY DEF IInv, Given
<1>2. QED
  BY <1>1, IInvStarts, IInvKept, PTL DEF Spec

(* For any bodies, URLs and ages: a run fails only for want of a snapshot, *)
(* or after a commit that was cut (update.py:217-228, 255-260).            *)
THEOREM FailuresExplained == Spec => []FailuresFallBackOnTheCache
<1>1. IInv => FailuresFallBackOnTheCache
  BY DEF IInv, Given
<1>2. QED
  BY <1>1, IInvStarts, IInvKept, PTL DEF Spec

(* Only a commit replaces state.json (update.py:252).                      *)
LEMMA OnlyCommitsConfirm ==
  ASSUME [Next]_vars, state_json' # state_json
  PROVE  WriteState
BY DEF Next, RunStep, vars, Start, AnswerBody, AnswerNotModified, TransientError,
       PermanentError, UncaughtError, WriteSnapshot, WriteFails, Conclude, Killed, Tick,
       UpstreamChanges, Reconfigure

(* For any bodies and URLs, and wherever connections are cut: what is kept *)
(* as confirmed is what came of the body the server had when this run      *)
(* asked (update.py:181-199, 234-252).                                     *)
THEOREM ConfirmationsWereSent == Spec => ConfirmedListsWereSent
<1>1. IInv /\ [Next]_vars =>
        [state_json' # state_json =>
           /\ state_json'.sha256 \in Received(answered)
           /\ state_json'.confirmed_at = run.now
           /\ snapshot = state_json'.sha256]_vars
  <2>1. ASSUME IInv, WriteState
        PROVE  /\ state_json'.sha256 \in Received(answered)
               /\ state_json'.confirmed_at = run.now
               /\ snapshot = state_json'.sha256
    BY <2>1 DEF WriteState, IInv, Held, Files, Writing
  <2>2. QED
    BY <2>1, OnlyCommitsConfirm
<1>2. QED
  BY <1>1, IInvStarts, IInvKept, PTL DEF Spec, ConfirmedListsWereSent

(* For any sizes and any threshold: a large list gives way only to one of  *)
(* half to twice its size, without leave (update.py:238-242).              *)
THEOREM LargeChangesReviewed == Spec => LargeChangesAreReviewed
<1>1. ASSUME IInv, WriteState, state_json # Nothing, ~torn
      PROVE  LET old == Entries[state_json.sha256]
                 new == Entries[state_json'.sha256] IN
             \/ run.accept
             \/ state_json.url # state_json'.url
             \/ old < LargeFeed
             \/ new = 0 /\ AllowEmpty
             \/ new \in (old + 1) \div 2 .. 2 * old
  <2>1. state_json' = candidate /\ candidate.url = url /\ pc = "write_state"
          /\ candidate \in State
    BY <1>1 DEF WriteState, IInv, Held, Typed, Writing
  <2>2. CASE state_json.url = url
    <3>1. state = state_json
      BY <1>1, <2>1, <2>2 DEF IInv, Files
    <3>2. state_json.sha256 \in Bodies /\ candidate.sha256 \in Bodies
      BY <1>1, <2>1 DEF IInv, Typed, State
    <3>3. Entries[state_json.sha256] \in Nat /\ Entries[candidate.sha256] \in Nat
      BY <3>2, FeedCacheAssumption
    <3>4. ASSUME NEW old \in Nat, NEW new \in Nat, 2 * new >= old, new <= 2 * old
          PROVE  new \in (old + 1) \div 2 .. 2 * old
      BY <3>4
    <3>5. QED
      BY <1>1, <2>1, <3>1, <3>3, <3>4 DEF IInv, Reviewed, Writing
  <2>3. QED
    BY <2>1, <2>2
<1>2. IInv /\ [Next]_vars =>
        [state_json' # state_json /\ state_json # Nothing /\ ~torn =>
           LET old == Entries[state_json.sha256]
               new == Entries[state_json'.sha256] IN
           \/ run.accept
           \/ state_json.url # state_json'.url
           \/ old < LargeFeed
           \/ new = 0 /\ AllowEmpty
           \/ new \in (old + 1) \div 2 .. 2 * old]_vars
  BY <1>1, OnlyCommitsConfirm
<1>3. QED
  BY <1>2, IInvStarts, IInvKept, PTL DEF Spec, LargeChangesAreReviewed
=============================================================================
