---------------------------- MODULE Publication -----------------------------
(***************************************************************************)
(* The updaters of one output and the four files they publish,             *)
(* tools/reputation/update.py:54-79 and 312-377: the database, its         *)
(* manifest, and a `.previous` copy of each.  A run takes the lock or      *)
(* fails, gathers the feeds, and replaces the files one after the other;   *)
(* it may fail or be killed between any two steps, which gives the lock    *)
(* back.                                                                   *)
(*                                                                         *)
(* A build is its number, in the order in which runs took their `now`; the *)
(* digest in a manifest is the number of the build it was made for.        *)
(***************************************************************************)
EXTENDS Integers, FiniteSets

CONSTANTS
  Updaters,      \* processes the scheduler or an operator starts
  Sources,       \* the configured feeds
  MaxBuilds      \* bound: runs that get the lock

ASSUME PublicationAssumption == IsFiniteSet(Updaters) /\ MaxBuilds \in Nat

NoBuild == 0
Status == {"usable", "expired", "failed", "disabled"}
File == {"db", "manifest", "previous_db", "previous_manifest"}

VARIABLES
  files,       \* the build in each file; NoBuild when it does not exist
  lock,        \* who holds the lock: at most one
  pc,          \* per updater, its next step
  building,    \* per updater, its build
  builds,      \* the number of the last build
  before,      \* history: what the database was before it was replaced last
  cut          \* history: "no" interruption, a "publish" that left the new
               \* database without its manifest, or one in the "past"

vars == <<files, lock, pc, building, builds, before, cut>>

Init ==
  /\ files = [f \in File |-> NoBuild]
  /\ lock = {}
  /\ pc = [u \in Updaters |-> "idle"]
  /\ building = [u \in Updaters |-> NoBuild]
  /\ builds = 0
  /\ before = NoBuild
  /\ cut = "no"

Go(u, step) == pc' = [pc EXCEPT ![u] = step]

\* Mutated: the lock is not looked at.
AcquireBusy(u) ==
  /\ pc[u] = "idle"
  /\ builds < MaxBuilds
  /\ lock' = lock \cup {u}
  /\ builds' = builds + 1
  /\ building' = [building EXCEPT ![u] = builds']
  /\ Go(u, "gather")
  /\ UNCHANGED <<files, before, cut>>

\* LOCK_NB: a second updater does not wait, its run fails and leaves no trace.
Acquire(u) ==
  /\ pc[u] = "idle"
  /\ builds < MaxBuilds
  /\ lock = {}
  /\ lock' = {u}
  /\ builds' = builds + 1
  /\ building' = [building EXCEPT ![u] = builds']
  /\ Go(u, "gather")
  /\ UNCHANGED <<files, before, cut>>

\* Mutated: the lock outlives a run that fails.
ReleasedOnSuccess(u) ==
  /\ lock' = IF pc[u] = "release" THEN lock \ {u} ELSE lock
  /\ building' = [building EXCEPT ![u] = NoBuild]
  /\ Go(u, "idle")

\* The end of `with lock(...)`, by return, exception or death.
Released(u) ==
  /\ lock' = lock \ {u}
  /\ building' = [building EXCEPT ![u] = NoBuild]
  /\ Go(u, "idle")

\* A source without a snapshot fails the run, and so do sources that are all
\* expired or disabled: the published files stay what they are.
Gather(u) ==
  /\ pc[u] = "gather"
  /\ \E status \in [Sources -> Status] :
       IF (\E s \in Sources : status[s] = "failed")
            \/ \A s \in Sources : status[s] \in {"expired", "disabled"}
       THEN Released(u)
       ELSE /\ Go(u, IF files["db"] = NoBuild THEN "replace_db" ELSE "keep_db")
            /\ UNCHANGED <<lock, building>>
  /\ UNCHANGED <<files, builds, before, cut>>

\* Mutated: the previous manifest is left as it is.
KeepDbOnly(u) ==
  /\ pc[u] = "keep_db"
  /\ files' = [files EXCEPT !["previous_db"] = files["db"]]
  /\ Go(u, "replace_db")
  /\ UNCHANGED <<lock, building, builds, before, cut>>

KeepDb(u) ==
  /\ pc[u] = "keep_db"
  /\ files' = [files EXCEPT !["previous_db"] = files["db"]]
  /\ Go(u, IF files["manifest"] = NoBuild THEN "replace_db" ELSE "keep_manifest")
  /\ UNCHANGED <<lock, building, builds, before, cut>>

KeepManifest(u) ==
  /\ pc[u] = "keep_manifest"
  /\ files' = [files EXCEPT !["previous_manifest"] = files["manifest"]]
  /\ Go(u, "replace_db")
  /\ UNCHANGED <<lock, building, builds, before, cut>>

\* The temporary file is complete, verified and synced before its rename.
ReplaceDb(u) ==
  /\ pc[u] = "replace_db"
  /\ before' = files["db"]
  /\ files' = [files EXCEPT !["db"] = building[u]]
  /\ Go(u, "replace_manifest")
  /\ UNCHANGED <<lock, building, builds, cut>>

ReplaceManifest(u) ==
  /\ pc[u] = "replace_manifest"
  /\ files' = [files EXCEPT !["manifest"] = building[u]]
  /\ Go(u, "release")
  /\ cut' = IF cut = "publish" THEN "past" ELSE cut
  /\ UNCHANGED <<lock, building, builds, before>>

Release(u) ==
  /\ pc[u] = "release"
  /\ Released(u)
  /\ UNCHANGED <<files, builds, before, cut>>

\* A step fails or the process is killed before it: every file is what it
\* was, because each is replaced by one rename.
Interrupted(u) ==
  /\ pc[u] \notin {"idle", "release"}
  /\ Released(u)
  /\ cut' = IF pc[u] = "gather" THEN cut
            ELSE IF pc[u] = "replace_manifest" \/ cut = "publish" THEN "publish"
            ELSE "past"
  /\ UNCHANGED <<files, builds, before>>

Step(u) ==
  \/ Gather(u) \/ KeepDb(u) \/ KeepManifest(u)
  \/ ReplaceDb(u) \/ ReplaceManifest(u) \/ Release(u)

Next == \E u \in Updaters : Acquire(u) \/ Step(u) \/ Interrupted(u)

\* A run that has the lock goes on: every step returns or raises.
Spec == Init /\ [][Next]_vars /\ \A u \in Updaters : WF_vars(Step(u))

-----------------------------------------------------------------------------
TypeOK ==
  /\ files \in [File -> 0..builds]
  /\ builds \in 0..MaxBuilds /\ before \in 0..builds
  /\ \A u \in Updaters : (u \in lock) <=> (pc[u] # "idle")
  /\ \A u \in Updaters : (building[u] # NoBuild) <=> (u \in lock)
  /\ files["manifest"] # NoBuild => files["db"] # NoBuild

(* What a run publishes is never replaced by a run that looked at the      *)
(* feeds earlier, however the runs overlap (update.py:361-362).            *)
NewerBuildsStay ==
  [][\A f \in File : files[f] # files'[f] => files'[f] > files[f]]_vars

(* Outside a run the previous database is the one published before the     *)
(* present one, or, after a publication that was interrupted, a copy of    *)
(* the present one (update.py:339-347).                                    *)
PreviousIsThePriorBuild ==
  lock = {} =>
    \/ files["previous_db"] = before
    \/ cut # "no" /\ files["previous_db"] = files["db"]

(* Without an interruption there is a database with its own manifest at    *)
(* every moment once the first was published, be it the present pair or    *)
(* the previous one; outside a run the present pair fits unless the last   *)
(* publication was cut short (update.py:339-348).                          *)
APairFits ==
  /\ cut = "no" /\ files["manifest"] # NoBuild =>
       \/ files["manifest"] = files["db"]
       \/ files["previous_manifest"] = files["previous_db"]
  /\ cut = "no" /\ lock = {} => files["previous_manifest"] = files["previous_db"]
  /\ cut # "publish" /\ lock = {} => files["manifest"] = files["db"]

(* A lock file is no lock: whatever becomes of the run that has the lock,  *)
(* the next one gets it (update.py:68-79).                                 *)
LockIsReleased == \A u \in Updaters : u \in lock ~> lock = {}
=============================================================================
