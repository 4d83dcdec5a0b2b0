-------------------------- MODULE PublicationProofs ---------------------------
(***************************************************************************)
(* Proofs about a run of the updater: for every set of networks,           *)
(* overlapping as they may be, and every size of the address space, that   *)
(* the sweep of Networks gives each address exactly the evidence of the    *)
(* networks that hold it; and about Publication, for any updaters and any  *)
(* number of builds, and Build, which publishes only as Publication does.  *)
(***************************************************************************)
EXTENDS Build, TLAPS

-----------------------------------------------------------------------------
(* The sweep.                                                              *)

HeldBy(a) == {e \in entries : Holds(e, a)}

\* What the sweep has passed is final, what is ahead of it is untouched, and
\* the active entries are those that hold the address it is at.
SweepInv ==
  /\ entries \in SUBSET Entry
  /\ previous \in Int /\ previous >= -1
  /\ active = {e \in entries : e.first <= previous /\ previous < End(e)}
  /\ database \in [Address -> SUBSET Entry]
  /\ \A a \in Address : a < previous => database[a] = HeldBy(a)
  /\ \A a \in Address : a >= previous => database[a] = {}

(* Where a network begins and ends are integers, the end not before the    *)
(* beginning (update.py:296-297).                                          *)
LEMMA EntryTyping ==
  ASSUME NEW e \in Entry
  PROVE  /\ e.first \in Int /\ e.first >= 0 /\ e.last \in Int /\ e.first <= e.last
         /\ e.last <= LastAddress /\ End(e) = e.last + 1
BY NetworksAssumption DEF Entry, Address, End

(* Between two neighbouring positions nothing begins or ends, so that what *)
(* is active at the first holds exactly the addresses up to the second     *)
(* (update.py:300-304).                                                    *)
LEMMA NothingInBetween ==
  ASSUME entries \in SUBSET Entry, previous \in Int,
         NEW p \in Left, \A q \in Left : p <= q,
         NEW a \in Address, previous <= a, a < p
  PROVE  HeldBy(a) = {e \in entries : e.first <= previous /\ previous < End(e)}
<1>1. SUFFICES ASSUME NEW e \in entries
               PROVE  Holds(e, a) <=> e.first <= previous /\ previous < End(e)
  BY DEF HeldBy
<1>2. e.first \in Int /\ e.last \in Int /\ End(e) = e.last + 1
  BY EntryTyping
<1>3. a \in Int /\ p \in Int
  <2>1. \A x \in entries : x.first \in Int /\ End(x) \in Int
    BY EntryTyping
  <2>2. QED
    BY <2>1, NetworksAssumption DEF Left, Positions, Address
<1>4. e.first > previous => e.first >= p
  BY DEF Left, Positions
<1>5. End(e) > previous => End(e) >= p
  BY DEF Left, Positions
<1>6. QED
  BY <1>2, <1>3, <1>4, <1>5 DEF Holds

(* Before the first position nothing is active and nothing inserted        *)
(* (update.py:298-299).                                                    *)
LEMMA SweepStarts == SweepInit => SweepInv
<1>1. SUFFICES ASSUME NEW es \in SUBSET Entry, SweepOf(es) PROVE SweepInv
  BY DEF SweepInit
<1>2. entries = es /\ previous = -1 /\ active = {} /\ database = Empty
  BY <1>1 DEF SweepOf
<1>3. active = {e \in entries : e.first <= previous /\ previous < End(e)}
  <2>1. \A e \in entries : ~(e.first <= -1)
    BY <1>2, EntryTyping
  <2>2. QED
    BY <1>2, <2>1
<1>4. \A a \in Address : database[a] = {} /\ ~(a < previous)
  BY <1>2, NetworksAssumption DEF Empty, Address
<1>5. database \in [Address -> SUBSET Entry]
  BY <1>2 DEF Empty
<1>6. QED
  BY <1>2, <1>3, <1>4, <1>5 DEF SweepInv

(* A position of the loop inserts its range with the evidence that holds   *)
(* it, and leaves active what holds the address it reached                 *)
(* (update.py:300-309).                                                    *)
LEMMA SweepMovesOn == SweepInv /\ Sweep => SweepInv'
<1>1. SUFFICES ASSUME SweepInv, Sweep PROVE SweepInv'
  OBVIOUS
<1>2. PICK p \in Left :
        /\ \A q \in Left : p <= q
        /\ database' = [a \in Address |->
             IF active # {} /\ previous <= a /\ a < p THEN active ELSE database[a]]
        /\ active' = {e \in active : End(e) # p} \cup {e \in entries : e.first = p}
        /\ previous' = p
        /\ UNCHANGED entries
  BY <1>1 DEF Sweep
<1>3. /\ entries \in SUBSET Entry /\ previous \in Int /\ previous >= -1
      /\ active = {e \in entries : e.first <= previous /\ previous < End(e)}
      /\ database \in [Address -> SUBSET Entry]
  BY <1>1 DEF SweepInv
<1>4. p \in Int /\ p > previous
  <2>1. \A x \in entries : x.first \in Int /\ End(x) \in Int
    BY <1>3, EntryTyping
  <2>2. QED
    BY <2>1 DEF Left, Positions
<1>5. entries' \in SUBSET Entry /\ previous' \in Int /\ previous' >= -1
  BY <1>2, <1>3, <1>4
<1>6. active' = {e \in entries' : e.first <= previous' /\ previous' < End(e)}
  <2>1. SUFFICES ASSUME NEW e \in entries
                 PROVE  e \in active' <=> e.first <= p /\ p < End(e)
    BY <1>2, <1>3
  <2>2. e.first \in Int /\ e.last \in Int /\ e.first <= e.last /\ End(e) = e.last + 1
    BY <1>3, EntryTyping
  <2>3. (e.first > previous => e.first >= p) /\ (End(e) > previous => End(e) >= p)
    BY <1>2 DEF Left, Positions
  <2>4. e \in active' <=> (e.first <= previous /\ previous < End(e) /\ End(e) # p) \/ e.first = p
    BY <1>2, <1>3
  <2>5. QED
    BY <2>2, <2>3, <2>4, <1>3, <1>4
<1>7. database' \in [Address -> SUBSET Entry]
  <2>1. active \in SUBSET Entry
    BY <1>3
  <2>2. QED
    BY <1>2, <1>3, <2>1
<1>8. \A a \in Address : a < previous' => database'[a] = HeldBy(a)'
  <2>1. SUFFICES ASSUME NEW a \in Address, a < p PROVE database'[a] = HeldBy(a)
    BY <1>2 DEF HeldBy, Holds
  <2>2. a \in Int
    BY NetworksAssumption DEF Address
  <2>3. CASE a < previous
    BY <2>2, <2>3, <1>1, <1>2, <1>3 DEF SweepInv
  <2>4. CASE previous <= a
    <3>1. HeldBy(a) = active
      BY <1>2, <1>3, <2>1, <2>4, NothingInBetween
    <3>2. database[a] = {}
      BY <1>1, <2>2, <2>4, <1>3 DEF SweepInv
    <3>3. database'[a] = IF active # {} THEN active ELSE database[a]
      BY <1>2, <2>1, <2>4
    <3>4. QED
      BY <3>1, <3>2, <3>3
  <2>5. QED
    BY <2>2, <2>3, <2>4, <1>3
<1>9. \A a \in Address : a >= previous' => database'[a] = {}
  <2>1. SUFFICES ASSUME NEW a \in Address, a >= p PROVE database'[a] = {}
    BY <1>2
  <2>2. a \in Int /\ ~(a < p) /\ a >= previous
    BY <2>1, <1>3, <1>4, NetworksAssumption DEF Address
  <2>3. database'[a] = database[a]
    BY <1>2, <2>2
  <2>4. QED
    BY <2>2, <2>3, <1>1 DEF SweepInv
<1>10. QED
  BY <1>5, <1>6, <1>7, <1>8, <1>9 DEF SweepInv

(* When no position is left, no network reaches the addresses ahead        *)
(* (update.py:300).                                                        *)
LEMMA SweepInvIsExact == SweepInv => MergeIsExact
<1>1. SUFFICES ASSUME SweepInv, NEW a \in Address
               PROVE  /\ \A e \in database[a] : e \in entries /\ Holds(e, a)
                      /\ Left = {} => \A e \in entries : Holds(e, a) => e \in database[a]
  BY DEF MergeIsExact
<1>2. a \in Int /\ previous \in Int
  BY <1>1, NetworksAssumption DEF SweepInv, Address
<1>3. CASE a < previous
  BY <1>1, <1>3 DEF SweepInv, HeldBy
<1>4. CASE a >= previous
  <2>1. database[a] = {}
    BY <1>1, <1>4 DEF SweepInv
  <2>2. ASSUME Left = {}, NEW e \in entries PROVE ~Holds(e, a)
    <3>1. e.last \in Int /\ End(e) = e.last + 1
      BY <1>1, EntryTyping DEF SweepInv
    <3>2. ~(End(e) > previous)
      BY <2>2 DEF Left, Positions
    <3>3. QED
      BY <1>2, <1>4, <3>1, <3>2 DEF Holds
  <2>3. QED
    BY <2>1, <2>2
<1>5. QED
  BY <1>2, <1>3, <1>4

(* Whatever networks the feeds list, the merged database is exact          *)
(* (update.py:286-320).                                                    *)
THEOREM SweepIsExact == SweepSpec => []MergeIsExact
<1>1. SweepInv /\ [Sweep]_sweepVars => SweepInv'
  <2>1. SweepInv /\ UNCHANGED sweepVars => SweepInv'
    BY DEF SweepInv, sweepVars, HeldBy, Holds, End
  <2>2. QED
    BY <2>1, SweepMovesOn
<1>2. QED
  BY <1>1, SweepStarts, SweepInvIsExact, PTL DEF SweepSpec

-----------------------------------------------------------------------------
(* The files.                                                              *)

Typed ==
  /\ files \in [File -> Int]
  /\ lock \subseteq Updaters
  /\ pc \in [Updaters -> {"idle", "gather", "keep_db", "keep_manifest",
                          "replace_db", "replace_manifest", "release"}]
  /\ building \in [Updaters -> Int]
  /\ builds \in 0..MaxBuilds
  /\ before \in Int
  /\ cut \in {"no", "publish", "past"}

\* The lock: whoever is at work has it alone, and is making the last build.
Exclusive ==
  /\ \A u, v \in lock : u = v
  /\ \A u \in Updaters : (u \in lock) <=> (pc[u] # "idle")
  /\ \A u \in Updaters : building[u] = IF u \in lock THEN builds ELSE NoBuild
  /\ lock # {} => builds > 0

\* Files hold builds that were made, and the present build only what this run
\* has replaced.
Ages ==
  /\ 0 <= files["previous_db"] /\ files["previous_db"] <= files["db"]
  /\ files["db"] <= builds
  /\ 0 <= files["previous_manifest"] /\ files["previous_manifest"] <= files["manifest"]
  /\ files["manifest"] <= files["db"]
  /\ files["manifest"] # NoBuild => files["db"] # NoBuild
  /\ 0 <= before /\ before <= builds
  /\ \A u \in lock :
       /\ pc[u] \in {"gather", "keep_db", "keep_manifest", "replace_db"} =>
            files["db"] < builds
       /\ pc[u] \in {"keep_db", "keep_manifest"} => files["db"] # NoBuild
       /\ pc[u] = "replace_manifest" =>
            files["db"] = builds /\ files["manifest"] < builds
       /\ pc[u] = "release" => files["db"] = builds /\ files["manifest"] = builds

\* The previous database: a copy of the present one from `keep_db` on, which
\* the replacement turns into the one before.
Prior ==
  /\ lock = {} => PreviousIsThePriorBuild
  /\ \A u \in lock :
       /\ pc[u] \in {"gather", "keep_db"} =>
            \/ files["previous_db"] = before
            \/ cut # "no" /\ files["previous_db"] = files["db"]
       /\ pc[u] \in {"keep_manifest", "replace_db"} =>
            files["previous_db"] = files["db"]
       /\ pc[u] \in {"replace_manifest", "release"} =>
            files["previous_db"] = before

\* The pairs: only between the two replacements does the present one not fit,
\* and only between the two copies the previous one.
Pairs ==
  /\ (cut # "publish" /\ \A u \in lock : pc[u] # "replace_manifest") =>
       files["manifest"] = files["db"]
  /\ (cut = "no" /\ \A u \in lock : pc[u] # "keep_manifest") =>
       files["previous_manifest"] = files["previous_db"]

IInv == Typed /\ Exclusive /\ Ages /\ Prior /\ Pairs

(* Nothing is published yet, and nobody has the lock (update.py:68-79).    *)
LEMMA IInvStarts == Init => IInv
BY PublicationAssumption
   DEF Init, IInv, Typed, Exclusive, Ages, Prior, Pairs, File, NoBuild,
       PreviousIsThePriorBuild

(* Giving the lock back is safe wherever the present run has left the      *)
(* files, if the history says so (update.py:76-79, 355-356).               *)
LEMMA ReleasedKeepsIInv ==
  ASSUME IInv, NEW u \in Updaters, pc[u] # "idle", Released(u),
         UNCHANGED <<files, builds, before>>,
         cut' \in {"no", "publish", "past"},
         cut # "no" => cut' # "no",
         cut = "publish" => cut' = "publish",
         pc[u] = "replace_manifest" => cut' = "publish",
         pc[u] \in {"keep_db", "keep_manifest", "replace_db"} => cut' # "no"
  PROVE  IInv'
<1>1. u \in lock /\ lock = {u}
  BY DEF IInv, Typed, Exclusive
<1>2. lock' = {} /\ files' = files /\ builds' = builds /\ before' = before
  BY <1>1 DEF Released
<1>3. Typed'
  BY <1>2 DEF IInv, Typed, Released, Go, NoBuild
<1>4. Exclusive'
  BY <1>1, <1>2 DEF IInv, Typed, Exclusive, Released, Go, NoBuild
<1>5. Ages'
  BY <1>2 DEF IInv, Ages
<1>6. Prior'
  BY <1>1, <1>2 DEF IInv, Prior, Typed, PreviousIsThePriorBuild
<1>7. Pairs'
  BY <1>1, <1>2 DEF IInv, Pairs, Typed
<1>8. QED
  BY <1>3, <1>4, <1>5, <1>6, <1>7 DEF IInv

(* A run starts only when no other has the lock, and makes a newer build   *)
(* than any file holds (update.py:68-77, 361-362).                         *)
LEMMA AcquireKeepsIInv ==
  ASSUME IInv, NEW u \in Updaters, Acquire(u)
  PROVE  IInv'
<1>1. /\ lock = {} /\ lock' = {u} /\ pc[u] = "idle"
      /\ builds' = builds + 1 /\ builds' \in 0..MaxBuilds
      /\ files' = files /\ before' = before /\ cut' = cut
  BY PublicationAssumption DEF Acquire, IInv, Typed
<1>2. Typed'
  BY <1>1, PublicationAssumption DEF IInv, Typed, Acquire, Go
<1>3. Exclusive'
  BY <1>1 DEF IInv, Typed, Exclusive, Acquire, Go, NoBuild
<1>4. Ages'
  BY <1>1 DEF IInv, Typed, Ages, Acquire, Go, NoBuild, File
<1>5. Prior'
  BY <1>1 DEF IInv, Typed, Prior, PreviousIsThePriorBuild, Acquire, Go
<1>6. Pairs'
  BY <1>1 DEF IInv, Typed, Pairs, Acquire, Go
<1>7. QED
  BY <1>2, <1>3, <1>4, <1>5, <1>6 DEF IInv

(* Gathering touches no file: it ends the run or leads to the first copy   *)
(* there is something for (update.py:362-377).                             *)
LEMMA GatherKeepsIInv ==
  ASSUME IInv, NEW u \in Updaters, Gather(u)
  PROVE  IInv'
<1>1. pc[u] = "gather" /\ UNCHANGED <<files, builds, before, cut>>
  BY DEF Gather
<1>2. CASE Released(u)
  BY <1>1, <1>2, ReleasedKeepsIInv DEF IInv, Typed
<1>3. CASE /\ Go(u, IF files["db"] = NoBuild THEN "replace_db" ELSE "keep_db")
           /\ UNCHANGED <<lock, building>>
  <2>1. lock = {u}
    BY <1>1 DEF IInv, Typed, Exclusive
  <2>2. Typed'
    BY <1>1, <1>3 DEF IInv, Typed, Go
  <2>3. Exclusive'
    BY <1>1, <1>3 DEF IInv, Typed, Exclusive, Go
  <2>4. Ages'
    BY <1>1, <1>3, <2>1 DEF IInv, Typed, Ages, Go, NoBuild, File
  <2>5. Prior'
    BY <1>1, <1>3, <2>1 DEF IInv, Typed, Ages, Prior, Go, NoBuild, File
  <2>6. Pairs'
    BY <1>1, <1>3, <2>1 DEF IInv, Typed, Pairs, Go
  <2>7. QED
    BY <2>2, <2>3, <2>4, <2>5, <2>6 DEF IInv
<1>4. QED
  BY <1>2, <1>3 DEF Gather

(* The first copy is of the database (update.py:338-341).                  *)
LEMMA KeepDbKeepsIInv ==
  ASSUME IInv, NEW u \in Updaters, KeepDb(u)
  PROVE  IInv'
<1>1. lock = {u} /\ pc[u] = "keep_db"
  BY DEF KeepDb, IInv, Typed, Exclusive
<1>2. Typed'
  BY <1>1 DEF IInv, Typed, KeepDb, Go, File
<1>3. Exclusive'
  BY <1>1 DEF IInv, Typed, Exclusive, KeepDb, Go
<1>4. Ages'
  BY <1>1 DEF IInv, Typed, Ages, KeepDb, Go, NoBuild, File
<1>5. Prior'
  BY <1>1 DEF IInv, Typed, Prior, KeepDb, Go, File
<1>6. Pairs'
  BY <1>1 DEF IInv, Typed, Ages, Pairs, KeepDb, Go, NoBuild, File
<1>7. QED
  BY <1>2, <1>3, <1>4, <1>5, <1>6 DEF IInv

(* The manifest's copy makes the previous pair fit again                   *)
(* (update.py:341-342).                                                    *)
LEMMA KeepManifestKeepsIInv ==
  ASSUME IInv, NEW u \in Updaters, KeepManifest(u)
  PROVE  IInv'
<1>1. lock = {u} /\ pc[u] = "keep_manifest"
  BY DEF KeepManifest, IInv, Typed, Exclusive
<1>2. Typed'
  BY <1>1 DEF IInv, Typed, KeepManifest, Go, File
<1>3. Exclusive'
  BY <1>1 DEF IInv, Typed, Exclusive, KeepManifest, Go
<1>4. Ages'
  BY <1>1 DEF IInv, Typed, Ages, KeepManifest, Go, NoBuild, File
<1>5. Prior'
  BY <1>1 DEF IInv, Typed, Prior, KeepManifest, Go, File
<1>6. Pairs'
  BY <1>1 DEF IInv, Typed, Prior, Pairs, KeepManifest, Go, File
<1>7. QED
  BY <1>2, <1>3, <1>4, <1>5, <1>6 DEF IInv

(* The database is replaced first; its manifest does not fit it for a step *)
(* (update.py:347).                                                        *)
LEMMA ReplaceDbKeepsIInv ==
  ASSUME IInv, NEW u \in Updaters, ReplaceDb(u)
  PROVE  IInv'
<1>1. lock = {u} /\ pc[u] = "replace_db" /\ building[u] = builds
  BY DEF ReplaceDb, IInv, Typed, Exclusive
<1>2. Typed'
  BY <1>1 DEF IInv, Typed, ReplaceDb, Go, File
<1>3. Exclusive'
  BY <1>1 DEF IInv, Typed, Exclusive, ReplaceDb, Go
<1>4. Ages'
  BY <1>1 DEF IInv, Typed, Exclusive, Ages, ReplaceDb, Go, NoBuild, File
<1>5. Prior'
  BY <1>1 DEF IInv, Typed, Prior, ReplaceDb, Go, File
<1>6. Pairs'
  BY <1>1 DEF IInv, Typed, Pairs, ReplaceDb, Go, File
<1>7. QED
  BY <1>2, <1>3, <1>4, <1>5, <1>6 DEF IInv

(* The manifest of the new database makes the present pair fit again       *)
(* (update.py:348).                                                        *)
LEMMA ReplaceManifestKeepsIInv ==
  ASSUME IInv, NEW u \in Updaters, ReplaceManifest(u)
  PROVE  IInv'
<1>1. lock = {u} /\ pc[u] = "replace_manifest" /\ building[u] = builds
  BY DEF ReplaceManifest, IInv, Typed, Exclusive
<1>2. Typed'
  BY <1>1 DEF IInv, Typed, ReplaceManifest, Go, File
<1>3. Exclusive'
  BY <1>1 DEF IInv, Typed, Exclusive, ReplaceManifest, Go
<1>4. Ages'
  BY <1>1 DEF IInv, Typed, Exclusive, Ages, ReplaceManifest, Go, NoBuild, File
<1>5. Prior'
  BY <1>1 DEF IInv, Typed, Prior, ReplaceManifest, Go, File
<1>6. Pairs'
  BY <1>1 DEF IInv, Typed, Ages, Pairs, ReplaceManifest, Go, File
<1>7. QED
  BY <1>2, <1>3, <1>4, <1>5, <1>6 DEF IInv

(* Every step of the updaters, also one that is cut short, keeps the       *)
(* invariant (update.py:312-377).                                          *)
LEMMA IInvKept == IInv /\ [Next]_vars => IInv'
<1> SUFFICES ASSUME IInv, [Next]_vars PROVE IInv'
  OBVIOUS
<1>1. ASSUME NEW u \in Updaters, Acquire(u) PROVE IInv'
  BY <1>1, AcquireKeepsIInv
<1>2. ASSUME NEW u \in Updaters, Step(u) PROVE IInv'
  <2>1. CASE Release(u)
    <3>1. pc[u] = "release" /\ Released(u) /\ UNCHANGED <<files, builds, before, cut>>
      BY <2>1 DEF Release
    <3>2. QED
      BY <3>1, ReleasedKeepsIInv DEF IInv, Typed
  <2>2. QED
    BY <1>2, <2>1, GatherKeepsIInv, KeepDbKeepsIInv, KeepManifestKeepsIInv,
       ReplaceDbKeepsIInv, ReplaceManifestKeepsIInv DEF Step
<1>3. ASSUME NEW u \in Updaters, Interrupted(u) PROVE IInv'
  BY <1>3, ReleasedKeepsIInv DEF Interrupted, IInv, Typed
<1>4. CASE UNCHANGED vars
  BY <1>4 DEF vars, IInv, Typed, Exclusive, Ages, Prior, Pairs, PreviousIsThePriorBuild
<1>5. QED
  BY <1>1, <1>2, <1>3, <1>4 DEF Next

-----------------------------------------------------------------------------
(* What the runs check of the four files follows from the invariant        *)
(* (update.py:338-348).                                                    *)
LEMMA IInvImplies == IInv => TypeOK /\ PreviousIsThePriorBuild /\ APairFits
<1> SUFFICES ASSUME IInv PROVE TypeOK /\ PreviousIsThePriorBuild /\ APairFits
  OBVIOUS
<1>1. TypeOK
  <2>1. \A f \in File : files[f] \in 0..builds
    BY DEF IInv, Typed, Ages, File
  <2>2. files \in [File -> 0..builds]
    BY <2>1 DEF IInv, Typed
  <2>3. QED
    BY <2>2 DEF IInv, Typed, Exclusive, Ages, TypeOK, NoBuild
<1>2. PreviousIsThePriorBuild
  BY DEF IInv, Prior, PreviousIsThePriorBuild
<1>3. APairFits
  <2>1. CASE lock = {}
    BY <2>1 DEF IInv, Pairs, APairFits
  <2>2. CASE lock # {}
    <3>1. PICK u \in lock : lock = {u}
      BY <2>2 DEF IInv, Typed, Exclusive
    <3>2. QED
      BY <2>2, <3>1 DEF IInv, Pairs, APairFits
  <2>3. QED
    BY <2>1, <2>2
<1>4. QED
  BY <1>1, <1>2, <1>3

(* No step of any updater puts an older build in the place of a newer one  *)
(* (update.py:338-348, 361-362).                                           *)
LEMMA StepsAreNewer ==
  ASSUME IInv, [Next]_vars, NEW f \in File, files[f] # files'[f]
  PROVE  files'[f] > files[f]
<1>1. PICK u \in Updaters :
        KeepDb(u) \/ KeepManifest(u) \/ ReplaceDb(u) \/ ReplaceManifest(u)
  BY DEF Next, vars, Acquire, Step, Gather, Release, Interrupted
<1>2. lock = {u} /\ building[u] = builds
  BY <1>1 DEF IInv, Typed, Exclusive, KeepDb, KeepManifest, ReplaceDb, ReplaceManifest
<1>3. CASE KeepDb(u)
  BY <1>3 DEF KeepDb, IInv, Typed, Ages, File
<1>4. CASE KeepManifest(u)
  BY <1>4 DEF KeepManifest, IInv, Typed, Ages, File
<1>5. CASE ReplaceDb(u)
  BY <1>2, <1>5 DEF ReplaceDb, IInv, Typed, Ages, File
<1>6. CASE ReplaceManifest(u)
  BY <1>2, <1>6 DEF ReplaceManifest, IInv, Typed, Ages, File
<1>7. QED
  BY <1>1, <1>3, <1>4, <1>5, <1>6

(* A run with its sweep replaces the files as Publication says: the sweep  *)
(* only comes before the first of them (update.py:312-348).                *)
LEMMA BuildPublishes == [BuildNext]_buildVars => [Next]_vars
<1> SUFFICES ASSUME [BuildNext]_buildVars PROVE [Next]_vars
  OBVIOUS
<1>1. ASSUME NEW u \in Updaters, BuildStep(u) PROVE [Next]_vars
  BY <1>1 DEF BuildStep, GatherEntries, Merge, ReplaceFile, Next, Step
<1>2. CASE UNCHANGED buildVars
  BY <1>2 DEF buildVars, vars
<1>3. QED
  BY <1>1, <1>2 DEF BuildNext, Next

(* For any number of updaters and builds: types, one run at a time, and no *)
(* manifest without a database (update.py:68-79, 312-348).                 *)
THEOREM TypeCorrect == BuildSpec => []TypeOK
<1>1. BuildInit => IInv
  BY IInvStarts DEF BuildInit
<1>2. QED
  BY <1>1, IInvKept, BuildPublishes, IInvImplies, PTL DEF BuildSpec

(* For any number of updaters and builds, and wherever runs are cut: the   *)
(* previous database is what the present one replaced                      *)
(* (update.py:338-347).                                                    *)
THEOREM PreviousKept == BuildSpec => []PreviousIsThePriorBuild
<1>1. BuildInit => IInv
  BY IInvStarts DEF BuildInit
<1>2. QED
  BY <1>1, IInvKept, BuildPublishes, IInvImplies, PTL DEF BuildSpec

(* For any number of updaters and builds: without a cut there is always a  *)
(* database with the manifest that was made for it (update.py:338-348).    *)
THEOREM PairsFit == BuildSpec => []APairFits
<1>1. BuildInit => IInv
  BY IInvStarts DEF BuildInit
<1>2. QED
  BY <1>1, IInvKept, BuildPublishes, IInvImplies, PTL DEF BuildSpec

(* For any number of updaters and builds, however their runs overlap: what *)
(* was published later is never replaced by an older build                 *)
(* (update.py:68-79, 361-362).                                             *)
THEOREM NewerKept == BuildSpec => NewerBuildsStay
<1>1. BuildInit => IInv
  BY IInvStarts DEF BuildInit
<1>2. IInv /\ [Next]_vars =>
        [\A f \in File : files[f] # files'[f] => files'[f] > files[f]]_vars
  BY StepsAreNewer
<1>3. QED
  BY <1>1, <1>2, IInvKept, BuildPublishes, PTL DEF BuildSpec, NewerBuildsStay

-----------------------------------------------------------------------------
(* A sweep may be begun anew at any time, by whichever run has the lock    *)
(* (update.py:298-300).                                                    *)
LEMMA SweepRestarts ==
  ASSUME NEW es \in SUBSET Entry,
         entries' = es, previous' = -1, active' = {}, database' = Empty
  PROVE  SweepInv'
<1>1. active' = {e \in entries' : e.first <= previous' /\ previous' < End(e)}
  <2>1. \A e \in es : ~(e.first <= -1)
    BY EntryTyping
  <2>2. QED
    BY <2>1
<1>2. \A a \in Address : database'[a] = {} /\ ~(a < previous')
  BY NetworksAssumption DEF Empty, Address
<1>3. database' \in [Address -> SUBSET Entry]
  BY DEF Empty
<1>4. QED
  BY <1>1, <1>2, <1>3 DEF SweepInv

(* In every run of every updater, whatever rows the feeds list and         *)
(* whichever runs were cut before: what is merged is exact                 *)
(* (update.py:286-320, 362-377).                                           *)
THEOREM MergesAreExact == BuildSpec => []MergeIsExact
<1>1. BuildInit => SweepInv
  BY SweepStarts DEF BuildInit, SweepInit
<1>2. SweepInv /\ [BuildNext]_buildVars => SweepInv'
  <2> SUFFICES ASSUME SweepInv, [BuildNext]_buildVars PROVE SweepInv'
    OBVIOUS
  <2>1. CASE UNCHANGED sweepVars
    BY <2>1 DEF SweepInv, sweepVars, HeldBy, Holds, End
  <2>2. CASE NoSweep
    BY <2>2, SweepRestarts DEF NoSweep
  <2>3. CASE Sweep
    BY <2>3, SweepMovesOn
  <2>4. ASSUME NEW es \in SUBSET Accepted,
               entries' = es, previous' = -1, active' = {}, database' = Empty
        PROVE  SweepInv'
    <3>1. es \in SUBSET Entry
      BY BuildAssumption DEF Accepted
    <3>2. QED
      BY <2>4, <3>1, SweepRestarts
  <2>5. ASSUME NEW u \in Updaters, GatherEntries(u) PROVE SweepInv'
    BY <2>2, <2>4, <2>5 DEF GatherEntries
  <2>6. QED
    BY <2>1, <2>2, <2>3, <2>5
       DEF BuildNext, BuildStep, Merge, ReplaceFile, buildVars
<1>3. QED
  BY <1>1, <1>2, SweepInvIsExact, PTL DEF BuildSpec
===============================================================================
