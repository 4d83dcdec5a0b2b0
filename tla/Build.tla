-------------------------------- MODULE Build --------------------------------
(***************************************************************************)
(* A run of the updater from the evidence it gathered to the files it      *)
(* publishes, tools/reputation/update.py:312-377: Publication with the     *)
(* sweep of Networks between the gathering and the first file.  The lock   *)
(* keeps it to one sweep at a time.                                        *)
(***************************************************************************)
EXTENDS Publication, Networks

CONSTANT Rows      \* rows the feeds may list

buildVars == <<vars, sweepVars>>

BuildInit == Init /\ SweepOf({})

\* The rows' networks have a beginning and an end in the address space.
ASSUME BuildAssumption == \A row \in Rows : NetworkOf(row) \in Entry

Accepted == {e \in {NetworkOf(row) : row \in Rows} : Acceptable(e)}
NoSweep == entries' = {} /\ previous' = -1 /\ active' = {} /\ database' = Empty

GatherEntries(u) ==
  /\ Gather(u)
  /\ IF pc'[u] = "idle" THEN NoSweep
     ELSE \E es \in SUBSET Accepted :
            entries' = es /\ previous' = -1 /\ active' = {} /\ database' = Empty

Merge(u) ==
  /\ pc[u] \in {"keep_db", "replace_db"}
  /\ Sweep
  /\ UNCHANGED vars

ReplaceFile(u) ==
  /\ Left = {}
  /\ KeepDb(u) \/ KeepManifest(u) \/ ReplaceDb(u) \/ ReplaceManifest(u)
  /\ UNCHANGED sweepVars

BuildStep(u) ==
  \/ GatherEntries(u)
  \/ Merge(u)
  \/ ReplaceFile(u)
  \/ Release(u) /\ NoSweep

BuildNext ==
  \E u \in Updaters :
    \/ Acquire(u) /\ UNCHANGED sweepVars
    \/ BuildStep(u)
    \/ Interrupted(u) /\ NoSweep

\* A run that has the lock goes on: every step returns or raises.
BuildSpec ==
  /\ BuildInit /\ [][BuildNext]_buildVars
  /\ \A u \in Updaters : WF_buildVars(BuildStep(u))
=============================================================================
