------------------------------ MODULE LogFiles ------------------------------
(***************************************************************************)
(* The two logs over many runs of the monitor: the writer of src/output.rs *)
(* opens each file anew for every window, a failed or killed write leaves  *)
(* a part of it, the service manager starts the monitor again, and the log *)
(* rotation renames a file and creates an empty one at any moment, also    *)
(* between the writer's open and its write.                                *)
(*                                                                         *)
(* Windows are numbered; window w puts RecordsIn(path, w) into a file.     *)
(***************************************************************************)
EXTENDS Output, FiniteSets

CONSTANTS
  MaxWindows,      \* bound: windows that arrive
  MaxRotations,    \* bound: rotations of each file
  MaxFailures      \* bound: failed writes and kills

ASSUME LogFilesAssumption ==
  MaxWindows \in Nat /\ MaxRotations \in Nat /\ MaxFailures \in Nat

Path == {"detail", "ip"}

\* Two endpoints at one address: two records, and one per-IP record.
RecordsIn(path, w) ==
  IF path = "detail" THEN <<[window |-> w, n |-> 1], [window |-> w, n |-> 2]>>
  ELSE <<[window |-> w, n |-> 1]>>

VARIABLES
  files,       \* per path: its generations, the last one has the name
  pc,          \* "down", or where the writer is
  window,      \* the window being written; the next one arrives after it
  handle,      \* the generation the writer has open; 0 for none
  acked,       \* history: the windows whose append returned Ok
  failures,    \* history: failed writes and kills
  rotated,     \* history: per path, the window at each rotation
  opened       \* history: per path and window, what its append found at its open

vars == <<files, pc, window, handle, acked, failures, rotated, opened>>

\* The generation that has the name, its number of lines, whether it is torn.
Found(path) ==
  [at |-> Len(files[path]), from |-> Len(Last(files[path]).lines),
   torn |-> Last(files[path]).torn]

Init ==
  /\ files = [path \in Path |-> <<EmptyFile>>]
  /\ pc = "down"
  /\ window = 0
  /\ handle = 0
  /\ acked = {}
  /\ failures = 0
  /\ rotated = [path \in Path |-> <<>>]
  /\ opened = [path \in Path |-> [w \in 1..MaxWindows |-> Found(path)]]

\* Where the writer is before it opens a log, and before it writes to it.
OpenAt == [detail |-> "open_detail", ip |-> "open_ip"]
WriteAt == [detail |-> "write_detail", ip |-> "write_ip"]

\* check_outputs opens both files; nothing is written, nothing repaired.
Start ==
  /\ pc = "down"
  /\ pc' = "recv"
  /\ UNCHANGED <<files, window, handle, acked, failures, rotated, opened>>

TakeWindow ==
  /\ pc = "recv"
  /\ window < MaxWindows
  /\ window' = window + 1
  /\ pc' = "open_detail"
  /\ UNCHANGED <<files, handle, acked, failures, rotated, opened>>

\* Mutated: the writer keeps the file of its first window open.
OpenOnce(path) ==
  /\ pc = OpenAt[path]
  /\ handle' = 1
  /\ pc' = WriteAt[path]
  /\ opened' = [opened EXCEPT ![path][window] = Found(path)]
  /\ UNCHANGED <<files, window, acked, failures, rotated>>

Open(path) ==
  /\ pc = OpenAt[path]
  /\ handle' = Len(files[path])
  /\ pc' = WriteAt[path]
  /\ opened' = [opened EXCEPT ![path][window] = Found(path)]
  /\ UNCHANGED <<files, window, acked, failures, rotated>>

\* Mutated: an append is tried again from the start.
WriteTwice(path) ==
  /\ pc = WriteAt[path]
  /\ files' = [files EXCEPT ![path][handle] = Appended(@, RecordsIn(path, window))]
  /\ handle' = 0
  /\ \/ pc' = "open_detail" /\ UNCHANGED acked
     \/ /\ pc' = IF path = "detail" THEN "open_ip" ELSE "recv"
        /\ acked' = IF path = "ip" THEN acked \cup {window} ELSE acked
  /\ UNCHANGED <<window, failures, rotated, opened>>

Write(path) ==
  /\ pc = WriteAt[path]
  /\ files' = [files EXCEPT ![path][handle] = Appended(@, RecordsIn(path, window))]
  /\ handle' = 0
  /\ pc' = IF path = "detail" THEN "open_ip" ELSE "recv"
  /\ acked' = IF path = "ip" THEN acked \cup {window} ELSE acked
  /\ UNCHANGED <<window, failures, rotated, opened>>

\* Mutated: the error of an append is ignored.
WriteCutIgnored(path) ==
  /\ pc = WriteAt[path]
  /\ failures < MaxFailures
  /\ \E file \in PartlyAppended(files[path][handle], RecordsIn(path, window)) :
       files' = [files EXCEPT ![path][handle] = file]
  /\ handle' = 0
  /\ pc' = IF path = "detail" THEN "open_ip" ELSE "recv"
  /\ acked' = IF path = "ip" THEN acked \cup {window} ELSE acked
  /\ failures' = failures + 1
  /\ UNCHANGED <<window, rotated, opened>>

\* The write fails or the process is killed in it: the error takes the
\* process down either way, and the window is not written again.
WriteCut(path) ==
  /\ pc = WriteAt[path]
  /\ failures < MaxFailures
  /\ \E file \in PartlyAppended(files[path][handle], RecordsIn(path, window)) :
       files' = [files EXCEPT ![path][handle] = file]
  /\ handle' = 0
  /\ pc' = "down"
  /\ failures' = failures + 1
  /\ UNCHANGED <<window, acked, rotated, opened>>

\* A lookup or an open fails, or the process is killed between two writes.
Stopped ==
  /\ pc \in {"recv", "open_detail", "open_ip"}
  /\ failures < MaxFailures
  /\ handle' = 0
  /\ pc' = "down"
  /\ failures' = failures + 1
  /\ UNCHANGED <<files, window, acked, rotated, opened>>

\* Rename and create, of a file that is not empty: an open handle stays with
\* the renamed file.
Rotate(path) ==
  /\ Len(rotated[path]) < MaxRotations
  /\ Last(files[path]) # EmptyFile
  /\ files' = [files EXCEPT ![path] = Append(@, EmptyFile)]
  /\ rotated' = [rotated EXCEPT ![path] = Append(@, window)]
  /\ UNCHANGED <<pc, window, handle, acked, failures, opened>>

Next ==
  \/ Start \/ TakeWindow \/ Stopped
  \/ \E path \in Path : Open(path) \/ Write(path) \/ WriteCut(path) \/ Rotate(path)

Spec == Init /\ [][Next]_vars

-----------------------------------------------------------------------------
Places(path) ==
  UNION {{<<g, i>> : i \in DOMAIN files[path][g].lines} : g \in DOMAIN files[path]}
LineAt(path, place) == files[path][place[1]].lines[place[2]]
PlacesOf(path, record) == {p \in Places(path) : LineAt(path, p) = Line(record)}

(* An acknowledged window is whole, and where it belongs: its records are  *)
(* consecutive lines, in order, of the file that had the name when the     *)
(* append opened it, from the end that the append found, whatever was      *)
(* rotated, cut or restarted since (output.rs:120-131).  Only the first    *)
(* record of an append that found a torn line is lost with that line.      *)
AckedWindowsAreWhole ==
  \A path \in Path, w \in acked :
    LET records == RecordsIn(path, w)
        found == opened[path][w]
        lines == files[path][found.at].lines IN
    \A n \in DOMAIN records :
      /\ found.from + n \in DOMAIN lines
      /\ lines[found.from + n] =
           IF n = 1 /\ found.torn THEN Unreadable ELSE Line(records[n])

(* No record is ever in the logs twice: nothing is replayed after a        *)
(* failure, and the per-IP log never has a window that is not whole in the *)
(* endpoint log (output.rs:108-109).                                       *)
RecordsAppearOnce ==
  \A path \in Path, w \in 1..window :
    /\ \A n \in DOMAIN RecordsIn(path, w) :
         Cardinality(PlacesOf(path, RecordsIn(path, w)[n])) <= 1
    /\ PlacesOf("ip", RecordsIn("ip", w)[1]) # {} =>
         PlacesOf("detail", RecordsIn("detail", w)[2]) # {}

(* Failures damage no more than a line each: a log has at most one         *)
(* unreadable or torn line per failure, and each generation is in window   *)
(* order, older generations first.                                         *)
DamageIsBounded ==
  \A path \in Path :
    /\ Cardinality({p \in Places(path) : LineAt(path, p) = Unreadable})
         + Cardinality({g \in DOMAIN files[path] : files[path][g].torn}) <= failures
    /\ \A p, q \in {x \in Places(path) : LineAt(path, x) # Unreadable} :
         p[1] < q[1] \/ (p[1] = q[1] /\ p[2] < q[2]) =>
           LineAt(path, p).record.window <= LineAt(path, q).record.window

(* Rename/create rotation works without a signal to the monitor: a renamed *)
(* file gets nothing of a window that arrives after the renaming, so that  *)
(* it can be compressed one rotation later (output.rs:120).                *)
RotatedFilesAreLeftAlone ==
  \A path \in Path : \A p \in Places(path) :
    p[1] <= Len(rotated[path]) /\ LineAt(path, p) # Unreadable =>
      LineAt(path, p).record.window <= rotated[path][p[1]]

(* README.md:227: a write failure can leave a partial FINAL line.  It does *)
(* not stay the final one: the next run appends to it, and a record whose  *)
(* append succeeded is unreadable with it.                                 *)
OnlyTheFinalLineIsPartial ==
  \A path \in Path, g \in 1 .. MaxRotations + 1 :
    g \in DOMAIN files[path] =>
      \A i \in DOMAIN files[path][g].lines : files[path][g].lines[i] # Unreadable
=============================================================================
