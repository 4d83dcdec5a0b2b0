------------------------------ MODULE Networks -------------------------------
(***************************************************************************)
(* From the rows of the feeds to the database, tools/reputation/update.py: *)
(* 128-139 and 286-320: rows become networks, and merge_networks() sweeps  *)
(* over the addresses where one begins or ends, so that each address is    *)
(* inserted with the evidence of every network that holds it.  IPv4 and    *)
(* IPv6 are swept one after the other and share nothing; this is one of    *)
(* the two.  The CIDR blocks a range is inserted as are left out.          *)
(***************************************************************************)
EXTENDS Integers

CONSTANTS
  LastAddress,    \* 2^32 - 1 or 2^128 - 1
  Reserved,       \* addresses no network may hold: ::/96 for IPv6
  Evidence        \* what a match says: source, category, network, dates

ASSUME NetworksAssumption == LastAddress \in Nat

Address == 0..LastAddress
Entry == {e \in [first : Address, last : Address, evidence : Evidence] : e.first <= e.last}

VARIABLES
  entries,     \* the networks with their evidence; parse_feed() has made them unique
  previous,    \* the position the sweep is at; -1 before the first
  active,      \* entries that hold the addresses from there on
  database     \* what a reader gets for each address

sweepVars == <<entries, previous, active, database>>

-----------------------------------------------------------------------------
(* network(): a row's host bits are dropped; the whole address space and   *)
(* the reserved part of it are refused.                                    *)
NetworkOf(row) ==
  LET first == row.address - (row.address % row.size)
  IN  [first |-> first, last |-> first + row.size - 1, evidence |-> row.evidence]

Acceptable(e) ==
  /\ e.first # 0 \/ e.last # LastAddress
  /\ \A a \in Reserved : a < e.first \/ a > e.last

-----------------------------------------------------------------------------
Empty == [a \in Address |-> {}]

End(e) == e.last + 1

Positions == {e.first : e \in entries} \cup {End(e) : e \in entries}
Left == {p \in Positions : p > previous}

\* Mutated: what begins and ends here is applied before the range is yielded.
SweepApplyingFirst ==
  \E p \in Left :
    /\ \A q \in Left : p <= q
    /\ active' = {e \in active : End(e) # p} \cup {e \in entries : e.first = p}
    /\ database' = [a \in Address |->
         IF active' # {} /\ previous <= a /\ a < p THEN active' ELSE database[a]]
    /\ previous' = p
    /\ UNCHANGED entries

\* One position of the loop: the range up to it is inserted with what was
\* active, then what begins or ends at it is applied.
Sweep ==
  \E p \in Left :
    /\ \A q \in Left : p <= q
    /\ database' = [a \in Address |->
         IF active # {} /\ previous <= a /\ a < p THEN active ELSE database[a]]
    /\ active' = {e \in active : End(e) # p} \cup {e \in entries : e.first = p}
    /\ previous' = p
    /\ UNCHANGED entries

SweepOf(es) ==
  /\ entries = es
  /\ previous = -1
  /\ active = {}
  /\ database = Empty

SweepInit == \E es \in SUBSET Entry : SweepOf(es)
SweepSpec == SweepInit /\ [][Sweep]_sweepVars

-----------------------------------------------------------------------------
Holds(e, a) == e.first <= a /\ a <= e.last

(* After the sweep every address has exactly the evidence of the networks  *)
(* that hold it, where networks nest, touch, repeat or end with the last   *)
(* address; and at no time during it has an address the evidence of a      *)
(* network that does not hold it (update.py:286-320).                      *)
MergeIsExact ==
  \A a \in Address :
    /\ \A e \in database[a] : e \in entries /\ Holds(e, a)
    /\ Left = {} => \A e \in entries : Holds(e, a) => e \in database[a]
=============================================================================
