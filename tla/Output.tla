------------------------------- MODULE Output -------------------------------
(***************************************************************************)
(* The JSONL logs of src/output.rs, as operators on the value of a file.   *)
(*                                                                         *)
(* A file is the sequence of its lines, and whether something without a    *)
(* newline follows the last one (`torn`).  What is appended after a torn   *)
(* end continues that line, which then is no JSON object any more.         *)
(***************************************************************************)
EXTENDS Integers, Sequences, SequencesExt

EmptyFile == [lines |-> <<>>, torn |-> FALSE]

Line(record) == [record |-> record]
Unreadable == [unreadable |-> TRUE]

LinesOf(records) == [i \in DOMAIN records |-> Line(records[i])]

\* The file after `records` were written to its end, and with `torn` a part
\* of one more.
Extended(file, records, torn) ==
  IF records = <<>> THEN [file EXCEPT !.torn = @ \/ torn]
  ELSE [lines |-> file.lines \o
                    (IF file.torn THEN <<Unreadable>> \o LinesOf(Tail(records))
                     ELSE LinesOf(records)),
        torn |-> torn]

\* Mutated: newlines go between the records, not after each.
AppendedWithoutNewline(file, records) ==
  IF records = <<>> THEN file ELSE Extended(file, records, TRUE)

\* append(): nothing is opened for no records.
Appended(file, records) ==
  IF records = <<>> THEN file ELSE Extended(file, records, FALSE)

\* An append that fails, or is killed, leaves any proper prefix of its bytes.
PartlyAppended(file, records) ==
  {Extended(file, SubSeq(records, 1, n), torn) :
     n \in 0 .. Len(records) - 1, torn \in BOOLEAN}
=============================================================================
