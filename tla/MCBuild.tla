------------------------------ MODULE MCBuild --------------------------------
EXTENDS Build

\* Nested, touching and last networks, some given with host bits; the whole
\* space and a reserved address are among the rows that are refused.
SomeRows ==
  {[address |-> 2, size |-> 1, evidence |-> "feodo"],
   [address |-> 3, size |-> 1, evidence |-> "firehol"],
   [address |-> 3, size |-> 2, evidence |-> "firehol"],
   [address |-> 6, size |-> 4, evidence |-> "feodo"],
   [address |-> 5, size |-> 2, evidence |-> "firehol"],
   [address |-> 1, size |-> 2, evidence |-> "feodo"],
   [address |-> 0, size |-> 8, evidence |-> "firehol"]}
=============================================================================
