---------------------------- MODULE MCFeedCache -----------------------------
EXTENDS FeedCache

CONSTANTS none, many, lots, html

BodyEntries == [b \in Bodies |-> CASE b = none -> 0 [] b = many -> 4 [] b = lots -> 9 [] b = html -> 0]
Beginnings ==
  [b \in Bodies |-> CASE b = none -> {} [] b = many -> {none} [] b = lots -> {many} [] b = html -> {}]
=============================================================================
