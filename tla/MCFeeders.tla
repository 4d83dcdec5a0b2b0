----------------------------- MODULE MCFeeders -------------------------------
EXTENDS Feeders

LinesPerFile == <<2, 1>>
WhereCut == {<<<<1, 1>>, "head">>, <<<<1, 2>>, "bare">>}
TheBadLine == {<<2, 1>>}
=============================================================================
