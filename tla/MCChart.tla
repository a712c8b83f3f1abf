------------------------------- MODULE MCChart -------------------------------
EXTENDS Chart
Bar(o, h, l, c) == [open |-> o, high |-> h, low |-> l, close |-> c]
MCCandles == {Bar(4, 5, 3, 4), Bar(4, 9, 4, 8), Bar(8, 9, 3, 4), Bar(2, 3, 0, 1)}
==============================================================================
