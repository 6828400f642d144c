----------------------------- MODULE MCCallArgs -----------------------------
EXTENDS CallArgs

Longs == Struct(16, {Member(0, FALSE), Member(8, FALSE)})
Doubles == Struct(16, {Member(0, TRUE), Member(8, TRUE)})
Large == Struct(24, {Member(0, FALSE), Member(8, FALSE), Member(16, FALSE)})
SmallStruct == Struct(4, {Member(0, FALSE)})

MCArgTypes == {Integer, Floating, LongDouble, Longs, Doubles, Large}
MCSmall == {Integer, SmallStruct}
=============================================================================
