--------------------------- MODULE MCTableLookup ---------------------------
EXTENDS TableLookup

\* Keys with and without common prefixes, one a prefix of another.
MCKeys == {<<0>>, <<0, 1>>, <<0, 2>>, <<1>>}

\* Names before, between and after them.
MCProbes == MCKeys \cup {<<>>, <<0, 1, 1>>, <<1, 0>>}
=============================================================================
