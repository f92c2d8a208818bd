---------------------------- MODULE MCPleCache ----------------------------
EXTENDS PleCache

\* Two readers whose rows span pages of the same set: four pages in three ways,
\* so that the two together need more pages than the set holds.
MCPages == {"a", "b", "c", "d"}
MCSetOf == [p \in MCPages |-> 1]
MCRowLists == {<< <<"a", "b">>, <<"c">> >>, << <<"c", "d">>, <<"a">> >>}
=============================================================================
