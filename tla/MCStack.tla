------------------------------ MODULE MCStack ------------------------------
EXTENDS StackDashboard
MCJournalUnits == <<"journal">>
MCLineTags == <<"a", "b", "a">>
MCCacheTtl == [units |-> 1, docker |-> 1, containers |-> 1]
============================================================================
