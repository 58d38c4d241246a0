----------------------------- MODULE MCJournal -----------------------------
(* Journal with an asset and a revenue account, one document and a year of two one-day  *)
(* periods.                                                                            *)
EXTENDS Journal

MCYearRanges == {<<0, 1>>}
MCTypeOf == <<"ASSET", "REVENUE">>
MCLineSets == {[accts |-> Accounts, net |-> <<1, -1>>], [accts |-> {1}, net |-> <<1, 0>>]}
=============================================================================
