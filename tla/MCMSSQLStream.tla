---------------------------- MODULE MCMSSQLStream ----------------------------
EXTENDS MSSQLStream

\* A transaction over one table, and one over both.
Mixed == << <<"a">>, <<"b", "a">> >>
=============================================================================
