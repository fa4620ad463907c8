---------------------------- MODULE MCMySQLStream ----------------------------
EXTENDS MySQLStream

Txn(rows) == [kind |-> "txn", rows |-> rows]

\* A DDL statement, a new log file, a transaction over both tables and another.
Mixed == << [kind |-> "ddl"], [kind |-> "rotate"], Txn(<<"b", "a">>), Txn(<<"a">>) >>
=============================================================================
