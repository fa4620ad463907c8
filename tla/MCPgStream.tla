----------------------------- MODULE MCPgStream -----------------------------
EXTENDS PgStream

Txn(c, ch) == [commit |-> c, changes |-> ch]
Row(l, n) == [lsn |-> l, len |-> n]

\* Two transactions whose changes interleave in the WAL; the last message ends past
\* its commit.
Interleaved == << Txn(7, <<Row(2, 1), Row(4, 1)>>),
                  Txn(10, <<Row(1, 1), Row(8, 3)>>) >>

\* One transaction after the other.
Plain == << Txn(4, <<Row(1, 1), Row(2, 1)>>), Txn(8, <<Row(6, 1)>>) >>

\* A row whose message is longer than the rest of the transaction's WAL: five
\* bytes a column and its text, where the WAL has four.
WideRow == << Txn(4, <<Row(1, 4), Row(2, 1)>>) >>

\* Two rows of one multi-row insert record, of equal length.
MultiInsert == << Txn(4, <<Row(1, 1), Row(1, 1)>>) >>
=============================================================================
