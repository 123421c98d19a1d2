----------------------------- MODULE MCLogStream -----------------------------
EXTENDS LogStream

Entries == 1..MaxLog

\* TCP clients have an address each.
OwnAddress == [s \in Streams |-> s]
=============================================================================
