---------------------------- MODULE MCBlocklist -----------------------------
EXTENDS Blocklist

\* The root, a domain, and one below it.
Chain == {<< >>, <<"com">>, <<"x", "com">>}

BelowRoot == Chain \ {<< >>}
=============================================================================
