------------------------------ MODULE MCProxy -------------------------------
(* TLC instances of Proxy. *)
EXTENDS Proxy

CONSTANTS x, c1, c2

\* A list with and one without the rule.
OneRule == {<<x, "ANY">>}
WithOrWithout == {{}, {<<x, "ANY">>}}

\* A rule for one type.
RuleA == {<<x, "A">>}
WithRuleA == {{<<x, "A">>}}

\* Durations of a pause: one to be replaced by the default, and a short one.
Asked == {-2, 1}

Query(client, qtype, valid, via) ==
    [client |-> client, name |-> x, qtype |-> qtype, valid |-> valid, via |-> via]

\* Both types and a query that gets no reply over UDP or TCP, and over HTTPS one for
\* each that DNS64, the ACL and the check of the question tell apart.
MCQueries ==
    {Query(c1, "A", TRUE, "dns"), Query(c1, "AAAA", TRUE, "dns"), Query(c1, "AAAA", TRUE, "doh"),
     Query(c1, "A", FALSE, "dns"), Query(c1, "A", FALSE, "doh"),
     Query(c2, "A", TRUE, "doh")}

\* For the run about permanent records.
PlainQueries == {Query(c1, "A", TRUE, "dns"), Query(c1, "AAAA", TRUE, "dns")}
=============================================================================
