------------------------------ MODULE MCServer ------------------------------
(* TLC instances of Server. *)
EXTENDS Server

CONSTANTS a, b, c, both, sock1, sock2, pem

\* An interface with two addresses.
ParseValue(v) == IF v = both THEN <<a, b>> ELSE IF v \in Addrs THEN <<v>> ELSE << >>

ListenB == <<b>>
Upstream == <<a>>

\* The certificate cannot be loaded; a value of -acl is not a network.
Rejected == {<<"doh-cert", pem>>, <<"acl", a>>}

\* An address of another host, a path in a directory that does not exist.
NotHere == {<<"udp", c>>, <<"tcp", c>>, sock2}

Config(listen, dohs, apiOn, apiBind, cert, acl) ==
    [lists |-> [NewUserConfig.lists EXCEPT !["listen"] = listen, !["doh"] = dohs,
                                           !["acl"] = acl],
     bools |-> [NewUserConfig.bools EXCEPT !["api"] = apiOn],
     strings |-> [NewUserConfig.strings EXCEPT !["api-bind"] = apiBind,
                                               !["doh-cert"] = cert, !["doh-key"] = cert]]

Line(f, flags) == [file |-> f, flags |-> flags]

\* The API on a path, with addresses from the file and from the command line; the
\* API on its default address, which may be taken; the same address twice; DoH
\* with and without a certificate; options that are refused; an address and a path
\* that cannot be bound.
MCLines ==
    LET plain == Config(<<a>>, << >>, FALSE, Nil, Nil, << >>)
        onPath == Config(<<b>>, << >>, TRUE, sock1, Nil, << >>)
    IN <<Line(onPath, plain), Line(plain, plain),
         Line(Nil, Config(<< >>, << >>, TRUE, Nil, Nil, << >>)),
         Line(Nil, Config(<<a>>, <<b>>, FALSE, Nil, Nil, << >>)),
         Line(plain, Config(<< >>, <<both>>, FALSE, Nil, pem, << >>)),
         Line(Unreadable, plain), Line(plain, Config(<< >>, << >>, FALSE, Nil, Nil, <<a>>)),
         Line(plain, Config(<<c>>, << >>, FALSE, Nil, Nil, << >>)),
         Line(Nil, Config(<<b>>, << >>, TRUE, sock2, Nil, << >>))>>
=============================================================================
