-------------------------------- MODULE MCGroups -------------------------------
(* Groups with three small programs. *)
EXTENDS Groups

MCLower == <<>>

Rooted(path)   == [rooted |-> TRUE, path |-> path]
Unrooted(path) == [rooted |-> FALSE, path |-> path]

api   == Static("api")
users == Static("users")

\* Several owners of a slice
Sharing ==
    [prefixes |-> {Rooted(<<api>>)}, patterns |-> {Rooted(<<users>>)}, lists |-> {<<>>, <<"list">>},
     hosts |-> {}, spares |-> {0, 1}, MaxCalls |-> 5]

\* Broken middlewares
Breaking ==
    [Sharing EXCEPT !.lists = {<<"list">>, <<"list", Broken>>}, !.hosts = {"host"}, !.MaxCalls = 4]

\* Prefixes and patterns of all forms
Joining ==
    [prefixes |-> {NoText, Rooted(Root), Rooted(<<api, Empty>>), Unrooted(<<api, Empty, users>>),
                   Rooted(<<Up, api>>)},
     patterns |-> {NoText, Rooted(Root), Unrooted(<<users>>), Rooted(<<users>>),
                   Rooted(<<users, Empty>>), Rooted(<<Up, users>>)},
     lists |-> {<<>>}, hosts |-> {"host"}, spares |-> {0}, MaxCalls |-> 4]

MCMiddleware == {"common", "more", "other", "list", Broken}

MCPrograms == {Sharing, Breaking, Joining}
=============================================================================
