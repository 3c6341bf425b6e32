-------------------------------- MODULE MCScope --------------------------------
(* One registrable domain with hosts two levels below it, and another. *)
EXTENDS Scope

Com(labels) == labels \o <<"com">>

Apex == Com(<<"a">>)
Sub == Com(<<"b", "a">>)
Other == Com(<<"b">>)
Odd == Com(<<"_", "a">>)
All == Com(<<"*", "a">>)
AllOfSub == Com(<<"*", "b", "a">>)
Stars == <<"*", "com", "*">>

MCPlain == {"a", "b", "com", "subdomain"}
MCLowerCase == [c \in {"A", "B"} |-> IF c = "A" THEN "a" ELSE "b"]
MCNonAscii == {"uml"}

MCHostLists ==
    {{}, {Apex}, {All}, {Apex, All}, {AllOfSub, Other}, {All, Other, Sub},
     {Com(<<"A">>) \o <<"">>}, {Com(<<"*", "A">>)}, {Odd}, {Apex, Odd},
     {<<"">>}, {Com(<<"subdomain">>)}, {Com(<<"uml", "a">>)}}

Cert(permitted, excluded) == [permitted |-> permitted, excluded |-> excluded]

MCCertificates ==
    {Cert({}, {}), Cert({Apex}, {}), Cert({<<"">> \o Apex}, {Other}),
     Cert({Com(<<"A">>) \o <<"">>, Other}, {Sub}), Cert({Other}, {}),
     Cert({}, {<<"">> \o Sub})}

Route(hosts_, path, methods, cors) ==
    [hosts |-> hosts_, path |-> path, methods |-> methods, cors |-> cors]

MCRouteTables ==
    {<<Route({Apex, All}, "x", {"GET"}, TRUE), Route({Apex, All}, "x", {"POST"}, FALSE)>>,
     <<Route({All, Odd, Stars}, "x", {"POST"}, FALSE), Route({Other, All}, "x", {"GET"}, TRUE),
       Route({Other}, "y", {"GET", "OPTIONS"}, TRUE)>>,
     <<Route({Apex}, "y", {"GET"}, FALSE), Route({All, Other}, "x", {"POST"}, TRUE)>>}

MCAsked ==
    {Apex, Sub, Other, Odd, All, <<"">>, <<"com">>, <<"">> \o Apex,
     Com(<<"A">>) \o <<"">>, Com(<<"B", "A">>), Com(<<"a", "b", "a">>),
     Com(<<"subdomain", "a">>), Com(<<"uml", "a">>), Com(<<"b", "b">>)}
===============================================================================
