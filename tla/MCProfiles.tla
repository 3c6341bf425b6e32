-------------------------------- MODULE MCProfiles --------------------------------
(* One bundled profile; up to two of an operator's files, good and bad. *)
EXTENDS Profiles

MCLowerCase == [c \in {"A"} |-> "a"]

Apex == <<"a", "com">>
Below1 == <<"*", "a", "com">>
Other == <<"b", "com">>

Route(hosts_, script) ==
    [hosts |-> hosts_, methods |-> {"GET"}, status |-> 200, rooted |-> TRUE,
     body |-> "inside", script |-> script]

Profile(number, name, list) ==
    [file |-> number, dir |-> "dir", version |-> 1, name |-> name, routes |-> list]

MCBundled == {Profile(1, "ad", <<Route({Apex, Below1}, TRUE), Route({Apex}, FALSE)>>)}

Good == Route({Other}, TRUE)
\* Routes of which no profile may have one.
Bad == <<[Good EXCEPT !.hosts = {<<"A", "com">>}],
         [Good EXCEPT !.hosts = {<<"a", "*", "com">>}],
         [Good EXCEPT !.hosts = {<<"*", "*", "com">>}],
         [Good EXCEPT !.hosts = {}],
         [Good EXCEPT !.methods = {"GET", "PUT"}],
         [Good EXCEPT !.methods = {}],
         [Good EXCEPT !.status = 99],
         [Good EXCEPT !.status = 600],
         [Good EXCEPT !.rooted = FALSE],
         [Good EXCEPT !.body = "none"],
         [Good EXCEPT !.body = "absolute"],
         [Good EXCEPT !.body = "outside"],
         [Good EXCEPT !.body = "missing"],
         [Good EXCEPT !.body = "large"]>>

MCFiles ==
    {Profile(2, "ad", <<Route({Other}, TRUE)>>),
     Profile(3, "own", <<Good, Route({Below1}, FALSE)>>),
     Profile(4, "own", <<Route({Apex}, TRUE)>>),
     Profile(5, "", <<Good>>),
     Profile(6, "none", <<>>),
     [Profile(7, "new", <<Good>>) EXCEPT !.version = 2],
     [Profile(8, "top", <<Good>>) EXCEPT !.dir = "."]}
    \union {Profile(20 + i, "own", <<Good, Bad[i]>>) : i \in DOMAIN Bad}

MCTrees == {{f, g} : f, g \in MCFiles} \union {{}}

MCEnabled == {<<>>, <<"ad">>, <<"ad", "ad">>, <<"own", "ad">>, <<"own">>, <<"top">>}

==================================================================================
