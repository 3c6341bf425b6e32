-------------------------------- MODULE MCTrust --------------------------------
(* Two CAs for hosts of one domain, or one and a certificate made by hand. *)
EXTENDS Trust

A == <<"a", "com">>
SubA == <<"b", "a", "com">>
B == <<"b", "com">>

MCPlain == {"a", "b", "com", "subdomain"}
MCLowerCase == [c \in {"A"} |-> "a"]
MCNonAscii == {"uml"}

MCInitLists == {{<<"A", "com">>, B}, {<<"*", "a", "com">>}}
MCConfigurations == {{A, <<"*", "a", "com">>}, {B, SubA}}
MCServerNames == {SubA, B}

Sound == [permitted |-> {}, excluded |-> {}, ca |-> TRUE, below |-> TRUE,
          servers |-> TRUE, from |-> 0, until |-> 6]

\* Sound; narrower than its root, and short; with a gap, no CA below it, and an
\* end beyond a root's; not for servers; excluding every name; no CA.
MCRotations ==
    {Sound,
     [Sound EXCEPT !.permitted = {A}, !.until = 2],
     [Sound EXCEPT !.excluded = {<<"">> \o A}, !.below = FALSE, !.from = 1, !.until = 7],
     [Sound EXCEPT !.servers = FALSE],
     [Sound EXCEPT !.excluded = {<<"">>}],
     [Sound EXCEPT !.ca = FALSE]}

===============================================================================
