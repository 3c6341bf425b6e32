-------------------------------- MODULE Profiles --------------------------------
(***************************************************************************)
(* How profiles become the routes of the router: the two walks of          *)
(* profile.Load over the bundled profiles and over profiles_dir, the       *)
(* hosts that Config.Validate derives from the enabled ones, NewRouter,    *)
(* and the toast that Config.Routes appends to scripts                     *)
(* (src/internal/profile/profile.go, src/internal/config/config.go).       *)
(*                                                                         *)
(* A file is what parse reads from one profile.yaml, with a number.  A     *)
(* body is a slice: an array of the heap and a length, so that routes may  *)
(* share an array and an append may write behind the end of another slice. *)
(***************************************************************************)
EXTENDS Names, Integers

CONSTANTS
    BundledFiles,  (* the files of profiles.FS *)
    Trees,         (* what profiles_dir may hold: sets of files *)
    EnabledLists   (* values of cfg.Profiles: sequences of names *)

\* Arrays are named by the file and route they are read for; 0 is the router.
ASSUME FilesAreNumbered ==
    \A f, g \in BundledFiles \union UNION Trees :
        f.file > 0 /\ (f.file = g.file => f = g)

\* What the types of parse and of Config allow.
RouteRead == [hosts : SUBSET Name, methods : SUBSET STRING, status : Int,
              rooted : BOOLEAN, body : STRING, script : BOOLEAN]
ASSUME FilesAreTyped ==
    /\ \A f \in BundledFiles \union UNION Trees : f.routes \in Seq(RouteRead)
    /\ EnabledLists \subseteq Seq(STRING)

VARIABLES
    stage,     \* how far startup has come
    tree,      \* the files of profiles_dir
    enabled,   \* cfg.Profiles
    toast,     \* cfg.Toast.Enabled
    todo,      \* files that the walk has still to visit
    items,     \* profiles loaded by this walk: name -> routes
    bundled,   \* those of the first walk
    cfgHosts,  \* cfg.Hosts, which are derived
    router,    \* the router's routes
    heap,      \* the arrays behind the bodies: array -> bytes up to its capacity
    next       \* AppendJavaScript: the route it comes to next

startup == <<tree, enabled, toast>>
loading == <<todo, items, bundled>>
serving == <<cfgHosts, router, heap, next>>
profilesVars == <<stage, startup, loading, serving>>

Empty == [n \in {} |-> <<>>]
Arrays == UNION {{<<f.file, i>> : i \in DOMAIN f.routes} : f \in BundledFiles \union tree}

ProfilesInit ==
    /\ stage = "bundled"
    /\ tree \in Trees
    /\ enabled \in EnabledLists
    /\ toast \in BOOLEAN
    /\ todo = BundledFiles
    /\ items = Empty /\ bundled = Empty
    /\ cfgHosts = {} /\ router = <<>> /\ next = 1
    \* os.ReadFile may return a slice with room behind it
    /\ \E full \in SUBSET Arrays :
          heap = [a \in Arrays |->
                    IF a \in full THEN <<"body">> ELSE <<"body", "free">>]

-------------------------------------------------------------------------------
(* Loading. *)

ValidRoute(r) ==
    /\ r.rooted /\ r.body \notin {"none", "absolute"}
    /\ r.hosts # {} /\ r.methods # {} /\ r.status \in 100..599
    /\ \A h \in r.hosts : ValidHost(h)
    /\ r.methods \subseteq {"GET", "HEAD", "POST", "OPTIONS"}

\* parse: the body is a file below the directory of its profile, up to 1 MiB.
ReadableBody(f, r) == /\ r.body \notin {"outside", "missing", "large"}
                      /\ f.dir # "."

\* parse: the profile has a name.
Named(f) == f.name # ""

Parses(f) == /\ f.version = 1 /\ Named(f)
             /\ f.routes # <<>>
             /\ \A i \in DOMAIN f.routes :
                   ValidRoute(f.routes[i]) /\ ReadableBody(f, f.routes[i])

\* What parse returns: routes that know their body's array.
Parsed(f) == [i \in DOMAIN f.routes |->
                [hosts |-> f.routes[i].hosts, script |-> f.routes[i].script,
                 body |-> [array |-> <<f.file, i>>, len |-> 1]]]

With(map, name, value) ==
    [n \in DOMAIN map \union {name} |-> IF n = name THEN value ELSE map[n]]

\* A possible bug: a profile that does not parse is passed over.
VisitValid(f) ==
    /\ stage \in {"bundled", "operator"} /\ f \in todo
    /\ todo' = todo \ {f}
    /\ items' = IF Parses(f) THEN With(items, f.name, Parsed(f)) ELSE items
    /\ UNCHANGED <<stage, startup, bundled, serving>>

\* loadFS comes to a file called profile.yaml.
Visit(f) ==
    /\ stage \in {"bundled", "operator"} /\ f \in todo
    /\ \/ /\ ~Parses(f) \/ f.name \in DOMAIN items
          /\ stage' = "refused"
          /\ UNCHANGED <<todo, items>>
       \/ /\ Parses(f) /\ f.name \notin DOMAIN items
          /\ todo' = todo \ {f}
          /\ items' = With(items, f.name, Parsed(f))
          /\ UNCHANGED stage
    /\ UNCHANGED <<startup, bundled, serving>>

\* Load goes on with profiles_dir; without one its tree is empty.
NextWalk == /\ stage = "bundled" /\ todo = {}
            /\ stage' = "operator"
            /\ todo' = tree
            /\ bundled' = items /\ items' = Empty
            /\ UNCHANGED <<startup, serving>>

\* Load: an operator's profile replaces the bundled one of its name.
Overlay ==
    /\ stage = "operator" /\ todo = {}
    /\ stage' = "loaded"
    /\ items' = [n \in DOMAIN bundled \union DOMAIN items |->
                   IF n \in DOMAIN items THEN items[n] ELSE bundled[n]]
    /\ UNCHANGED <<todo, bundled, startup, serving>>

-------------------------------------------------------------------------------
(* Validate, without hosts of its own, and Routes. *)

AllHosts(list) == UNION {list[i].hosts : i \in DOMAIN list}

\* NewRouter: the routes of the enabled profiles, in their order.
NewRouter == FlattenSeq([i \in DOMAIN enabled |-> items[enabled[i]]])

\* ProfileMatchesHost, for some enabled profile.
ProfilesMatch(host) ==
    \E i \in DOMAIN NewRouter : \E p \in NewRouter[i].hosts : Matches(p, host)

\* Validate, for hosts that are not configured.
Derived == AllHosts(NewRouter)

\* Validate derives the hosts and checks them; Routes makes the router.
ValidateProfiles ==
    /\ stage = "loaded"
    /\ IF enabled = <<>> \/ \E i \in DOMAIN enabled : enabled[i] \notin DOMAIN items
       THEN stage' = "unknown profile" /\ UNCHANGED serving
       ELSE /\ cfgHosts' = {NormalizeHost(h) : h \in Derived}
            /\ stage' = IF \A h \in cfgHosts' : h # Invalid /\ ProfilesMatch(h)
                        THEN "routes" ELSE "host refused"
            /\ router' = NewRouter
            /\ UNCHANGED <<heap, next>>
    /\ UNCHANGED <<startup, loading>>

\* The bytes of a slice.
Bytes(slice) == SubSeq(heap[slice.array], 1, slice.len)

\* A possible bug: a route that shares its body is a pointer to the other.
AppendToShared(i, slice) ==
    /\ heap' = [heap EXCEPT ![slice.array] = Append(Bytes(slice), "toast")]
    /\ router' = [j \in DOMAIN router |->
                    IF router[j].body = slice THEN [router[j] EXCEPT !.body.len = @ + 1]
                    ELSE router[j]]

\* A possible bug: the slice is longer than the array behind it.
AppendPastEnd(i, slice) ==
    /\ router' = [router EXCEPT ![i].body.len = slice.len + 1]
    /\ UNCHANGED heap

\* append(slice, suffix...): into the room behind it, or into a new array.
AppendTo(i, slice) ==
    LET end == slice.len + 1
        fits == end <= Len(heap[slice.array])
        array == IF fits THEN slice.array ELSE <<0, i>>
    IN  /\ heap' = IF fits THEN [heap EXCEPT ![array] = [@ EXCEPT ![end] = "toast"]]
                   ELSE With(heap, array, Append(Bytes(slice), "toast"))
        /\ router' = [router EXCEPT ![i] =
                         [@ EXCEPT !.body = [array |-> array, len |-> end]]]

\* AppendJavaScript, one route: only a JavaScript content type gets the toast.
AppendJavaScript ==
    /\ stage = "routes" /\ toast /\ next \in DOMAIN router
    /\ next' = next + 1
    /\ IF router[next].script THEN AppendTo(next, router[next].body)
                              ELSE UNCHANGED <<heap, router>>
    /\ UNCHANGED <<stage, startup, loading, cfgHosts>>

Serve == /\ stage = "routes" /\ (toast => next \notin DOMAIN router)
         /\ stage' = "serving"
         /\ UNCHANGED <<startup, loading, serving>>

ProfilesNext ==
    \/ \E f \in todo : Visit(f)
    \/ NextWalk \/ Overlay \/ ValidateProfiles \/ AppendJavaScript \/ Serve

ProfilesSpec == ProfilesInit /\ [][ProfilesNext]_profilesVars

-------------------------------------------------------------------------------
(* Properties. *)

Loaded == stage \in {"loaded", "unknown profile", "host refused", "routes", "serving"}

\* The file that says what profile n is.
Source(n) == LET own == {f \in tree : f.name = n}
             IN  CHOOSE f \in (IF own # {} THEN own
                               ELSE {b \in BundledFiles : b.name = n}) : TRUE

ProfilesTypeOK ==
    /\ todo \subseteq BundledFiles \union tree
    /\ next \in 1..(Len(router) + 1)
    /\ \A i \in DOMAIN router :
          router[i].body.len <= Len(heap[router[i].body.array])
    /\ stage # "serving" \/ cfgHosts # {}

(***************************************************************************)
(* Whatever the order of the walk, what is loaded is the bundled profiles  *)
(* overlaid with the operator's: every file that was found is in force     *)
(* with all of its routes, a replaced profile keeps none of its own, and   *)
(* no name is lost.  A tree with one bad or doubled file loads nothing,    *)
(* and Config.Validate never refuses a host that it derives from what was  *)
(* loaded; FilterHosts (in Scope) is stricter, and may.                    *)
(***************************************************************************)
LoadedIsOverlay ==
    /\ stage # "host refused"
    /\ Loaded =>
          /\ DOMAIN items = {f.name : f \in BundledFiles \union tree}
          /\ \A n \in DOMAIN items : items[n] = Parsed(Source(n))
          /\ \A f \in tree : Parses(f) /\ Source(f.name) = f

(***************************************************************************)
(* Every script is served with one toast and every other body as it was    *)
(* read, also when a profile is enabled twice and its routes share the     *)
(* arrays that the toast is appended to.                                   *)
(***************************************************************************)
OneToastPerScript ==
    stage = "serving" =>
        \A i \in DOMAIN router :
            Bytes(router[i].body) =
                IF toast /\ router[i].script THEN <<"body", "toast">> ELSE <<"body">>

===============================================================================
