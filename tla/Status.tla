-------------------------------- MODULE Status --------------------------------
(***************************************************************************)
(* /readyz and /status of the ops server (src/internal/ops/ops.go) beside  *)
(* the handshakes, the clock and the drain.                                *)
(*                                                                         *)
(* An answer is put together from several looks at the process: the size   *)
(* of the cache and the readiness of the issuer, each under i.mu and the   *)
(* latter with a clock of its own, then the flag of the drain, then the    *)
(* issuer once more.  Each look is a step here.  The issuer is module      *)
(* Issuer, whose calls hold i.mu from their beginning to their end.        *)
(***************************************************************************)
EXTENDS Leaves

CONSTANTS
    CacheSize,   (* i.cacheSize *)
    Prober       (* those who poll the ops server *)

\* Load has seen to it, see Issuer.
ASSUME CacheSizePositive == CacheSize \in Nat \ {0}

VARIABLES
    clock, high, cache, lru, answer, served, since,    \* of the issuer
    draining,    \* the flag that serve sets when it begins to drain
    pc,          \* which look a prober's request takes next
    entries,     \* pki.leaf_cache_entries of its answer
    pkiReady,    \* pki.ready of its answer
    verdict,     \* "ok" or not: the status, or the code of /readyz
    saw          \* history: what was true while its request ran

issuer == <<clock, high, cache, lru, answer, served, since>>
vars == <<issuer, draining, pc, entries, pkiReady, verdict, saw>>

Pki == INSTANCE Issuer

NotRead == -1   \* pki.leaf_cache_entries before the cache has been looked at

Ready == ReadyAt(clock)
Sound == Ready /\ ~draining

\* History: one moment, and the moments of a request so far.
Moment == [sizes    |-> {Pki!CacheLen},
           ready    |-> {Ready},
           draining |-> {draining},
           sound    |-> {Sound},
           recovered |-> FALSE]

Longer(span) ==
    [sizes    |-> span.sizes \union {Pki!CacheLen'},
     ready    |-> span.ready \union {Ready'},
     draining |-> span.draining \union {draining'},
     sound    |-> span.sound \union {Sound'},
     recovered |-> span.recovered \/ (~Ready /\ Ready')]

Running(p) == pc[p] # "idle"
Goes(p, from, to) == pc[p] = from /\ pc' = [pc EXCEPT ![p] = to]

\* History: every request that runs sees the state after the step.
Watch == saw' = [q \in Prober |-> IF Running(q) THEN Longer(saw[q]) ELSE saw[q]]

Init == /\ Pki!Init
        /\ draining = FALSE
        /\ pc = [p \in Prober |-> "idle"]
        /\ entries = [p \in Prober |-> NotRead]
        /\ pkiReady = [p \in Prober |-> TRUE]
        /\ verdict = [p \in Prober |-> "none"]
        /\ saw = [p \in Prober |-> Moment]

-------------------------------------------------------------------------------

\* Handshakes, and the clock.
Handshake == /\ Pki!Next
             /\ UNCHANGED <<draining, pc, entries, pkiReady, verdict>>
             /\ Watch

\* serve: draining.Store(true).
Drain == /\ draining' = TRUE
         /\ UNCHANGED <<issuer, pc, entries, pkiReady, verdict>>
         /\ Watch

\* A possible bug: the answer before is still there.
AskAgain(p, endpoint) ==
    /\ Goes(p, "idle", IF endpoint = "/status" THEN "entries" ELSE "draining")
    /\ UNCHANGED <<issuer, draining, entries, pkiReady, verdict>>
    /\ Watch

\* A request (of GET or HEAD; /status refuses other methods without a look).
\* /readyz skips the two looks that fill in the body of /status.
Ask(p, endpoint) ==
    /\ Goes(p, "idle", IF endpoint = "/status" THEN "entries" ELSE "draining")
    /\ verdict' = [verdict EXCEPT ![p] = "none"]
    /\ pkiReady' = [pkiReady EXCEPT ![p] = TRUE]
    /\ entries' = [entries EXCEPT ![p] = NotRead]
    /\ UNCHANGED <<issuer, draining>>
    /\ saw' = [q \in Prober |->
                 IF q = p THEN Moment
                 ELSE IF Running(q) THEN Longer(saw[q]) ELSE saw[q]]

\* statusProvider: issuer.CacheLen().
LookAtCache(p) ==
    /\ Goes(p, "entries", "pki")
    /\ entries' = [entries EXCEPT ![p] = Pki!CacheLen]
    /\ UNCHANGED <<issuer, draining, pkiReady, verdict>>
    /\ Watch

\* A possible bug: what the issuer said when the handler was made.
LookAtIssuerOnce(p) ==
    /\ Goes(p, "pki", "draining")
    /\ UNCHANGED <<issuer, draining, entries, pkiReady, verdict>>
    /\ Watch

\* statusProvider: issuer.Ready().
LookAtIssuer(p) ==
    /\ Goes(p, "pki", "draining")
    /\ pkiReady' = [pkiReady EXCEPT ![p] = Ready]
    /\ UNCHANGED <<issuer, draining, entries, verdict>>
    /\ Watch

\* ready: during the drain the issuer is not asked.
LookAtDrain(p) ==
    /\ Goes(p, "draining", IF draining THEN "idle" ELSE "issuer")
    /\ verdict' = [verdict EXCEPT ![p] = IF draining THEN "not ok" ELSE "none"]
    /\ UNCHANGED <<issuer, draining, entries, pkiReady>>
    /\ Watch

\* A possible bug: the status is what the body says of the issuer.
ReuseReady(p) ==
    /\ Goes(p, "issuer", "idle")
    /\ verdict' = [verdict EXCEPT ![p] = IF pkiReady[p] THEN "ok" ELSE "not ok"]
    /\ UNCHANGED <<issuer, draining, entries, pkiReady>>
    /\ Watch

\* ready: issuer.Ready(), which reads the clock again.
Verdict(p) ==
    /\ Goes(p, "issuer", "idle")
    /\ verdict' = [verdict EXCEPT ![p] = IF Ready THEN "ok" ELSE "not ok"]
    /\ UNCHANGED <<issuer, draining, entries, pkiReady>>
    /\ Watch

Look(p) == LookAtCache(p) \/ LookAtIssuer(p) \/ LookAtDrain(p) \/ Verdict(p)

Next == \/ Handshake
        \/ Drain
        \/ \E p \in Prober : Look(p)
        \/ \E p \in Prober, endpoint \in {"/readyz", "/status"} : Ask(p, endpoint)

Spec == Init /\ [][Next]_vars

-------------------------------------------------------------------------------
(* Properties. *)

Span == [sizes : SUBSET Nat, ready : SUBSET BOOLEAN, draining : SUBSET BOOLEAN,
         sound : SUBSET BOOLEAN, recovered : BOOLEAN]

TypeOK ==
    /\ draining \in BOOLEAN
    /\ pc \in [Prober -> {"idle", "entries", "pki", "draining", "issuer"}]
    /\ entries \in [Prober -> Nat \union {NotRead}]
    /\ pkiReady \in [Prober -> BOOLEAN]
    /\ verdict \in [Prober -> {"none", "ok", "not ok"}]
    /\ \A p \in Prober : Running(p) => verdict[p] = "none"
    /\ saw \in [Prober -> Span]

(***************************************************************************)
(* What a prober is told was so at one moment between its request and its  *)
(* answer: whoever is told "not ok" asked a process that did not serve,    *)
(* and whoever is told "ok" one that was ready and not draining.  Only an  *)
(* issuer that becomes ready while it is asked (a clock set, a CA whose    *)
(* window opens) can earn an "ok" just after the drain has begun; whoever  *)
(* asks after that is never told "ok" (operations.md: 503 during drain).   *)
(***************************************************************************)
VerdictHeld ==
    \A p \in Prober :
        /\ verdict[p] = "ok" => TRUE \in saw[p].sound \/ saw[p].recovered
        /\ verdict[p] = "not ok" => FALSE \in saw[p].sound
        /\ verdict[p] = "ok" => FALSE \in saw[p].draining

(***************************************************************************)
(* One /status answer can contradict itself, since its fields are read one *)
(* after the other, but only over a change that happened meanwhile: "ok"   *)
(* with an issuer that is not ready if the issuer became ready, and        *)
(* "degraded" with a ready issuer if it stopped being so or drains.  The   *)
(* number of leaves and the issuer's readiness are ones that there were.   *)
(***************************************************************************)
FieldsDifferOverAChange ==
    \A p \in Prober : verdict[p] # "none" =>
        /\ verdict[p] = "ok" /\ ~pkiReady[p] => saw[p].recovered
        /\ verdict[p] = "not ok" /\ pkiReady[p] =>
              FALSE \in saw[p].ready \/ TRUE \in saw[p].draining
        /\ entries[p] # NotRead => /\ entries[p] \in saw[p].sizes
                                   /\ pkiReady[p] \in saw[p].ready

===============================================================================
