------------------------------ MODULE Handshakes ------------------------------
(***************************************************************************)
(* The goroutines that share one issuer: a goroutine per TLS connection    *)
(* runs the callback of sink.TLSConfig (src/internal/sink/sink.go) and,    *)
(* inside it, certSource.GetCertificate (src/cmd/sink/main.go).            *)
(*                                                                         *)
(* The issuer is module Issuer, with its mutex now explicit.  What the     *)
(* goroutines do between two calls of the issuer is where they interleave: *)
(* the size of the cache is read under the mutex, and put into the gauge   *)
(* after it has been released.                                             *)
(***************************************************************************)
EXTENDS Leaves, FiniteSets

CONSTANTS
    CacheSize,     (* i.cacheSize *)
    Conn,          (* the connections that handshake *)
    Gate,          (* the names that TLSConfig's own host check lets through *)
    MaxHandshakes  (* bound of the model: handshakes that may begin *)

\* The gate is as wide as the issuer or wider: it knows no name constraints.
ASSUME GateIsWider == Allowed \subseteq Gate /\ Gate \subseteq SNI

\* Load has seen to it, see Issuer.
ASSUME CacheSizePositive == CacheSize \in Nat \ {0}

ASSUME HandshakesBounded == MaxHandshakes \in Nat

VARIABLES
    clock, high, cache, lru, answer, served, since,    \* of the issuer
    mu,        \* i.mu: the connection whose goroutine holds it, or Free
    pc,        \* where a connection's goroutine is
    sni,       \* the server name of its ClientHello
    outcome,   \* what the issuer returned to it
    entries,   \* the size of the cache that it has read
    gauge,     \* ars_cert_cache_entries
    failures,  \* ars_tls_handshake_failures_total by reason
    started,   \* history: how many handshakes have begun
    completed, \* history: how many ended with a certificate
    alone      \* history: none overlapped the last one that reached the issuer

issuer == <<clock, high, cache, lru, answer, served, since>>
local  == <<sni, outcome, entries>>
counts == <<started, completed>>
vars   == <<issuer, mu, pc, local, gauge, failures, counts, alone>>

Pki == INSTANCE Issuer

Free == "free"
ASSUME FreeIsNoConn == Free \notin Conn

Reason == {"unknown_sni", "other"}

Init == /\ Pki!Init
        /\ mu = Free
        /\ pc = [c \in Conn |-> "idle"]
        /\ sni = [c \in Conn |-> ""]
        /\ outcome = [c \in Conn |-> "silent"]
        /\ entries = [c \in Conn |-> 0]
        /\ gauge = 0
        /\ failures = [r \in Reason |-> 0]
        /\ started = 0
        /\ completed = 0
        /\ alone = TRUE

\* Connection c's goroutine goes on from one point to another.
Goes(c, from, to) == /\ pc[c] = from
                     /\ pc' = [pc EXCEPT ![c] = to]

Fails(reason) == failures' = [failures EXCEPT ![reason] = @ + 1]

Quiet == \A c \in Conn : pc[c] = "idle"

-------------------------------------------------------------------------------

Time == /\ Pki!Tick \/ Pki!StepBack
        /\ UNCHANGED <<mu, pc, local, gauge, failures, counts, alone>>

\* A ClientHello whose name the gate does not let through.
Reject(c, host) ==
    /\ started < MaxHandshakes
    /\ host \notin Gate
    /\ Goes(c, "idle", "idle")
    /\ Fails("unknown_sni")
    /\ started' = started + 1
    /\ UNCHANGED <<issuer, mu, local, gauge, completed, alone>>

\* A ClientHello that the gate passes on to the certificate source.
Admit(c, host) ==
    /\ started < MaxHandshakes
    /\ host \in Gate
    /\ Goes(c, "idle", "lock")
    /\ sni' = [sni EXCEPT ![c] = host]
    /\ started' = started + 1
    /\ alone' = Quiet
    /\ UNCHANGED <<issuer, mu, outcome, entries, gauge, failures, completed>>

\* A possible bug: the issuer does not lock.
NoLock(c) == /\ mu' = c
             /\ Goes(c, "lock", "certify")
             /\ UNCHANGED <<issuer, local, gauge, failures, counts, alone>>

\* i.mu.Lock() in Issuer.GetCertificate.
Lock(c) == /\ mu = Free
           /\ mu' = c
           /\ Goes(c, "lock", "certify")
           /\ UNCHANGED <<issuer, local, gauge, failures, counts, alone>>

\* A possible bug: the unlock is not deferred, and an error skips it.
CertifyUnlockLast(c) ==
    /\ mu = c
    /\ Goes(c, "certify", "measure")
    /\ Pki!GetCertificate(sni[c])
    /\ outcome' = [outcome EXCEPT ![c] = answer'.outcome]
    /\ mu' = IF outcome'[c] \in {"cached", "issued"} THEN Free ELSE c
    /\ UNCHANGED <<sni, entries, gauge, failures, counts, alone>>

\* The rest of Issuer.GetCertificate, and the deferred unlock.
Certify(c) ==
    /\ mu = c
    /\ Goes(c, "certify", "measure")
    /\ Pki!GetCertificate(sni[c])
    /\ outcome' = [outcome EXCEPT ![c] = answer'.outcome]
    /\ mu' = Free
    /\ UNCHANGED <<sni, entries, gauge, failures, counts, alone>>

\* Issuer.CacheLen, which takes the mutex for itself.
Measure(c) ==
    /\ mu = Free
    /\ Goes(c, "measure", "publish")
    /\ entries' = [entries EXCEPT ![c] = Pki!CacheLen]
    /\ UNCHANGED <<issuer, mu, sni, outcome, gauge, failures, counts, alone>>

\* A possible bug: the gauge is set for a certificate only.
PublishCertificate(c) ==
    /\ Goes(c, "publish", "return")
    /\ gauge' = IF outcome[c] \in {"cached", "issued"} THEN entries[c] ELSE gauge
    /\ UNCHANGED <<issuer, mu, local, failures, counts, alone>>

\* metrics.SetCertCacheEntries.
Publish(c) ==
    /\ Goes(c, "publish", "return")
    /\ gauge' = entries[c]
    /\ UNCHANGED <<issuer, mu, local, failures, counts, alone>>

\* A possible bug: a handshake without a CA that is valid is not counted.
ReturnUncounted(c) ==
    /\ Goes(c, "return", "idle")
    /\ IF outcome[c] \in {"cached", "issued"}
       THEN completed' = completed + 1 /\ UNCHANGED failures
       ELSE /\ IF outcome[c] = "not ready" THEN UNCHANGED failures
                                         ELSE Fails("other")
            /\ UNCHANGED completed
    /\ UNCHANGED <<issuer, mu, local, gauge, started, alone>>

\* TLSConfig's callback counts an error and returns.
Return(c) ==
    /\ Goes(c, "return", "idle")
    /\ IF outcome[c] \in {"cached", "issued"}
       THEN completed' = completed + 1 /\ UNCHANGED failures
       ELSE Fails("other") /\ UNCHANGED completed
    /\ UNCHANGED <<issuer, mu, local, gauge, started, alone>>

Step(c) == Lock(c) \/ Certify(c) \/ Measure(c) \/ Publish(c) \/ Return(c)

\* The bound of the model has been reached and nobody waits for anything.
Over == started = MaxHandshakes /\ Quiet /\ UNCHANGED vars

Next == \/ Time
        \/ Over
        \/ \E c \in Conn : Step(c)
        \/ \E c \in Conn, host \in SNI : Reject(c, host) \/ Admit(c, host)

(***************************************************************************)
(* The Go scheduler runs every goroutine that can run, and sync.Mutex      *)
(* starves none that waits for it.                                         *)
(***************************************************************************)
Fairness == \A c \in Conn : WF_vars(Certify(c) \/ Publish(c) \/ Return(c))
                            /\ SF_vars(Lock(c)) /\ SF_vars(Measure(c))

Spec == Init /\ [][Next]_vars /\ Fairness

-------------------------------------------------------------------------------
(* Properties. *)

Point == {"idle", "lock", "certify", "measure", "publish", "return"}

TypeOK ==
    /\ mu \in Conn \union {Free}
    /\ \A c \in Conn : mu = c <=> pc[c] = "certify"
    /\ pc \in [Conn -> Point]
    /\ sni \in [Conn -> SNI \union {""}]
    /\ outcome \in [Conn -> Outcome \union {"silent"}]
    /\ entries \in [Conn -> 0..CacheSize]
    /\ gauge \in 0..CacheSize
    /\ failures \in [Reason -> 0..MaxHandshakes]
    /\ started \in 0..MaxHandshakes
    /\ completed \in 0..MaxHandshakes
    /\ alone \in BOOLEAN

(***************************************************************************)
(* Every handshake that has begun is still running, ended with a           *)
(* certificate, or was counted as a failure once and under one reason.     *)
(***************************************************************************)
EveryHandshakeCounted ==
    started = completed + failures["unknown_sni"] + failures["other"]
              + Cardinality({c \in Conn : pc[c] # "idle"})

(***************************************************************************)
(* The gauge is the size of the cache whenever no handshake is running and *)
(* the last one that reached the issuer overlapped no other, whether that  *)
(* one issued a leaf, evicted one or failed to renew one.                  *)
(***************************************************************************)
GaugeExactWhenAlone == Quiet /\ alone => gauge = Pki!CacheLen

\* A handshake that the gate admits is answered, with a leaf or an error.
EveryHandshakeAnswered ==
    \A c \in Conn : pc[c] = "lock" ~> pc[c] = "idle"

===============================================================================
