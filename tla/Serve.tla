--------------------------------- MODULE Serve ---------------------------------
(***************************************************************************)
(* The life of the serve process (serve in src/cmd/sink/main.go): startup, *)
(* the two HTTP servers, signals, the drain and the shutdown.              *)
(*                                                                         *)
(* Four kinds of actors interleave: the main goroutine, the goroutine of   *)
(* each server, the operating system (signals, time) and, outside the      *)
(* repository, the load balancer that polls /readyz and routes clients to  *)
(* the sink while the last answer was "ok".  The issuer stays ready here.  *)
(***************************************************************************)
EXTENDS Naturals, Sequences

CONSTANTS
    Client,           (* clients, each with one request *)
    ShutdownDelay,    (* limits.shutdown_delay, in ticks *)
    ShutdownTimeout,  (* limits.shutdown_timeout, in ticks *)
    ProbePeriod       (* the longest time between two polls of /readyz *)

\* The documented use of the delay: readiness is polled before it is over.
ASSUME ProbeBeforeDelayEnds ==
    /\ ShutdownDelay \in Nat
    /\ ShutdownTimeout \in Nat \ {0}
    /\ ProbePeriod \in Nat \ {0}
    /\ ProbePeriod < ShutdownDelay

VARIABLES
    main,      \* where the main goroutine is
    exit,      \* how the process has ended, or "none"
    listener,  \* the state of a server's listening socket
    server,    \* the state of a server's goroutine
    stopping,  \* servers whose Shutdown has been called
    errCh,     \* results of Serve that main has not received
    signalCh,  \* signals that main has not received
    draining,  \* what /readyz looks at
    left,      \* ticks left of the sleep, and later of the context
    client,    \* what has become of a client's request
    routing,   \* the load balancer sends clients here
    probeAge,  \* ticks since the load balancer last polled
    signalled, \* history: a signal was sent to the process
    wasReady   \* history: /readyz has answered "ok"

sockets  == <<listener, server, stopping>>
channels == <<errCh, signalCh>>
balancer == <<routing, probeAge>>
history  == <<signalled, wasReady>>
vars == <<main, exit, sockets, channels, draining, left, client, balancer, history>>

Server == {"sink", "ops"}

Init == /\ main = "load"
        /\ exit = "none"
        /\ listener = [s \in Server |-> "none"]
        /\ server = [s \in Server |-> "off"]
        /\ stopping = {}
        /\ errCh = <<>>
        /\ signalCh = 0
        /\ draining = FALSE
        /\ left = 0
        /\ client = [c \in Client |-> "away"]
        /\ routing = FALSE
        /\ probeAge = 0
        /\ signalled = FALSE
        /\ wasReady = FALSE

Running == exit = "none"

\* main goes on from one point to the next.
Goes(from, to) == Running /\ main = from /\ main' = to

\* Connections that are not accepted when a socket closes are reset.
Reset == client' = [c \in Client |-> IF client[c] = "queued" THEN "refused"
                                    ELSE client[c]]

\* The process ends, and the kernel closes what it leaves open.
Ends(how) ==
    /\ main' = "gone"
    /\ exit' = how
    /\ listener' = [s \in Server |-> "closed"]
    /\ client' = [c \in Client |-> CASE client[c] = "queued" -> "refused"
                                     [] client[c] = "active" -> "cut"
                                     [] OTHER -> client[c]]
    /\ UNCHANGED <<server, stopping, channels, draining, left, balancer, history>>

-------------------------------------------------------------------------------
(* The main goroutine. *)

\* Configuration, CA material, issuer and routes: nothing is open yet.
Prepare == /\ Goes("load", "listen sink")
           /\ UNCHANGED <<exit, sockets, channels, draining, left, client, balancer, history>>

\* Any of them is refused, or an address cannot be bound.
Abort == /\ Running
         /\ main \in {"load", "listen sink", "listen ops"}
         /\ Ends("error")

Listen(s, from, to) ==
    /\ Goes(from, to)
    /\ listener' = [listener EXCEPT ![s] = "open"]
    /\ UNCHANGED <<exit, server, stopping, channels, draining, left, client, balancer, history>>

\* The two go statements.
StartServers ==
    /\ Goes("start", "notify")
    /\ server' = [s \in Server |-> "starting"]
    /\ UNCHANGED <<exit, listener, stopping, channels, draining, left, client, balancer, history>>

\* signal.Notify: from here on signals go to signalCh.
Notify == /\ Goes("notify", "select")
          /\ UNCHANGED <<exit, sockets, channels, draining, left, client, balancer, history>>

\* A possible bug: readiness fails only once the sleep is over.
TakeSignalSleepFirst ==
    /\ Goes("select", "drain")
    /\ signalCh > 0
    /\ signalCh' = signalCh - 1
    /\ left' = ShutdownDelay
    /\ UNCHANGED <<exit, sockets, errCh, draining, client, balancer, history>>

TakeSignal ==
    /\ Goes("select", "drain")
    /\ signalCh > 0
    /\ signalCh' = signalCh - 1
    /\ draining' = TRUE
    /\ left' = ShutdownDelay
    /\ UNCHANGED <<exit, sockets, errCh, client, balancer, history>>

\* A Serve has returned: an error other than ErrServerClosed ends serve.
TakeError ==
    /\ Running
    /\ main = "select"
    /\ errCh # <<>>
    /\ IF Head(errCh) = "failed"
       THEN Ends("error")
       ELSE /\ main' = "close sink"
            /\ errCh' = Tail(errCh)
            /\ left' = ShutdownTimeout
            /\ UNCHANGED <<exit, sockets, signalCh, draining, client, balancer, history>>

\* The sleep is over: one context covers both shutdowns.
Wake == /\ Goes("drain", "close sink")
        /\ left = 0
        /\ left' = ShutdownTimeout
        /\ UNCHANGED <<exit, sockets, channels, draining, client, balancer, history>>

\* Shutdown closes the listeners that its server has begun to serve.
CloseListener(s) ==
    /\ stopping' = stopping \union {s}
    /\ listener' = IF server[s] = "serving"
                   THEN [listener EXCEPT ![s] = "closed"] ELSE listener

CloseSink == /\ Goes("close sink", "await sink")
             /\ CloseListener("sink")
             /\ IF listener'["sink"] = "closed" THEN Reset ELSE UNCHANGED client
             /\ UNCHANGED <<exit, server, channels, draining, left, balancer, history>>

\* A possible bug: Close in place of Shutdown, which waits for nobody.
SinkClosed == /\ Goes("await sink", "close ops")
              /\ client' = [c \in Client |-> IF client[c] = "active" THEN "cut"
                                             ELSE client[c]]
              /\ UNCHANGED <<exit, sockets, channels, draining, left, balancer, history>>

\* Shutdown returns nil once no connection is active.
SinkStopped == /\ Goes("await sink", "close ops")
               /\ \A c \in Client : client[c] # "active"
               /\ UNCHANGED <<exit, sockets, channels, draining, left, client, balancer, history>>

\* A possible bug: the context has no deadline.
SinkOutOfTime == /\ Running
                 /\ main = "await sink"
                 /\ left = 0
                 /\ \A c \in Client : client[c] # "active"
                 /\ Ends("error")

\* It returns the context's error instead, and serve returns that.
SinkTimesOut == /\ Running
                /\ main = "await sink"
                /\ left = 0
                /\ Ends("error")

CloseOps == /\ Goes("close ops", "await ops")
            /\ CloseListener("ops")
            /\ UNCHANGED <<exit, server, channels, draining, left, client, balancer, history>>

OpsStopped == /\ Running
              /\ main = "await ops"
              /\ Ends("ok")

\* Somebody still reads from /metrics when the context ends.
OpsTimesOut == /\ Running
               /\ main = "await ops"
               /\ left = 0
               /\ Ends("error")

MainStep == \/ Prepare
            \/ Abort
            \/ Listen("sink", "listen sink", "listen ops")
            \/ Listen("ops", "listen ops", "start")
            \/ StartServers
            \/ Notify
            \/ TakeSignal
            \/ TakeError
            \/ Wake
            \/ CloseSink
            \/ SinkStopped
            \/ SinkTimesOut
            \/ CloseOps
            \/ OpsStopped
            \/ OpsTimesOut

-------------------------------------------------------------------------------
(* The goroutines of the servers: errCh <- server.Serve(listener). *)

\* Serve begins, unless Shutdown has been there before it.
Begin(s) ==
    /\ Running
    /\ server[s] = "starting"
    /\ s \notin stopping
    /\ server' = [server EXCEPT ![s] = "serving"]
    /\ UNCHANGED <<main, exit, listener, stopping, channels, draining, left, client, balancer, history>>

\* Serve returns: it closes its listener and the result goes to errCh.
Returns(s, result) ==
    /\ server' = [server EXCEPT ![s] = "stopped"]
    /\ listener' = [listener EXCEPT ![s] = "closed"]
    /\ IF s = "sink" THEN Reset ELSE UNCHANGED client
    /\ errCh' = Append(errCh, result)
    /\ UNCHANGED <<main, exit, stopping, signalCh, draining, left, balancer, history>>

ServerClosed(s) == /\ Running
                   /\ server[s] \in {"starting", "serving"}
                   /\ s \in stopping
                   /\ Returns(s, "closed")

\* A possible bug: Serve is called again after it has failed.
ServerFailsAgain(s) == /\ Running
                       /\ server[s] \in {"serving", "stopped"}
                       /\ s \notin stopping
                       /\ Returns(s, "failed")

ServerFails(s) == /\ Running
                  /\ server[s] = "serving"
                  /\ s \notin stopping
                  /\ Returns(s, "failed")

\* The accept loop of the sink takes a connection.
Acceptable(c) == /\ Running
                 /\ server["sink"] = "serving"
                 /\ listener["sink"] = "open"
                 /\ client[c] = "queued"

Accept(c) ==
    /\ Acceptable(c)
    /\ client' = [client EXCEPT ![c] = "active"]
    /\ UNCHANGED <<main, exit, sockets, channels, draining, left, balancer, history>>

Respond(c) ==
    /\ Running
    /\ client[c] = "active"
    /\ client' = [client EXCEPT ![c] = "answered"]
    /\ UNCHANGED <<main, exit, sockets, channels, draining, left, balancer, history>>

-------------------------------------------------------------------------------
(* The environment. *)

\* SIGTERM or an interrupt: by default it kills; signalCh holds one.
Signal ==
    /\ Running
    /\ signalled' = TRUE
    /\ IF main \in {"load", "listen sink", "listen ops", "start", "notify"}
       THEN /\ main' = "gone"
            /\ exit' = "killed"
            /\ listener' = [s \in Server |-> "closed"]
            /\ client' = [c \in Client |-> CASE client[c] = "queued" -> "refused"
                                             [] client[c] = "active" -> "cut"
                                             [] OTHER -> client[c]]
            /\ UNCHANGED signalCh
       ELSE /\ signalCh' = 1
            /\ UNCHANGED <<main, exit, listener, client>>
    /\ UNCHANGED <<server, stopping, errCh, draining, left, balancer, wasReady>>

\* /readyz answers "ok": the ops server serves and nothing drains.
Ready == Running /\ server["ops"] = "serving" /\ listener["ops"] = "open" /\ ~draining

\* The load balancer polls.
Probe == /\ routing' = Ready
         /\ wasReady' = (wasReady \/ Ready)
         /\ probeAge' = 0
         /\ UNCHANGED <<main, exit, sockets, channels, draining, left, client, signalled>>

\* The load balancer sends a client to the sink.
Connect(c) ==
    /\ routing
    /\ client[c] = "away"
    /\ client' = [client EXCEPT ![c] =
                    IF listener["sink"] = "open" THEN "queued" ELSE "refused"]
    /\ UNCHANGED <<main, exit, sockets, channels, draining, left, balancer, history>>

(***************************************************************************)
(* Time passes, but not past a poll that is due, a goroutine that has not  *)
(* begun or a connection that the accept loop can take: all are quick      *)
(* against a tick.                                                         *)
(***************************************************************************)
Tick == /\ probeAge < ProbePeriod
        /\ Running => \A s \in Server : server[s] # "starting"
        /\ \A c \in Client : ~Acceptable(c)
        /\ probeAge' = probeAge + 1
        /\ left' = IF left > 0 THEN left - 1 ELSE 0
        /\ UNCHANGED <<main, exit, sockets, channels, draining, client, routing, history>>

Next == \/ MainStep
        \/ \E s \in Server : Begin(s) \/ ServerClosed(s) \/ ServerFails(s)
        \/ \E c \in Client : Accept(c) \/ Respond(c) \/ Connect(c)
        \/ Signal
        \/ Probe
        \/ Tick

(***************************************************************************)
(* Goroutines that can run do, time passes and the load balancer polls.    *)
(* Nothing makes a client finish its request, or anybody send a signal.    *)
(***************************************************************************)
Fairness == /\ WF_vars(MainStep)
            /\ \A s \in Server : WF_vars(Begin(s) \/ ServerClosed(s))
            /\ \A c \in Client : WF_vars(Accept(c))
            /\ WF_vars(Probe)
            /\ WF_vars(Tick)

Spec == Init /\ [][Next]_vars /\ Fairness

-------------------------------------------------------------------------------
(* Properties. *)

Fate == {"away", "queued", "active", "answered", "refused", "cut"}

TypeOK ==
    /\ main \in {"load", "listen sink", "listen ops", "start", "notify",
                 "select", "drain", "close sink", "await sink", "close ops",
                 "await ops", "gone"}
    /\ exit \in {"none", "ok", "error", "killed"}
    /\ main = "gone" <=> exit # "none"
    /\ listener \in [Server -> {"none", "open", "closed"}]
    /\ server \in [Server -> {"off", "starting", "serving", "stopped"}]
    /\ stopping \subseteq Server
    /\ errCh \in Seq({"failed", "closed"}) /\ Len(errCh) <= 2
    /\ signalCh \in 0..1
    /\ draining \in BOOLEAN
    /\ left \in 0..(ShutdownDelay + ShutdownTimeout)
    /\ client \in [Client -> Fate]
    /\ routing \in BOOLEAN
    /\ probeAge \in 0..ProbePeriod
    /\ signalled \in BOOLEAN
    /\ wasReady \in BOOLEAN

AServerFailed == \E i \in DOMAIN errCh : errCh[i] = "failed"

(***************************************************************************)
(* A load balancer that polls /readyz more often than the delay lasts      *)
(* sends no client to a closed socket: clients are refused only when the   *)
(* process is killed or a server fails of itself.                          *)
(***************************************************************************)
DrainRefusesNobody ==
    (\E c \in Client : client[c] = "refused") => exit = "killed" \/ AServerFailed

(***************************************************************************)
(* A request that the sink has taken is answered, or cut when the timeout  *)
(* of the shutdown is over, the process is killed or a server fails.       *)
(***************************************************************************)
ShutdownCutsNobodyEarly ==
    (\E c \in Client : client[c] = "cut") =>
        \/ exit = "killed"
        \/ AServerFailed
        \/ exit = "error" /\ left = 0

(***************************************************************************)
(* A process that was signalled ends, even if a client never finishes and  *)
(* whatever the servers do meanwhile; and a process one of whose servers   *)
(* fails does not live on with the other.                                  *)
(***************************************************************************)
ProcessEnds == /\ signalled ~> ~Running
               /\ AServerFailed ~> ~Running

(***************************************************************************)
(* src/site/content/operations.md: on SIGTERM or interrupt the service     *)
(* fails readiness and drains.  So a process that has been ready is not    *)
(* killed by a signal.                                                     *)
(***************************************************************************)
SignalDrains == exit = "killed" => ~wasReady

===============================================================================
