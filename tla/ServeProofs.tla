------------------------------ MODULE ServeProofs ------------------------------
(***************************************************************************)
(* Proofs about the serve process, for any clients, delay, timeout and     *)
(* period of the polls that the assumption of Serve allows.                *)
(*                                                                         *)
(* As long as no server fails of itself (Calm), the load balancer learns   *)
(* of the drain while the sink still accepts: a balancer that has not      *)
(* polled since the drain began is owed a poll before the delay is over.   *)
(***************************************************************************)
EXTENDS Serve, SequenceTheorems, TLAPS

-------------------------------------------------------------------------------
(* The invariant. *)

Before  == {"load", "listen sink", "listen ops", "start"}
Serving == {"notify", "select", "drain"}
Ending  == {"close sink", "await sink", "close ops", "await ops"}

Types ==
    /\ main \in Before \union Serving \union Ending \union {"gone"}
    /\ exit \in {"none", "ok", "error", "killed"}
    /\ main = "gone" <=> exit # "none"
    /\ listener \in [Server -> {"none", "open", "closed"}]
    /\ server \in [Server -> {"off", "starting", "serving", "stopped"}]
    /\ stopping \subseteq Server
    /\ errCh \in Seq({"failed", "closed"})
    /\ signalCh \in 0..1
    /\ draining \in BOOLEAN
    /\ left \in 0..(ShutdownDelay + ShutdownTimeout)
    /\ client \in [Client -> Fate]
    /\ routing \in BOOLEAN
    /\ probeAge \in 0..ProbePeriod
    /\ signalled \in BOOLEAN
    /\ wasReady \in BOOLEAN

\* A result in errCh comes from a server that has stopped.
Stopped(s) == IF server[s] = "stopped" THEN 1 ELSE 0
Results == Len(errCh) <= Stopped("sink") + Stopped("ops")

Shape ==
    /\ main \in Before =>
          /\ \A s \in Server : server[s] = "off" /\ listener[s] # "closed"
          /\ \A c \in Client : client[c] = "away"
          /\ ~routing
    /\ main \in {"listen ops", "start"} => listener["sink"] = "open"
    /\ main \in Serving \union Ending => \A s \in Server : server[s] # "off"
    /\ main \in Before \union Serving \union {"close sink"} => stopping = {}
    /\ main \in {"await sink", "close ops", "await ops"} => "sink" \in stopping
    /\ "sink" \in stopping /\ server["sink"] = "serving" => listener["sink"] # "open"
    /\ stopping = {} => \A i \in 1..Len(errCh) : errCh[i] = "failed"
    /\ main \in Ending \union {"drain"} => draining
    /\ main = "gone" => listener["sink"] = "closed"

\* No server has failed of itself.
Calm ==
    /\ \A s \in Server : server[s] = "stopped" => s \in stopping
    /\ main \in Serving \union {"close sink"} => listener["sink"] = "open"
    /\ main = "drain" /\ routing => left + probeAge >= ShutdownDelay
    /\ main \in Ending => ~routing
    /\ exit \in {"ok", "error"} => ~routing
    /\ \A c \in Client : client[c] = "queued" =>
          main \in Serving /\ (main = "drain" => left > 0)
    /\ main \in {"close ops", "await ops"} => \A c \in Client : client[c] # "active"
    /\ \A c \in Client : client[c] = "refused" => exit = "killed"
    /\ \A c \in Client : client[c] = "cut" =>
          exit = "killed" \/ (exit = "error" /\ left = 0)

IInv == Types /\ Results /\ Shape /\ (AServerFailed \/ Calm)

-------------------------------------------------------------------------------
(* Helpers. *)

\* The failures in errCh, by position; before a step and after it.
LEMMA Failed ==
  ASSUME errCh \in Seq({"failed", "closed"})
  PROVE  AServerFailed <=> \E i \in 1..Len(errCh) : errCh[i] = "failed"
  BY LenProperties DEF AServerFailed

LEMMA FailedNext ==
  ASSUME errCh' \in Seq({"failed", "closed"})
  PROVE  AServerFailed' <=> \E i \in 1..Len(errCh') : errCh'[i] = "failed"
  BY LenProperties DEF AServerFailed

\* A process that ends cuts and refuses those it has not answered.
LEMMA EndsProperly ==
  ASSUME Types, NEW how \in {"ok", "error"}, Ends(how)
  PROVE  /\ main' = "gone" /\ exit' = how
         /\ \A s \in Server : listener'[s] = "closed"
         /\ client' \in [Client -> Fate] /\ listener' \in [Server -> {"none", "open", "closed"}]
         /\ \A c \in Client : client'[c] # "queued"
         /\ \A c \in Client : client'[c] = "refused" => client[c] \in {"queued", "refused"}
         /\ \A c \in Client : client'[c] = "cut" => client[c] \in {"active", "cut"}
         /\ UNCHANGED <<server, stopping, errCh, signalCh, draining, left, routing,
                        probeAge, signalled, wasReady>>
  BY DEF Ends, Types, Fate, channels, balancer, history

-------------------------------------------------------------------------------
(* One step. *)

\* The delay and the timeout fit into left.
LEMMA Bounds ==
  /\ ShutdownTimeout \in 0..(ShutdownDelay + ShutdownTimeout)
  /\ ShutdownDelay \in 0..(ShutdownDelay + ShutdownTimeout)
  /\ ShutdownDelay \in Nat /\ ShutdownTimeout \in Nat /\ ProbePeriod \in Nat
  BY ProbeBeforeDelayEnds

\* A result is put at the end of the channel, and taken from its beginning.
LEMMA Channel ==
  ASSUME errCh \in Seq({"failed", "closed"})
  PROVE  /\ \A x \in {"failed", "closed"} :
              /\ Append(errCh, x) \in Seq({"failed", "closed"})
              /\ Len(Append(errCh, x)) = Len(errCh) + 1
              /\ \A i \in 1..Len(errCh) : Append(errCh, x)[i] = errCh[i]
              /\ Append(errCh, x)[Len(errCh) + 1] = x
         /\ errCh # <<>> =>
              /\ Tail(errCh) \in Seq({"failed", "closed"})
              /\ Len(Tail(errCh)) = Len(errCh) - 1
              /\ Head(errCh) = errCh[1] /\ 1 \in 1..Len(errCh)
         /\ Len(errCh) \in Nat
<1>1. Len(errCh) \in Nat
  BY LenProperties
<1>2. ASSUME NEW x \in {"failed", "closed"}
      PROVE  /\ Append(errCh, x) \in Seq({"failed", "closed"})
             /\ Len(Append(errCh, x)) = Len(errCh) + 1
             /\ \A i \in 1..Len(errCh) : Append(errCh, x)[i] = errCh[i]
             /\ Append(errCh, x)[Len(errCh) + 1] = x
  BY AppendProperties
<1>3. ASSUME errCh # <<>>
      PROVE  /\ Tail(errCh) \in Seq({"failed", "closed"})
             /\ Len(Tail(errCh)) = Len(errCh) - 1
             /\ Head(errCh) = errCh[1] /\ 1 \in 1..Len(errCh)
  BY <1>1, <1>3, HeadTailProperties, EmptySeq
<1> QED BY <1>1, <1>2, <1>3

\* Every action keeps the types.
LEMMA StepTypes ==
  ASSUME Types, Next
  PROVE  Types'
<1> USE DEF Running, Goes, sockets, channels, balancer, history
<1>1. CASE Prepare
  BY <1>1 DEF Prepare, Types, Before, Serving, Ending, Server, Fate
<1>2. CASE Abort
  BY EndsProperly, <1>2 DEF Abort, Types, Before, Serving, Ending, Server, Fate
<1>3. CASE Listen("sink", "listen sink", "listen ops")
  BY <1>3 DEF Listen, Types, Before, Serving, Ending, Server, Fate
<1>4. CASE Listen("ops", "listen ops", "start")
  BY <1>4 DEF Listen, Types, Before, Serving, Ending, Server, Fate
<1>5. CASE StartServers
  BY <1>5 DEF StartServers, Types, Before, Serving, Ending, Server, Fate
<1>6. CASE Notify
  BY <1>6 DEF Notify, Types, Before, Serving, Ending, Server, Fate
<1>7. CASE TakeSignal
  BY Bounds, <1>7 DEF TakeSignal, Types, Before, Serving, Ending, Server, Fate
<1>8. CASE TakeError
  <2>1. CASE Head(errCh) = "failed"
    BY EndsProperly, <1>8, <2>1 DEF TakeError, Types, Before, Serving, Ending, Server,
       Fate
  <2>2. CASE Head(errCh) # "failed"
    <3>1. errCh \in Seq({"failed", "closed"})
      BY DEF Types
    <3>2. errCh' \in Seq({"failed", "closed"})
      BY <3>1, <1>8, <2>2, Channel DEF TakeError
    <3> QED BY Bounds, <1>8, <2>2, <3>2 DEF TakeError, Types, Before, Serving, Ending,
             Server, Fate
  <2> QED BY <2>1, <2>2
<1>9. CASE Wake
  BY Bounds, <1>9 DEF Wake, Types, Before, Serving, Ending, Server, Fate
<1>10. CASE CloseSink
  BY <1>10 DEF CloseSink, CloseListener, Reset, Types, Before, Serving, Ending, Server,
     Fate
<1>11. CASE SinkStopped
  BY <1>11 DEF SinkStopped, Types, Before, Serving, Ending, Server, Fate
<1>12. CASE SinkTimesOut
  BY EndsProperly, <1>12 DEF SinkTimesOut, Types, Before, Serving, Ending, Server, Fate
<1>13. CASE CloseOps
  BY <1>13 DEF CloseOps, CloseListener, Types, Before, Serving, Ending, Server, Fate
<1>14. CASE OpsStopped
  BY EndsProperly, <1>14 DEF OpsStopped, Types, Before, Serving, Ending, Server, Fate
<1>15. CASE OpsTimesOut
  BY EndsProperly, <1>15 DEF OpsTimesOut, Types, Before, Serving, Ending, Server, Fate
<1>16. CASE Signal
  <2>1. CASE main \in Before \union {"notify"}
    BY <1>16, <2>1 DEF Signal, Types, Before, Serving, Ending, Server, Fate
  <2>2. CASE main \notin Before \union {"notify"}
    <3>1. /\ signalCh' = 1 /\ signalled' = TRUE
          /\ UNCHANGED <<main, exit, listener, client, server, stopping, errCh,
                          draining, left, routing, probeAge, wasReady>>
      BY <1>16, <2>2 DEF Signal, Before
    <3> QED BY <3>1 DEF Types
  <2> QED BY <2>1, <2>2
<1>17. CASE Probe
  <2>1. Ready \in BOOLEAN /\ (wasReady \/ Ready) \in BOOLEAN
    BY DEF Ready
  <2>2. routing' \in BOOLEAN /\ wasReady' \in BOOLEAN
    BY <2>1, <1>17 DEF Probe
  <2>3. probeAge' \in 0..ProbePeriod
    BY Bounds, <1>17 DEF Probe
  <2>4. UNCHANGED <<main, exit, listener, server, stopping, errCh, signalCh,
                    draining, left, client, signalled>>
    BY <1>17 DEF Probe
  <2> QED BY <2>2, <2>3, <2>4 DEF Types
<1>18. CASE Tick
  <2>1. /\ probeAge' \in 0..ProbePeriod
        /\ left' \in 0..(ShutdownDelay + ShutdownTimeout)
    BY Bounds, <1>18 DEF Tick, Types
  <2> QED BY <1>18, <2>1 DEF Tick, Types, Before, Serving, Ending, Server, Fate
<1>19. ASSUME NEW s \in Server, Begin(s) PROVE Types'
  BY <1>19 DEF Begin, Types, Before, Serving, Ending, Server, Fate
<1>20. ASSUME NEW s \in Server, ServerClosed(s) PROVE Types'
  <2>1. errCh' \in Seq({"failed", "closed"})
    BY <1>20, Channel DEF ServerClosed, Returns, Types
  <2>2. client' \in [Client -> Fate]
    BY <1>20 DEF ServerClosed, Returns, Reset, Types, Fate
  <2> QED BY <1>20, <2>1, <2>2 DEF ServerClosed, Returns, Types, Before, Serving,
           Ending, Server
<1>21. ASSUME NEW s \in Server, ServerFails(s) PROVE Types'
  <2>1. errCh' \in Seq({"failed", "closed"})
    BY <1>21, Channel DEF ServerFails, Returns, Types
  <2>2. client' \in [Client -> Fate]
    BY <1>21 DEF ServerFails, Returns, Reset, Types, Fate
  <2> QED BY <1>21, <2>1, <2>2 DEF ServerFails, Returns, Types, Before, Serving, Ending,
           Server
<1>22. ASSUME NEW c \in Client, Accept(c) PROVE Types'
  BY <1>22 DEF Accept, Acceptable, Types, Before, Serving, Ending, Server, Fate
<1>23. ASSUME NEW c \in Client, Respond(c) PROVE Types'
  BY <1>23 DEF Respond, Types, Before, Serving, Ending, Server, Fate
<1>24. ASSUME NEW c \in Client, Connect(c) PROVE Types'
  BY <1>24 DEF Connect, Types, Before, Serving, Ending, Server, Fate
<1> QED
  BY <1>1, <1>2, <1>3, <1>4, <1>5, <1>6, <1>7, <1>8, <1>9, <1>10, <1>11, <1>12, <1>13,
     <1>14, <1>15, <1>16, <1>17, <1>18, <1>19, <1>20, <1>21, <1>22, <1>23, <1>24
  DEF Next, MainStep

\* A result is for a server that has stopped.
LEMMA StepResults ==
  ASSUME Types, Shape, Results, Next
  PROVE  Results'
<1> USE DEF Running, Goes, sockets, channels, balancer, history
<1>1. CASE Prepare
  BY <1>1 DEF Prepare, Results, Stopped, Types, Shape, Before, Serving, Ending, Server
<1>2. CASE Abort
  BY EndsProperly, <1>2 DEF Abort, Results, Stopped, Types, Shape, Before, Serving,
     Ending, Server
<1>3. CASE Listen("sink", "listen sink", "listen ops")
  BY <1>3 DEF Listen, Results, Stopped, Types, Shape, Before, Serving, Ending, Server
<1>4. CASE Listen("ops", "listen ops", "start")
  BY <1>4 DEF Listen, Results, Stopped, Types, Shape, Before, Serving, Ending, Server
<1>5. CASE StartServers
  <2>1. Len(errCh) \in Nat /\ Len(errCh) <= 0
    BY <1>5, Channel DEF StartServers, Results, Stopped, Types, Shape, Before, Serving,
       Ending, Server
  <2> QED BY <1>5, <2>1 DEF StartServers, Results, Stopped, Server
<1>6. CASE Notify
  BY <1>6 DEF Notify, Results, Stopped, Types, Shape, Before, Serving, Ending, Server
<1>7. CASE TakeSignal
  BY <1>7 DEF TakeSignal, Results, Stopped, Types, Shape, Before, Serving, Ending, Server
<1>8. CASE TakeError
  <2>1. CASE Head(errCh) = "failed"
    BY EndsProperly, <1>8, <2>1 DEF TakeError, Results, Stopped
  <2>2. CASE Head(errCh) # "failed"
    BY <1>8, <2>2, Channel DEF TakeError, Results, Stopped, Types, Shape, Before,
       Serving, Ending, Server
  <2> QED BY <2>1, <2>2
<1>9. CASE Wake
  BY <1>9 DEF Wake, Results, Stopped, Types, Shape, Before, Serving, Ending, Server
<1>10. CASE CloseSink
  BY <1>10 DEF CloseSink, CloseListener, Reset, Results, Stopped, Types, Shape, Before,
     Serving, Ending, Server
<1>11. CASE SinkStopped
  BY <1>11 DEF SinkStopped, Results, Stopped, Types, Shape, Before, Serving, Ending,
     Server
<1>12. CASE SinkTimesOut
  BY EndsProperly, <1>12 DEF SinkTimesOut, Results, Stopped, Types, Shape, Before,
     Serving, Ending, Server
<1>13. CASE CloseOps
  BY <1>13 DEF CloseOps, CloseListener, Results, Stopped, Types, Shape, Before, Serving,
     Ending, Server
<1>14. CASE OpsStopped
  BY EndsProperly, <1>14 DEF OpsStopped, Results, Stopped, Types, Shape, Before,
     Serving, Ending, Server
<1>15. CASE OpsTimesOut
  BY EndsProperly, <1>15 DEF OpsTimesOut, Results, Stopped, Types, Shape, Before,
     Serving, Ending, Server
<1>16. CASE Signal
  BY <1>16 DEF Signal, Results, Stopped, Types, Shape, Before, Serving, Ending, Server
<1>17. CASE Probe
  BY <1>17 DEF Probe, Ready, Results, Stopped, Types, Shape, Before, Serving, Ending,
     Server
<1>18. CASE Tick
  BY <1>18 DEF Tick, Acceptable, Results, Stopped, Types, Shape, Before, Serving,
     Ending, Server
<1>19. ASSUME NEW s \in Server, Begin(s) PROVE Results'
  BY <1>19 DEF Begin, Results, Stopped, Types, Shape, Before, Serving, Ending, Server
<1>20. ASSUME NEW s \in Server, ServerClosed(s) PROVE Results'
  <2>1. Len(errCh') = Len(errCh) + 1 /\ Len(errCh) \in Nat
    BY <1>20, Channel DEF ServerClosed, Returns, Types
  <2>2. Stopped("sink")' + Stopped("ops")' = Stopped("sink") + Stopped("ops") + 1
    <3>1. /\ server[s] # "stopped" /\ server' = [server EXCEPT ![s] = "stopped"]
          /\ server \in [Server -> {"off", "starting", "serving", "stopped"}]
      BY <1>20 DEF ServerClosed, Returns, Types
    <3>2. CASE s = "sink"
      BY <3>1, <3>2 DEF Stopped, Server
    <3>3. CASE s = "ops"
      BY <3>1, <3>3 DEF Stopped, Server
    <3> QED BY <3>2, <3>3 DEF Server
  <2>3. Stopped("sink") \in Nat /\ Stopped("ops") \in Nat /\ Results
    BY DEF Stopped
  <2> QED BY <2>1, <2>2, <2>3 DEF Results
<1>21. ASSUME NEW s \in Server, ServerFails(s) PROVE Results'
  <2>1. Len(errCh') = Len(errCh) + 1 /\ Len(errCh) \in Nat
    BY <1>21, Channel DEF ServerFails, Returns, Types
  <2>2. Stopped("sink")' + Stopped("ops")' = Stopped("sink") + Stopped("ops") + 1
    <3>1. /\ server[s] # "stopped" /\ server' = [server EXCEPT ![s] = "stopped"]
          /\ server \in [Server -> {"off", "starting", "serving", "stopped"}]
      BY <1>21 DEF ServerFails, Returns, Types
    <3>2. CASE s = "sink"
      BY <3>1, <3>2 DEF Stopped, Server
    <3>3. CASE s = "ops"
      BY <3>1, <3>3 DEF Stopped, Server
    <3> QED BY <3>2, <3>3 DEF Server
  <2>3. Stopped("sink") \in Nat /\ Stopped("ops") \in Nat /\ Results
    BY DEF Stopped
  <2> QED BY <2>1, <2>2, <2>3 DEF Results
<1>22. ASSUME NEW c \in Client, Accept(c) PROVE Results'
  BY <1>22 DEF Accept, Acceptable, Results, Stopped, Types, Shape, Before, Serving,
     Ending, Server
<1>23. ASSUME NEW c \in Client, Respond(c) PROVE Results'
  BY <1>23 DEF Respond, Results, Stopped, Types, Shape, Before, Serving, Ending, Server
<1>24. ASSUME NEW c \in Client, Connect(c) PROVE Results'
  BY <1>24 DEF Connect, Results, Stopped, Types, Shape, Before, Serving, Ending, Server
<1> QED
  BY <1>1, <1>2, <1>3, <1>4, <1>5, <1>6, <1>7, <1>8, <1>9, <1>10, <1>11, <1>12, <1>13,
     <1>14, <1>15, <1>16, <1>17, <1>18, <1>19, <1>20, <1>21, <1>22, <1>23, <1>24
  DEF Next, MainStep

\* Every action leaves the process in shape.
LEMMA StepShape ==
  ASSUME Types, Types', Results, Shape, Next
  PROVE  Shape'
<1> USE DEF Running, Goes, sockets, channels, balancer, history
<1>1. CASE Prepare
  BY <1>1 DEF Prepare, Shape, Types, Before, Serving, Ending, Server
<1>2. CASE Abort
  BY EndsProperly, <1>2 DEF Abort, Shape, Types, Before, Serving, Ending, Server
<1>3. CASE Listen("sink", "listen sink", "listen ops")
  BY <1>3 DEF Listen, Shape, Types, Before, Serving, Ending, Server
<1>4. CASE Listen("ops", "listen ops", "start")
  BY <1>4 DEF Listen, Shape, Types, Before, Serving, Ending, Server
<1>5. CASE StartServers
  BY <1>5 DEF StartServers, Shape, Types, Before, Serving, Ending, Server
<1>6. CASE Notify
  BY <1>6 DEF Notify, Shape, Types, Before, Serving, Ending, Server
<1>7. CASE TakeSignal
  BY <1>7 DEF TakeSignal, Shape, Types, Before, Serving, Ending, Server
<1>8. CASE TakeError
  <2>1. errCh \in Seq({"failed", "closed"}) /\ main = "select" /\ errCh # <<>>
    BY <1>8 DEF TakeError, Types
  <2>2. Head(errCh) = "failed"
    BY <2>1, Channel DEF Shape, Serving
  <2>3. Ends("error")
    BY <1>8, <2>2 DEF TakeError
  <2> QED BY EndsProperly, <2>3 DEF Shape, Types, Before, Serving, Ending, Server
<1>9. CASE Wake
  BY <1>9 DEF Wake, Shape, Types, Before, Serving, Ending, Server
<1>10. CASE CloseSink
  BY <1>10 DEF CloseSink, CloseListener, Reset, Shape, Types, Before, Serving, Ending,
     Server
<1>11. CASE SinkStopped
  BY <1>11 DEF SinkStopped, Shape, Types, Before, Serving, Ending, Server
<1>12. CASE SinkTimesOut
  BY EndsProperly, <1>12 DEF SinkTimesOut, Shape, Types, Before, Serving, Ending, Server
<1>13. CASE CloseOps
  BY <1>13 DEF CloseOps, CloseListener, Shape, Types, Before, Serving, Ending, Server
<1>14. CASE OpsStopped
  BY EndsProperly, <1>14 DEF OpsStopped, Shape, Types, Before, Serving, Ending, Server
<1>15. CASE OpsTimesOut
  BY EndsProperly, <1>15 DEF OpsTimesOut, Shape, Types, Before, Serving, Ending, Server
<1>16. CASE Signal
  BY <1>16 DEF Signal, Shape, Types, Before, Serving, Ending, Server
<1>17. CASE Probe
  BY <1>17 DEF Probe, Ready, Shape, Types, Before, Serving, Ending, Server
<1>18. CASE Tick
  BY <1>18 DEF Tick, Acceptable, Shape, Types, Before, Serving, Ending, Server
<1>19. ASSUME NEW s \in Server, Begin(s) PROVE Shape'
  BY <1>19 DEF Begin, Shape, Types, Before, Serving, Ending, Server
<1>20. ASSUME NEW s \in Server, ServerClosed(s) PROVE Shape'
  BY <1>20 DEF ServerClosed, Returns, Reset, Shape, Types, Before, Serving, Ending, Server
<1>21. ASSUME NEW s \in Server, ServerFails(s) PROVE Shape'
  <2>1. stopping' = {} => \A i \in 1..Len(errCh') : errCh'[i] = "failed"
    <3>1. /\ errCh' = Append(errCh, "failed") /\ stopping' = stopping
          /\ errCh \in Seq({"failed", "closed"})
      BY <1>21 DEF ServerFails, Returns, Types
    <3>2. stopping = {} => \A i \in 1..Len(errCh) : errCh[i] = "failed"
      BY DEF Shape
    <3> QED BY <3>1, <3>2, Channel
  <2> QED BY <1>21, <2>1 DEF ServerFails, Returns, Shape, Types, Before, Serving,
           Ending, Server
<1>22. ASSUME NEW c \in Client, Accept(c) PROVE Shape'
  BY <1>22 DEF Accept, Acceptable, Shape, Types, Before, Serving, Ending, Server
<1>23. ASSUME NEW c \in Client, Respond(c) PROVE Shape'
  BY <1>23 DEF Respond, Shape, Types, Before, Serving, Ending, Server
<1>24. ASSUME NEW c \in Client, Connect(c) PROVE Shape'
  BY <1>24 DEF Connect, Shape, Types, Before, Serving, Ending, Server
<1> QED
  BY <1>1, <1>2, <1>3, <1>4, <1>5, <1>6, <1>7, <1>8, <1>9, <1>10, <1>11, <1>12, <1>13,
     <1>14, <1>15, <1>16, <1>17, <1>18, <1>19, <1>20, <1>21, <1>22, <1>23, <1>24
  DEF Next, MainStep

\* At select nobody has called Shutdown, so that a result is a failure.
LEMMA SelectFails ==
  ASSUME Types, Shape, TakeError
  PROVE  AServerFailed /\ Ends("error") /\ AServerFailed'
<1>1. errCh \in Seq({"failed", "closed"}) /\ main = "select" /\ errCh # <<>>
  BY DEF TakeError, Types
<1>2. Head(errCh) = "failed" /\ errCh[1] = "failed" /\ 1 \in 1..Len(errCh)
  BY <1>1, Channel DEF Shape, Serving
<1>3. Ends("error")
  BY <1>2 DEF TakeError
<1>4. errCh' = errCh
  BY <1>3 DEF Ends, channels
<1> QED BY <1>1, <1>2, <1>3, <1>4, Failed, FailedNext

\* A failure stays in errCh.
LEMMA FailedForever ==
  ASSUME Types, Shape, Next, AServerFailed
  PROVE  AServerFailed'
<1>1. ASSUME NEW s \in Server, NEW result \in {"failed", "closed"}, Returns(s, result)
      PROVE  AServerFailed'
  <2>1. /\ errCh' = Append(errCh, result) /\ errCh \in Seq({"failed", "closed"})
        /\ errCh' \in Seq({"failed", "closed"})
    BY <1>1, Channel DEF Returns, Types
  <2>2. PICK i \in 1..Len(errCh) : errCh[i] = "failed"
    BY <2>1, Failed
  <2>3. i \in 1..Len(errCh') /\ errCh'[i] = "failed"
    BY <2>1, <2>2, Channel
  <2> QED BY <2>1, <2>3, FailedNext
<1>2. CASE TakeError
  BY <1>2, SelectFails
<1>3. CASE UNCHANGED errCh
  BY <1>3 DEF AServerFailed
<1>4. \/ TakeError \/ UNCHANGED errCh
      \/ \E s \in Server : Returns(s, "closed") \/ Returns(s, "failed")
  BY DEF Next, MainStep, Prepare, Abort, Listen, StartServers, Notify, TakeSignal,
         Wake, CloseSink, SinkStopped, SinkTimesOut, CloseOps, OpsStopped,
         OpsTimesOut, Ends, Begin, ServerClosed, ServerFails, Accept, Respond,
         Connect, Signal, Probe, Tick, channels
<1> QED BY <1>1, <1>2, <1>3, <1>4

\* A server that fails of itself puts that into errCh.
LEMMA FailureIsSeen ==
  ASSUME Types, NEW s \in Server, ServerFails(s)
  PROVE  AServerFailed'
<1>1. /\ errCh' = Append(errCh, "failed") /\ errCh \in Seq({"failed", "closed"})
      /\ errCh' \in Seq({"failed", "closed"})
  BY Channel DEF ServerFails, Returns, Types
<1>2. Len(errCh) + 1 \in 1..Len(errCh') /\ errCh'[Len(errCh) + 1] = "failed"
  BY <1>1, Channel
<1> QED BY <1>1, <1>2, FailedNext

\* Whoever has not polled since the drain began does so before it is over.
LEMMA Owed ==
  ASSUME Types, Calm, main = "drain", routing
  PROVE  left > 0
<1>1. left + probeAge >= ShutdownDelay
  BY DEF Calm
<1>2. left \in Nat /\ probeAge \in Nat /\ probeAge <= ProbePeriod
  BY Bounds DEF Types
<1> QED BY <1>1, <1>2, ProbeBeforeDelayEnds

\* The process ends of itself, with nobody who waits.
LEMMA EndsCalmly ==
  ASSUME Types, Calm, NEW how \in {"ok", "error"}, Ends(how), exit = "none", ~routing,
         \A c \in Client : client[c] # "queued",
         \A c \in Client : client[c] = "active" => how = "error" /\ left = 0
  PROVE  Calm'
<1>1. /\ main' = "gone" /\ exit' = how /\ ~routing'
      /\ UNCHANGED <<server, stopping, left>>
      /\ \A c \in Client : client'[c] # "queued" /\ client'[c] # "refused"
      /\ \A c \in Client : client'[c] = "cut" => how = "error" /\ left = 0
  BY EndsProperly DEF Calm
<1> QED BY <1>1 DEF Calm, Serving, Ending

\* While no server fails, the drain goes as it should.
LEMMA StepCalm ==
  ASSUME Types, Types', Shape, Shape', Calm, ~AServerFailed', Next
  PROVE  Calm'
<1> USE DEF Running, Goes, sockets, channels, balancer, history
<1>1. CASE Prepare
  BY <1>1 DEF Prepare, Calm, Shape, Types, Before, Serving, Ending, Server
<1>2. CASE Abort
  BY EndsProperly, <1>2 DEF Abort, Calm, Shape, Types, Before, Serving, Ending, Server
<1>3. CASE Listen("sink", "listen sink", "listen ops")
  BY <1>3 DEF Listen, Calm, Shape, Types, Before, Serving, Ending, Server
<1>4. CASE Listen("ops", "listen ops", "start")
  BY <1>4 DEF Listen, Calm, Shape, Types, Before, Serving, Ending, Server
<1>5. CASE StartServers
  BY <1>5 DEF StartServers, Calm, Shape, Types, Before, Serving, Ending, Server
<1>6. CASE Notify
  BY <1>6 DEF Notify, Calm, Shape, Types, Before, Serving, Ending, Server
<1>7. CASE TakeSignal
  BY ProbeBeforeDelayEnds, Bounds, <1>7 DEF TakeSignal, Calm, Shape, Types, Before, Serving, Ending, Server
<1>8. CASE TakeError
  BY <1>8, SelectFails
<1>9. CASE Wake
  <2>1. /\ main = "drain" /\ main' = "close sink" /\ left = 0
        /\ UNCHANGED <<exit, listener, server, stopping, client, routing>>
    BY <1>9 DEF Wake
  <2>2. ~(left > 0)
    <3>1. ~(0 > 0)
      OBVIOUS
    <3> QED BY <2>1, <3>1
  <2>3. ~routing
    BY <2>1, <2>2, Owed
  <2>4. \A c \in Client : client[c] # "queued"
    <3>1. \A c \in Client : client[c] = "queued" => left > 0
      BY <2>1 DEF Calm
    <3> QED BY <2>2, <3>1
  <2>5. listener["sink"] = "open" /\ stopping = {}
    BY <2>1 DEF Calm, Shape, Serving
  <2> QED BY <2>1, <2>3, <2>4, <2>5 DEF Calm, Serving, Ending, Types
<1>10. CASE CloseSink
  <2>1. /\ main = "close sink" /\ main' = "await sink" /\ exit = "none"
        /\ UNCHANGED <<exit, server, routing>> /\ stopping \subseteq stopping'
    BY <1>10 DEF CloseSink, CloseListener
  <2>2. \A c \in Client : client[c] # "queued" /\ client[c] # "refused" /\ client[c] #
     "cut"
    BY <2>1 DEF Calm, Serving
  <2>3. \A c \in Client : client'[c] = client[c]
    BY <1>10, <2>2 DEF CloseSink, Reset
  <2> QED BY <2>1, <2>2, <2>3 DEF Calm, Serving, Ending
<1>11. CASE SinkStopped
  BY <1>11 DEF SinkStopped, Calm, Shape, Types, Before, Serving, Ending, Server
<1>12. CASE SinkTimesOut
  <2>1. ~routing /\ exit = "none" /\ \A c \in Client : client[c] # "queued"
    BY <1>12 DEF SinkTimesOut, Calm, Serving, Ending
  <2>2. Ends("error") /\ left = 0
    BY <1>12 DEF SinkTimesOut, Calm
  <2> QED BY <2>1, <2>2, EndsCalmly
<1>13. CASE CloseOps
  BY <1>13 DEF CloseOps, CloseListener, Calm, Shape, Types, Before, Serving, Ending,
     Server
<1>14. CASE OpsStopped
  <2>1. ~routing /\ exit = "none" /\ \A c \in Client : client[c] # "queued"
    BY <1>14 DEF OpsStopped, Calm, Serving, Ending
  <2>2. Ends("ok") /\ \A c \in Client : client[c] # "active"
    BY <1>14 DEF OpsStopped, Calm
  <2> QED BY <2>1, <2>2, EndsCalmly
<1>15. CASE OpsTimesOut
  <2>1. ~routing /\ exit = "none" /\ \A c \in Client : client[c] # "queued"
    BY <1>15 DEF OpsTimesOut, Calm, Serving, Ending
  <2>2. Ends("error") /\ left = 0
    BY <1>15 DEF OpsTimesOut, Calm
  <2> QED BY <2>1, <2>2, EndsCalmly
<1>16. CASE Signal
  <2>1. CASE main \in Before \union {"notify"}
    <3>1. /\ main' = "gone" /\ exit' = "killed" /\ UNCHANGED <<server, stopping>>
          /\ \A c \in Client : client'[c] # "queued"
      BY <1>16, <2>1 DEF Signal, Before, Types
    <3> QED BY <3>1 DEF Calm, Serving, Ending
  <2>2. CASE main \notin Before \union {"notify"}
    <3>1. UNCHANGED <<main, exit, listener, client, server, stopping, left, routing,
       probeAge>>
      BY <1>16, <2>2 DEF Signal, Before
    <3> QED BY <3>1 DEF Calm
  <2> QED BY <2>1, <2>2
<1>17. CASE Probe
  BY <1>17 DEF Probe, Ready, Calm, Shape, Types, Before, Serving, Ending, Server
<1>18. CASE Tick
  <2>1. /\ UNCHANGED <<main, exit, listener, server, stopping, client, routing>>
        /\ probeAge < ProbePeriod /\ probeAge' = probeAge + 1
        /\ left' = IF left > 0 THEN left - 1 ELSE 0
        /\ left \in Nat /\ probeAge \in Nat
    BY Bounds, <1>18 DEF Tick, Types
  <2>2. main = "drain" /\ routing => left' + probeAge' >= ShutdownDelay
    BY <2>1, Bounds, ProbeBeforeDelayEnds DEF Calm
  <2>3. \A c \in Client : client[c] # "queued"
    <3> SUFFICES ASSUME NEW c \in Client, client[c] = "queued" PROVE FALSE
      OBVIOUS
    <3>1. main \in Serving /\ exit = "none"
      BY DEF Calm, Types, Serving
    <3>2. /\ server["sink"] # "off" /\ server["sink"] # "stopped"
          /\ listener["sink"] = "open"
      BY <3>1 DEF Calm, Shape, Server
    <3>3. server["sink"] = "serving"
      BY <1>18, <3>1, <3>2 DEF Tick, Types, Server
    <3> QED BY <1>18, <3>1, <3>2, <3>3 DEF Tick, Acceptable
  <2>4. left = 0 => left' = 0
    BY <2>1
  <2> QED BY <2>1, <2>2, <2>3, <2>4 DEF Calm
<1>19. ASSUME NEW s \in Server, Begin(s) PROVE Calm'
  BY <1>19 DEF Begin, Calm, Shape, Types, Before, Serving, Ending, Server
<1>20. ASSUME NEW s \in Server, ServerClosed(s) PROVE Calm'
  <2>1. /\ exit = "none" /\ s \in stopping /\ server' = [server EXCEPT ![s] = "stopped"]
        /\ UNCHANGED <<main, exit, stopping, left, routing, probeAge>>
    BY <1>20 DEF ServerClosed, Returns
  <2>2. main \in {"await sink", "close ops", "await ops", "gone"}
    BY <2>1 DEF Shape, Types, Serving, Ending
  <2>3. \A c \in Client : client[c] # "queued"
    BY <2>2 DEF Calm, Serving
  <2>4. \A c \in Client : client'[c] = client[c]
    BY <1>20, <2>3 DEF ServerClosed, Returns, Reset
  <2>5. \A t \in Server : server'[t] = "stopped" => t \in stopping'
    BY <2>1 DEF Calm, Types
  <2> QED BY <2>1, <2>2, <2>3, <2>4, <2>5 DEF Calm, Serving
<1>21. ASSUME NEW s \in Server, ServerFails(s) PROVE Calm'
  BY <1>21, FailureIsSeen
<1>22. ASSUME NEW c \in Client, Accept(c) PROVE Calm'
  BY <1>22 DEF Accept, Acceptable, Calm, Shape, Types, Before, Serving, Ending, Server
<1>23. ASSUME NEW c \in Client, Respond(c) PROVE Calm'
  BY <1>23 DEF Respond, Calm, Shape, Types, Before, Serving, Ending, Server
<1>24. ASSUME NEW c \in Client, Connect(c) PROVE Calm'
  <2>1. /\ routing /\ client[c] = "away"
        /\ UNCHANGED <<main, exit, listener, server, stopping, left, routing, probeAge>>
        /\ \A d \in Client \ {c} : client'[d] = client[d]
        /\ client'[c] = IF listener["sink"] = "open" THEN "queued" ELSE "refused"
    BY <1>24 DEF Connect, Types
  <2>2. main \in Serving \/ exit = "killed"
    BY <2>1 DEF Calm, Shape, Types, Serving, Ending
  <2>3. client'[c] = "queued" => main \in Serving /\ (main = "drain" => left > 0)
    BY <2>1, <2>2, Owed DEF Shape, Types
  <2>4. client'[c] = "refused" => exit = "killed"
    BY <2>1, <2>2 DEF Calm
  <2> QED BY <2>1, <2>3, <2>4 DEF Calm
<1> QED
  BY <1>1, <1>2, <1>3, <1>4, <1>5, <1>6, <1>7, <1>8, <1>9, <1>10, <1>11, <1>12, <1>13,
     <1>14, <1>15, <1>16, <1>17, <1>18, <1>19, <1>20, <1>21, <1>22, <1>23, <1>24
  DEF Next, MainStep

-------------------------------------------------------------------------------
(* Together. *)

LEMMA InitInv == Init => IInv
<1> SUFFICES ASSUME Init PROVE IInv
  OBVIOUS
<1>1. Types
  <2>1. errCh \in Seq({"failed", "closed"})
    BY EmptySeq DEF Init
  <2>2. left \in 0..(ShutdownDelay + ShutdownTimeout) /\ probeAge \in 0..ProbePeriod
    BY Bounds DEF Init
  <2>3. /\ main = "load" /\ exit = "none" /\ main \in Before
        /\ stopping = {} /\ signalCh \in 0..1
    BY DEF Init, Before
  <2>4. /\ listener \in [Server -> {"none", "open", "closed"}]
        /\ server \in [Server -> {"off", "starting", "serving", "stopped"}]
        /\ client \in [Client -> Fate]
    BY DEF Init, Fate
  <2>5. draining \in BOOLEAN /\ routing \in BOOLEAN /\ signalled \in BOOLEAN /\ wasReady
     \in BOOLEAN
    BY DEF Init
  <2> QED BY <2>1, <2>2, <2>3, <2>4, <2>5 DEF Types
<1>2. Results
  BY EmptySeq DEF Init, Results, Stopped, Server
<1>3. Shape
  BY EmptySeq DEF Init, Shape, Before, Serving, Ending, Server
<1>4. Calm
  BY DEF Init, Calm, Serving, Ending, Server
<1> QED BY <1>1, <1>2, <1>3, <1>4 DEF IInv

LEMMA Inductive == Spec => []IInv
<1>1. IInv /\ [Next]_vars => IInv'
  <2> SUFFICES ASSUME IInv, [Next]_vars PROVE IInv'
    OBVIOUS
  <2>1. CASE Next
    <3>1. Types' /\ Results' /\ Shape'
      BY <2>1, StepTypes, StepResults, StepShape DEF IInv
    <3>2. AServerFailed' \/ Calm'
      BY <2>1, <3>1, StepCalm, FailedForever DEF IInv
    <3> QED BY <3>1, <3>2 DEF IInv
  <2>2. CASE UNCHANGED vars
    <3>1. Types'
      BY <2>2 DEF IInv, Types, vars, sockets, channels, balancer, history
    <3>2. Results'
      BY <2>2 DEF IInv, Results, Stopped, vars, sockets, channels
    <3>3. Shape'
      BY <2>2 DEF IInv, Shape, vars, sockets, channels, balancer
    <3>4. AServerFailed' \/ Calm'
      BY <2>2 DEF IInv, AServerFailed, Calm, vars, sockets, channels, balancer
    <3> QED BY <3>1, <3>2, <3>3, <3>4 DEF IInv
  <2> QED BY <2>1, <2>2
<1> QED BY <1>1, InitInv, PTL DEF Spec

\* TypeOK: serve goes through its points in order, and errCh, which has room
\* for two, never holds more.
THEOREM ServeTypeOK == Spec => []TypeOK
<1>1. IInv => TypeOK
  <2> SUFFICES ASSUME IInv PROVE TypeOK
    OBVIOUS
  <2>1. Len(errCh) <= 2
    <3>1. /\ Len(errCh) \in Nat /\ Len(errCh) <= Stopped("sink") + Stopped("ops")
          /\ Stopped("sink") \in {0, 1} /\ Stopped("ops") \in {0, 1}
      BY Channel DEF IInv, Types, Results, Stopped
    <3> QED BY <3>1
  <2> QED BY <2>1 DEF IInv, Types, TypeOK, Before, Serving, Ending
<1> QED BY <1>1, Inductive, PTL

\* DrainRefusesNobody: by the time that Shutdown closes the sink's socket, a
\* load balancer that polls in time has sent its last client long since.
THEOREM ServeDrainRefusesNobody == Spec => []DrainRefusesNobody
<1>1. IInv => DrainRefusesNobody
  BY DEF IInv, Calm, DrainRefusesNobody
<1> QED BY <1>1, Inductive, PTL

\* ShutdownCutsNobodyEarly: serve returns with a request open only when the
\* context of its shutdown is over.
THEOREM ServeShutdownCutsNobodyEarly == Spec => []ShutdownCutsNobodyEarly
<1>1. IInv => ShutdownCutsNobodyEarly
  BY DEF IInv, Calm, ShutdownCutsNobodyEarly
<1> QED BY <1>1, Inductive, PTL

===============================================================================
