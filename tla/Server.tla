------------------------------- MODULE Server -------------------------------
(***************************************************************************)
(* The life of the server process around its requests: main starts up,     *)
(* waits for a signal and shuts down, the listener runs in a goroutine of  *)
(* its own, requests are served meanwhile, and whoever started the process *)
(* starts it again.  The key of RateLimit lives in Redis and survives the  *)
(* process; the requests are those of one client.                          *)
(***************************************************************************)
EXTENDS RateLimit, Sequences

CONSTANT ShutdownTicks  \* the limit of srv.Shutdown, in ticks

ASSUME ShutdownAssumption == ShutdownTicks \in Nat \ {0}

VARIABLES
    main,     \* the next thing main does; "down" while there is no process
    deferred, \* main's deferred calls, each releasing what it names
    listener, \* the goroutine that runs ListenAndServe
    quit,     \* whether the channel of one signal is full
    drained,  \* ticks since srv.Shutdown was called
    conns,    \* the stage of each connection and its request
    asked,    \* history: was a signal delivered to signal.Notify's handler
    ended     \* history: how the process ended, and whether it cut requests short

procVars == <<main, deferred, listener, quit, drained, asked, ended>>

serverVars == <<rateVars, procVars, conns>>

Stages ==
    {"none",                          \* no connection
     "new",                           \* accepted, no request read yet
     "limit", "expire", "handle",     \* a login: before INCR, before EXPIRE, in its handler
     "pingPool", "pingRedis"}         \* a readiness probe

NotEnded == [cause |-> "none", cut |-> FALSE]

ServerTypeOK ==
    /\ main \in {"down", "config", "tracer", "pool", "redis", "notify", "listen",
                 "wait", "drain", "return"}
    /\ deferred \in {<<>>, <<"tracer">>, <<"tracer", "pool">>, <<"tracer", "pool", "redis">>}
    /\ listener \in {"off", "starting", "open", "closed"}
    /\ quit     \in BOOLEAN
    /\ drained  \in 0 .. ShutdownTicks
    /\ conns    \in [Reqs -> Stages]
    /\ asked    \in BOOLEAN
    /\ ended    \in [cause : {"none", "startup", "signal", "listener", "deadline",
                              "graceful", "killed"},
                     cut   : BOOLEAN]
    /\ expiring = {r \in Reqs : conns[r] = "expire"}

ServerInit ==
    /\ RateInit
    /\ main     = "down"
    /\ deferred = <<>>
    /\ listener = "off"
    /\ quit     = FALSE
    /\ drained  = 0
    /\ conns    = [r \in Reqs |-> "none"]
    /\ asked    = FALSE
    /\ ended    = NotEnded

(* Connections with a request, and those that srv.Shutdown waits for.      *)
Active == {r \in Reqs : conns[r] \notin {"none", "new"}}

Opened == {deferred[i] : i \in DOMAIN deferred}

-----------------------------------------------------------------------------
(* The end of the process                                                  *)

(* Mutant: the counter lives in the process.                               *)
EndForgets(cause) ==
    /\ main'     = "down"
    /\ deferred' = <<>>
    /\ listener' = "off"
    /\ quit'     = FALSE
    /\ drained'  = 0
    /\ conns'    = [r \in Reqs |-> "none"]
    /\ asked'    = FALSE
    /\ ended'    = [cause |-> cause, cut |-> Active # {}]
    /\ expiring' = {}
    /\ orphaned' = FALSE
    /\ count'    = 0
    /\ ttl'      = NoTTL
    /\ UNCHANGED admitted

(* With the process go its goroutines; a login between INCR and EXPIRE     *)
(* leaves its key behind.                                                  *)
End(cause) ==
    /\ main'     = "down"
    /\ deferred' = <<>>
    /\ listener' = "off"
    /\ quit'     = FALSE
    /\ drained'  = 0
    /\ conns'    = [r \in Reqs |-> "none"]
    /\ asked'    = FALSE
    /\ ended'    = [cause |-> cause, cut |-> Active # {}]
    /\ expiring' = {}
    /\ orphaned' = (orphaned \/ expiring # {})
    /\ UNCHANGED <<count, ttl, admitted>>

(* SIGKILL, or a panic outside the handlers.                               *)
Kill == Faults /\ main # "down" /\ End("killed")

-----------------------------------------------------------------------------
(* main                                                                    *)

Goes(from, to) == main = from /\ main' = to

(* What main leaves alone when it moves on to its next statement.          *)
OnlyMain == UNCHANGED <<rateVars, listener, quit, drained, conns, asked, ended>>

Launch ==
    /\ Goes("down", "config")
    /\ ended' = NotEnded
    /\ UNCHANGED <<rateVars, deferred, listener, quit, drained, conns, asked>>

(* The environment: is every required variable set and well formed, is it  *)
(* production, is FEATURE_DELETE_ALL_DATA on.                               *)
Environments == [complete : BOOLEAN, production : BOOLEAN, deleteAllData : BOOLEAN]

ValidConfig(env) == env.complete /\ ~ (env.deleteAllData /\ env.production)

LoadConfig(env) ==
    \/ /\ ValidConfig(env)
       /\ Goes("config", "tracer")
       /\ UNCHANGED deferred
       /\ OnlyMain
    \/ main = "config" /\ ~ ValidConfig(env) /\ End("startup")

(* Opens a resource, defers its release and goes on; os.Exit otherwise.    *)
Open(resource, next) ==
    \/ /\ Goes(resource, next)
       /\ deferred' = Append(deferred, resource)
       /\ OnlyMain
    \/ main = resource /\ End("startup")

InitTracer   == Open("tracer", "pool")
ConnectPool  == Open("pool", "redis")
ConnectRedis == Open("redis", "notify")

Notify ==
    /\ Goes("notify", "listen")
    /\ UNCHANGED deferred
    /\ OnlyMain

StartListener ==
    /\ Goes("listen", "wait")
    /\ listener' = "starting"
    /\ UNCHANGED <<rateVars, deferred, quit, drained, conns, asked, ended>>

(* <-quit, and srv.Shutdown closes the listener.                           *)
BeginShutdown ==
    /\ quit
    /\ Goes("wait", "drain")
    /\ quit'     = FALSE
    /\ listener' = IF listener = "open" THEN "closed" ELSE listener
    /\ UNCHANGED <<rateVars, deferred, drained, conns, asked, ended>>

(* srv.Shutdown has closed the connections without a request and found no  *)
(* other; main returns.                                                    *)
ShutdownDone ==
    /\ \A r \in Reqs : conns[r] = "none"
    /\ Goes("drain", "return")
    /\ UNCHANGED deferred
    /\ OnlyMain

(* Mutant: a failed shutdown is logged, and main returns all the same.     *)
ForcedReturn ==
    /\ drained = ShutdownTicks
    /\ Goes("drain", "return")
    /\ UNCHANGED deferred
    /\ OnlyMain

(* shutdownCtx is over: os.Exit without the deferred calls.                *)
ForcedExit == main = "drain" /\ drained = ShutdownTicks /\ End("deadline")

(* Mutant: the deferred calls run in the order they were deferred in.       *)
ReleaseFirst ==
    /\ main = "return"
    /\ deferred # <<>>
    /\ deferred' = Tail(deferred)
    /\ UNCHANGED main
    /\ OnlyMain

(* main returns: its deferred calls run in the reverse order.              *)
Release ==
    /\ main = "return"
    /\ deferred # <<>>
    /\ deferred' = SubSeq(deferred, 1, Len(deferred) - 1)
    /\ UNCHANGED main
    /\ OnlyMain

Return == main = "return" /\ deferred = <<>> /\ End("graceful")

-----------------------------------------------------------------------------
(* Signals and the listener                                                *)

(* Mutant: the handler is taken down with the first signal.                *)
NotifiedOnce == main \in {"listen", "wait"}

(* signal.Notify has been called: before, a signal ends the process.       *)
Notified == main \in {"listen", "wait", "drain", "return"}

(* Mutant: the channel has no buffer, so that a signal is dropped unless   *)
(* main is waiting for it.                                                 *)
SignalUnbuffered ==
    \/ main # "down" /\ ~ Notified /\ End("signal")
    \/ /\ Notified
       /\ quit'  = (quit \/ main = "wait")
       /\ asked' = TRUE
       /\ UNCHANGED <<rateVars, main, deferred, listener, drained, conns, ended>>

(* SIGINT or SIGTERM.  One that finds the channel full is dropped.         *)
Signal ==
    \/ main # "down" /\ ~ Notified /\ End("signal")
    \/ /\ Notified
       /\ quit'  = TRUE
       /\ asked' = TRUE
       /\ UNCHANGED <<rateVars, main, deferred, listener, drained, conns, ended>>

ShuttingDown == main \in {"drain", "return"}

(* The goroutine reaches net.Listen, unless srv.Shutdown came first.       *)
Listen ==
    /\ listener = "starting"
    /\ listener' = IF ShuttingDown THEN "closed" ELSE "open"
    /\ UNCHANGED <<rateVars, main, deferred, quit, drained, conns, asked, ended>>

(* The port is taken, which net.Listen may also find when srv.Shutdown has *)
(* begun meanwhile, or Accept fails for good: os.Exit in the goroutine.    *)
ListenerFails ==
    /\ Faults
    /\ listener \in {"starting", "open"}
    /\ End("listener")

-----------------------------------------------------------------------------
(* Connections and requests                                                *)

To(r, stage) == conns' = [conns EXCEPT ![r] = stage]

Connect(r) ==
    /\ listener = "open"
    /\ conns[r] = "none"
    /\ To(r, "new")
    /\ UNCHANGED <<rateVars, procVars>>

(* The first bytes of a request, at "limit" for a login and at "pingPool"  *)
(* for GET /health/ready.  They may also come after srv.Shutdown began.    *)
Read(r, stage) ==
    /\ conns[r] = "new"
    /\ To(r, stage)
    /\ UNCHANGED <<rateVars, procVars>>

(* A connection without a request is closed: by its client, by ReadTimeout *)
(* or by srv.Shutdown.                                                     *)
HangUp(r) ==
    /\ conns[r] = "new"
    /\ To(r, "none")
    /\ UNCHANGED <<rateVars, procVars>>

(* INCR, whose result decides the request.  When its answer is lost, the   *)
(* Redis client sends it again or gives up; then, and when INCR never      *)
(* reached Redis, the request is let through.                              *)
Count(r) ==
    /\ conns[r] = "limit"
    /\ \/ Incr(r) /\ To(r, IF r \in expiring' THEN "expire"
                           ELSE IF count < Limit THEN "handle" ELSE "none")
       \/ FailOpen(r) /\ (To(r, "limit") \/ To(r, "handle"))
       \/ Faults /\ To(r, "handle") /\ UNCHANGED rateVars
    /\ UNCHANGED procVars

(* EXPIRE, whose failure is only logged.                                   *)
Expire(r) ==
    /\ conns[r] = "expire"
    /\ SetExpiry(r) \/ ExpiryLost(r)
    /\ To(r, "handle")
    /\ UNCHANGED procVars

(* A handler returns, or the probe has its answer.                         *)
Respond(r) ==
    /\ conns[r] \in {"handle", "pingPool", "pingRedis"}
    /\ To(r, "none")
    /\ UNCHANGED <<rateVars, procVars>>

(* The pool answered, and Redis is asked.                                  *)
PingPool(r) ==
    /\ conns[r] = "pingPool"
    /\ To(r, "pingRedis")
    /\ UNCHANGED <<rateVars, procVars>>

-----------------------------------------------------------------------------
(* Bound: the time since srv.Shutdown is not told apart beyond its limit.  *)
ServerTick ==
    /\ Tick
    /\ drained' = IF main = "drain" /\ drained < ShutdownTicks THEN drained + 1 ELSE drained
    /\ UNCHANGED <<main, deferred, listener, quit, conns, asked, ended>>

Startup ==
    \/ \E env \in Environments : LoadConfig(env)
    \/ InitTracer \/ ConnectPool \/ ConnectRedis

(* What main does after it called signal.Notify.                           *)
Serving ==
    \/ StartListener \/ BeginShutdown \/ ShutdownDone \/ ForcedExit
    \/ Release \/ Return

ServerNext ==
    \/ Launch \/ Startup \/ Notify \/ Serving
    \/ Kill \/ Signal \/ Listen \/ ListenerFails
    \/ \E r \in Reqs :
         \/ Connect(r) \/ Read(r, "limit") \/ Read(r, "pingPool") \/ HangUp(r)
         \/ Count(r) \/ Expire(r) \/ PingPool(r) \/ Respond(r)
    \/ ServerTick

ServerSpec == ServerInit /\ [][ServerNext]_serverVars

(* Time passes, main goes on, and so does a login on its way to EXPIRE.    *)
(* Handlers may hang (no timeout ends one), clients, dependencies and      *)
(* signals owe nothing, and nobody need start the process.                 *)
FairServerSpec ==
    /\ ServerSpec
    /\ WF_serverVars(ServerTick)
    /\ WF_serverVars(Serving)
    /\ \A r \in Reqs : WF_serverVars(Expire(r))

-----------------------------------------------------------------------------
(* Properties                                                              *)

(* Whatever a request may call is open for as long as it runs: nothing is  *)
(* accepted before main has connected the pool and Redis, and the deferred *)
(* calls that close them wait for the last request, or do not run at all.  *)
ResourcesOutliveRequests == Active # {} => {"pool", "redis"} \subseteq Opened

(* No signal cuts a request short, whenever it comes and however many do:  *)
(* only a shutdown that took its 30 s, a listener that failed or the death *)
(* of the process does.                                                    *)
NoEarlyCut == ended.cut => ended.cause \in {"deadline", "listener", "killed"}

(* A signal delivered after signal.Notify ends the process, also when main *)
(* is not waiting for it yet and when a handler hangs.                     *)
SignalObeyed == asked ~> main = "down"

(* Restarts, shutdowns and lost answers do nothing to the key that the     *)
(* limiter of RateLimit does not do, and the limiter keeps its promises    *)
(* about time: the fair limiter is what the fair server implements.        *)
ImplementsLimiter == FairRateSpec

(* The inductive invariant: what is deferred at each of main's statements, *)
(* and while which of them the listener and connections exist.             *)
DeferredInOrder ==
    /\ main \in {"down", "config", "tracer"} => deferred = <<>>
    /\ main = "pool"  => deferred = <<"tracer">>
    /\ main = "redis" => deferred = <<"tracer", "pool">>
    /\ main \in {"notify", "listen", "wait", "drain"} =>
          deferred = <<"tracer", "pool", "redis">>

ServedInTime ==
    /\ listener # "off"  => main \in {"wait", "drain", "return"}
    /\ listener = "open" => main = "wait"
    /\ \A r \in Reqs : conns[r] # "none" => main \in {"wait", "drain"}

ServerInv == ServerTypeOK /\ DeferredInOrder /\ ServedInTime /\ NoEarlyCut
=============================================================================
