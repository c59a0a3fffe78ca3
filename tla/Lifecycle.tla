------------------------------ MODULE Lifecycle ------------------------------
(***************************************************************************)
(* The process: main, Run with its goroutine that serves, the connections and  *)
(* their handlers, and the shutdown. A request passes logging, recovery, the   *)
(* limits and the router, and reaches a handler that may open a transaction.   *)
(***************************************************************************)
EXTENDS HttpLimits

CONSTANT Started   \* environments the process is started in

ASSUME LifecycleAssumption == Started \subseteq Environments

VARIABLES run,        \* where main and Run are
          db,         \* the pool: "none", "open" or "closed"
          limiters,   \* the limiters' goroutines: "none", "running" or "stopped"
          serve,      \* where the goroutine that serves is
          sent,       \* what serverErrors holds: {}, {"nil"} or {"error"}
          signalled,  \* the signal context is cancelled
          result,     \* what Run returns
          writer      \* the connection whose transaction holds SQLite's write lock

resources == <<db, limiters>>
server    == <<serve, sent, closing>>
http      == <<limitVars, place, askVars, history, writer>>
vars      == <<run, result, signalled, providers, resources, server, http>>

\* The stages of Run and buildHandler, and what follows each.
After == [certificate |-> "open", open |-> "limiters", limiters |-> "migrate",
          migrate |-> "templates", templates |-> "uploads", uploads |-> "select"]

Returns == {"nil", "error"}
Places  == {"idle", "connected", "handler", "writing"} \cup LimitPlaces

TypeOK == /\ LimitsTypeOK
          /\ place \in [Connections -> Places]
          /\ providers \subseteq Providers
          /\ run \in DOMAIN After \cup {"config", "select", "shutdown", "receive",
                                      "cleanup", "close", "returned", "exited"}
          /\ db \in {"none", "open", "closed"}
          /\ limiters \in {"none", "running", "stopped"}
          /\ serve \in {"none", "starting", "serving", "ended", "failed", "done"}
          /\ sent \in SUBSET Returns
          /\ closing \in BOOLEAN /\ signalled \in BOOLEAN
          /\ result \in {"none"} \cup Returns
          /\ writer = {r \in Connections : place[r] = "writing"}
          /\ \A r, x \in writer : r = x

Init == /\ run = "config" /\ result = "none"
        /\ providers = {}
        /\ db = "none" /\ limiters = "none"
        /\ serve = "none" /\ sent = {}
        /\ closing = FALSE /\ signalled = FALSE
        /\ writer = {}
        /\ Buckets!BucketInit
        /\ place = [r \in Connections |-> "idle"]
        /\ client = [r \in Connections |-> Nobody]
        /\ query = [r \in Connections |-> Nothing]
        /\ window = {}
        /\ told = [c \in Clients |-> {}]
        /\ promised = [r \in Connections |-> {}]
-----------------------------------------------------------------------------
(* main and Run up to the select *)

\* An invalid environment ends the process.
Load ==
    /\ run = "config"
    /\ \E e \in Started :
          \/ /\ Valid(e)
             /\ providers' = Loaded(e).providers
             /\ run' = IF Loaded(e).https THEN "certificate" ELSE "open"
             /\ UNCHANGED result
          \/ ~Valid(e) /\ run' = "exited" /\ result' = "error" /\ UNCHANGED providers
    /\ UNCHANGED <<signalled, resources, server, http>>

\* A stage of Run and buildHandler succeeds; after the last the server is started.
StageDone ==
    /\ run \in DOMAIN After
    /\ run' = After[run]
    /\ db' = IF run = "open" THEN "open" ELSE db
    /\ limiters' = IF run = "limiters" THEN "running" ELSE limiters
    /\ serve' = IF run = "uploads" THEN "starting" ELSE serve
    /\ UNCHANGED <<result, signalled, providers, sent, closing, http>>

\* Or it fails, and what the stages before it have opened is closed.
StageFails ==
    /\ run \in DOMAIN After
    /\ run' = "returned" /\ result' = "error"
    /\ db' = IF db = "open" THEN "closed" ELSE db
    /\ limiters' = IF limiters = "running" THEN "stopped" ELSE limiters
    /\ UNCHANGED <<signalled, providers, server, http>>
-----------------------------------------------------------------------------
(* The goroutine that serves *)

\* ListenAndServe binds the address, or cannot, or comes after Shutdown.
Listen ==
    /\ serve = "starting"
    /\ serve' \in IF closing THEN {"ended"} ELSE {"serving", "failed"}
    /\ UNCHANGED <<run, result, signalled, providers, resources, sent, closing, http>>

\* Accept fails for good, or because Shutdown has closed the listener.
StopServing ==
    /\ serve = "serving"
    /\ serve' = IF closing THEN "ended" ELSE "failed"
    /\ UNCHANGED <<run, result, signalled, providers, resources, sent, closing, http>>

\* Fault: the channel has no buffer.
SendToReceiver ==
    /\ serve \in {"ended", "failed"} /\ run \in {"select", "receive"}
    /\ serve' = "done"
    /\ sent' = {IF serve = "ended" THEN "nil" ELSE "error"}
    /\ UNCHANGED <<run, result, signalled, providers, resources, closing, http>>

\* serverErrors <- normalizeServerError(serveError): the channel has room for one.
Send ==
    /\ serve \in {"ended", "failed"} /\ sent = {}
    /\ serve' = "done"
    /\ sent' = {IF serve = "ended" THEN "nil" ELSE "error"}
    /\ UNCHANGED <<run, result, signalled, providers, resources, closing, http>>
-----------------------------------------------------------------------------
(* Run from the select on *)

\* The operating system's signal, once main has asked for it.
Signal ==
    /\ run # "config" /\ ~signalled
    /\ signalled' = TRUE
    /\ UNCHANGED <<run, result, providers, resources, server, http>>

\* case err := <-serverErrors, and the same receive after a shutdown.
Receive ==
    /\ run \in {"select", "receive"} /\ sent # {}
    /\ result' \in sent /\ sent' = {}
    /\ run' = "cleanup"
    /\ UNCHANGED <<signalled, providers, resources, serve, closing, http>>

\* case <-ctx.Done(): Shutdown closes the listener first.
Shutdown ==
    /\ run = "select" /\ signalled
    /\ run' = "shutdown" /\ closing' = TRUE
    /\ UNCHANGED <<result, signalled, providers, resources, serve, sent, http>>

\* Fault: Shutdown does not wait for the connections.
Closed ==
    /\ run = "shutdown" /\ serve # "serving"
    /\ run' = "receive"
    /\ UNCHANGED <<result, signalled, providers, resources, server, http>>

\* It waits for the accept loop to leave, then for the connections to be closed,
Drained ==
    /\ run = "shutdown" /\ serve # "serving"
    /\ \A r \in Connections : place[r] = "idle"
    /\ run' = "receive"
    /\ UNCHANGED <<result, signalled, providers, resources, server, http>>

\* for shutdownTimeout at most.
Deadline ==
    /\ run = "shutdown" /\ serve # "serving"
    /\ run' = "cleanup" /\ result' = "error"
    /\ UNCHANGED <<signalled, providers, resources, server, http>>

\* The deferred cleanup.
StopLimiters ==
    /\ run = "cleanup"
    /\ run' = "close" /\ limiters' = "stopped"
    /\ UNCHANGED <<result, signalled, providers, db, server, http>>

CloseDB ==
    /\ run = "close"
    /\ run' = "returned" /\ db' = "closed"
    /\ UNCHANGED <<result, signalled, providers, limiters, server, http>>

\* main ends, and every goroutine with it.
Exit ==
    /\ run = "returned"
    /\ run' = "exited"
    /\ UNCHANGED <<result, signalled, providers, resources, server, http>>
-----------------------------------------------------------------------------
(* Connections and handlers *)

process == <<run, result, signalled, providers, resources, server>>

Move(r, to) == place' = [place EXCEPT ![r] = to]

\* Also one that came before the listener was closed.
Accept(r) ==
    /\ place[r] = "idle" /\ serve = "serving"
    /\ Move(r, "connected")
    /\ UNCHANGED <<process, limitVars, askVars, history, writer>>

\* The client, the idle timeout or Shutdown closes it.
Leave(r) ==
    /\ place[r] = "connected"
    /\ Move(r, "idle")
    /\ UNCHANGED <<process, limitVars, askVars, history, writer>>

Writes(r) == query[r].method = "POST" \/ Target(r) = "callback"

\* A transaction takes SQLite's write lock; a closed pool begins none.
Begin(r) ==
    /\ place[r] = "handler" /\ Writes(r)
    /\ db = "open" /\ writer = {}
    /\ Move(r, "writing") /\ writer' = {r}
    /\ UNCHANGED <<process, limitVars, askVars, history>>

\* It commits or is rolled back, also when the pool was closed meanwhile.
End(r) ==
    /\ place[r] = "writing"
    /\ Move(r, "handler") /\ writer' = {}
    /\ UNCHANGED <<process, limitVars, askVars, history>>

\* Fault: a transaction is rolled back by statements that a panic passes over.
PanicInTx(r) ==
    /\ place[r] \in {"handler", "writing"}
    /\ Finish(r)
    /\ UNCHANGED <<process, limitVars, window, told, writer>>

\* A deferred Rollback runs before Recovery gets the panic and answers.
Panic(r) ==
    /\ place[r] \in {"handler", "writing"}
    /\ Finish(r) /\ writer' = writer \ {r}
    /\ UNCHANGED <<process, limitVars, window, told>>

Answer(r) ==
    /\ place[r] = "handler"
    /\ Finish(r)
    /\ UNCHANGED <<process, limitVars, window, told, writer>>

Limiting(r) == Arrive(r) \/ AskGlobal(r) \/ AskRule(r)

Handling(r) == \/ Accept(r) \/ Leave(r) \/ Begin(r) \/ End(r)
               \/ Panic(r) \/ Answer(r)

\* What changes no more than the limits' state.
Limits == /\ (\E r \in Connections : Limiting(r)) \/ Tick
          /\ UNCHANGED <<run, result, signalled, resources, serve, sent, writer>>

Running == Load \/ StageDone \/ StageFails \/ Receive \/ Shutdown \/ Drained \/ Deadline
             \/ StopLimiters \/ CloseDB

Serving == Listen \/ Send \/ (closing /\ StopServing)

Next == /\ run # "exited"
        /\ \/ Running \/ Listen \/ Send \/ StopServing \/ Signal \/ Exit
           \/ Limits \/ \E r \in Connections : Handling(r)

Spec == Init /\ [][Next]_vars

\* Run and the goroutine that serves go on, and the deadline passes. Clients,
\* handlers and the end of main are given no fairness.
FairSpec == Spec /\ WF_vars(Running) /\ WF_vars(Serving)
-----------------------------------------------------------------------------
(* Properties *)

\* However Run ends, it has closed the database and stopped the limiters. If it
\* says that all went well, no request was cut off: none is in flight and no
\* connection is open.
CleanStop ==
    /\ run \in {"returned", "exited"} => db # "open" /\ limiters # "running"
    /\ result = "nil" => serve = "done" /\ \A r \in Connections : place[r] = "idle"

\* A signal stops the process, whatever the handlers do and whenever it comes: Run
\* returns, and has left no goroutine behind that still wants to send.
StopsOnSignal ==
    signalled ~> (run = "exited" \/ (run = "returned" /\ serve \in {"none", "done"}))
=============================================================================
