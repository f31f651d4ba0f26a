---------------------------- MODULE ServerLifecycle ----------------------------
(***************************************************************************)
(* The life of the server process: preparing, serving HTTP and gRPC from   *)
(* goroutines, and shutting down on a signal (cmd/server/server.go,        *)
(* internal/util/command/command.go, internal/api/server.go), while        *)
(* requests, gRPC calls and health checks need the database.               *)
(***************************************************************************)
EXTENDS HealthProbes

CONSTANTS
  Requests,  \* HTTP requests other than checks
  Calls      \* gRPC calls

ASSUME RequestsApart == Requests \intersect Checks = {}

VARIABLES
  main,      \* the main goroutine
  grpc,      \* the goroutine that serves gRPC
  echo,      \* the goroutine that serves HTTP
  dbOpen,    \* s.DB
  request,   \* each HTTP request
  call,      \* each gRPC call
  late,      \* requests and checks that arrived when the database was closed
  overdue,   \* the 30 s of shutdownTimeout have passed
  exit       \* how the process ended

servers == <<main, grpc, echo, dbOpen, overdue>>
served == <<request, call, late>>
vars == <<main, grpc, echo, dbOpen, request, call, late, overdue, exit, checkVars>>

Alive == exit = "none"
Work == {"new", "open", "done", "failed"}

TypeOK ==
  /\ ProbesTypeOK
  /\ main \in {"prepare", "launched", "serve", "stopGrpc", "closeDb", "stopEcho", "drain", "returned"}
  /\ grpc \in {"none", "starting", "serving"}
  /\ echo \in {"none", "starting", "serving"}
  /\ dbOpen \in BOOLEAN /\ overdue \in BOOLEAN
  /\ request \in [Requests -> Work]
  /\ call \in [Calls -> Work]
  /\ late \subseteq Requests \union Checks
  /\ exit \in {"none", "success", "error", "killed"}

Init ==
  /\ main = "prepare" /\ grpc = "none" /\ echo = "none"
  /\ dbOpen = TRUE /\ overdue = FALSE
  /\ request = [r \in Requests |-> "new"]
  /\ call = [c \in Calls |-> "new"]
  /\ late = {}
  /\ exit = "none"
  /\ ProbesInit

HttpOpen == (\E r \in Requests : request[r] = "open") \/ (\E h \in Checks : CheckOpen(h))
CallOpen == \E c \in Calls : call[c] = "open"

-----------------------------------------------------------------------------
(* Starting *)

\* log.Fatal, or the return of main.
Exits(code) == exit' = code

\* Probes, migrations, fixtures and the router, then the goroutine of Start.
Prepare ==
  /\ main = "prepare"
  /\ \/ /\ main' = "launched" /\ grpc' = "starting" /\ echo' = "starting"
        /\ UNCHANGED exit
     \/ Exits("error") /\ UNCHANGED <<main, grpc, echo>>
  /\ UNCHANGED <<dbOpen, overdue, served, checkVars>>

\* signal.Notify, while the servers may already run.
Notify ==
  /\ main = "launched"
  /\ main' = "serve"
  /\ UNCHANGED <<grpc, echo, dbOpen, overdue, served, exit, checkVars>>

\* Listening may fail; Serve after GracefulStop is an error too.  Both are fatal.
ServeGrpc ==
  /\ grpc = "starting"
  /\ \/ main \in {"launched", "serve", "stopGrpc"} /\ grpc' = "serving" /\ UNCHANGED exit
     \/ Exits("error") /\ UNCHANGED grpc
  /\ UNCHANGED <<main, echo, dbOpen, overdue, served, checkVars>>

\* Likewise, but ErrServerClosed after Echo.Shutdown is expected.
ServeEcho ==
  /\ echo = "starting"
  /\ \/ main # "drain" /\ echo' = "serving" /\ UNCHANGED exit
     \/ Exits("error") /\ UNCHANGED echo
     \/ main = "drain" /\ echo' = "none" /\ UNCHANGED exit
  /\ UNCHANGED <<main, grpc, dbOpen, overdue, served, checkVars>>

-----------------------------------------------------------------------------
(* Serving *)

HttpAccepts == echo = "serving" /\ main # "drain"

RequestArrives(r) ==
  /\ request[r] = "new" /\ HttpAccepts
  /\ request' = [request EXCEPT ![r] = "open"]
  /\ late' = IF dbOpen THEN late ELSE late \union {r}
  /\ UNCHANGED <<servers, call, exit, checkVars>>

\* A statement through the pool, which a closed database refuses; the last one
\* answers the request.
RequestEnds(r) ==
  /\ request[r] = "open"
  /\ request' = [request EXCEPT ![r] = IF dbOpen THEN "done" ELSE "failed"]
  /\ UNCHANGED <<servers, call, late, exit, checkVars>>

CallArrives(c) ==
  /\ call[c] = "new" /\ grpc = "serving" /\ main \in {"launched", "serve"}
  /\ call' = [call EXCEPT ![c] = "open"]
  /\ UNCHANGED <<servers, request, late, exit, checkVars>>

CallEnds(c) ==
  /\ call[c] = "open"
  /\ call' = [call EXCEPT ![c] = IF dbOpen THEN "done" ELSE "failed"]
  /\ UNCHANGED <<servers, request, late, exit, checkVars>>

Arrives(h) ==
  /\ HttpAccepts
  /\ \E kind \in {"ready", "healthy"} : CheckArrives(h, kind)
  /\ late' = IF dbOpen THEN late ELSE late \union {h}
  /\ UNCHANGED <<servers, request, call, exit>>

-----------------------------------------------------------------------------
(* Stopping *)

\* SIGTERM kills the process until it is asked for, and starts Shutdown then.
Signal ==
  /\ \/ main \in {"prepare", "launched"} /\ Exits("killed") /\ UNCHANGED main
     \/ main = "serve" /\ main' = "stopGrpc" /\ UNCHANGED exit
  /\ UNCHANGED <<grpc, echo, dbOpen, overdue, served, checkVars>>

\* Mutant: Stop for GracefulStop.
StopGrpcAtOnce ==
  /\ main = "stopGrpc"
  /\ main' = "closeDb"
  /\ UNCHANGED <<grpc, echo, dbOpen, overdue, served, exit, checkVars>>

\* GracefulStop waits for every open call, however long.
StopGrpc ==
  /\ main = "stopGrpc"
  /\ ~CallOpen
  /\ main' = "closeDb"
  /\ UNCHANGED <<grpc, echo, dbOpen, overdue, served, exit, checkVars>>

CloseDb ==
  /\ main = "closeDb"
  /\ dbOpen' = FALSE
  /\ main' = "stopEcho"
  /\ UNCHANGED <<grpc, echo, overdue, served, exit, checkVars>>

\* Echo.Shutdown closes the listener ...
StopEcho ==
  /\ main = "stopEcho"
  /\ main' = "drain"
  /\ UNCHANGED <<grpc, echo, dbOpen, overdue, served, exit, checkVars>>

\* ... and waits for the open requests or the end of its context.  The process
\* ends with an error also if DB.Close has failed.
Drained ==
  /\ main = "drain"
  /\ ~HttpOpen
  /\ main' = "returned"
  /\ Exits("success") \/ Exits("error")
  /\ UNCHANGED <<grpc, echo, dbOpen, overdue, served, checkVars>>

\* Mutant: there is no deadline, and nothing is given up while requests are open.
DrainNeverGivenUp ==
  /\ main = "drain"
  /\ ~HttpOpen /\ overdue
  /\ main' = "returned" /\ Exits("error")
  /\ UNCHANGED <<grpc, echo, dbOpen, overdue, served, checkVars>>

DrainGivenUp ==
  /\ main = "drain"
  /\ HttpOpen /\ overdue
  /\ main' = "returned" /\ Exits("error")
  /\ UNCHANGED <<grpc, echo, dbOpen, overdue, served, checkVars>>

\* The 30 s begin before GracefulStop.
ShutdownTimeout ==
  /\ main \in {"stopGrpc", "closeDb", "stopEcho", "drain"} /\ ~overdue
  /\ overdue' = TRUE
  /\ UNCHANGED <<main, grpc, echo, dbOpen, served, exit, checkVars>>

-----------------------------------------------------------------------------
Start == Prepare \/ Notify \/ ServeGrpc \/ ServeEcho
Shutdown == StopGrpc \/ CloseDb \/ StopEcho \/ Drained \/ DrainGivenUp

CheckRuns(h) == Handle(h) /\ UNCHANGED <<servers, served, exit>>
CheckExpires(h) == Expire(h) /\ UNCHANGED <<servers, served, exit>>
ProbeRuns(h, p) == WorkerEnds(h, p, dbOpen) /\ UNCHANGED <<servers, served, exit>>

Next ==
  /\ Alive
  /\ \/ Start \/ Signal \/ Shutdown \/ ShutdownTimeout
     \/ \E r \in Requests : RequestArrives(r) \/ RequestEnds(r)
     \/ \E c \in Calls : CallArrives(c) \/ CallEnds(c)
     \/ \E h \in Checks : Arrives(h) \/ CheckRuns(h) \/ CheckExpires(h)
     \/ \E h \in Checks, p \in Probes : ProbeRuns(h, p)

Spec == Init /\ [][Next]_vars

\* Time passes, and the goroutines of the server and of the checks run.  Nothing
\* is assumed of requests, calls and probes: they may hang.
FairSpec ==
  /\ Spec
  /\ WF_vars(Alive /\ Shutdown) /\ WF_vars(Alive /\ ShutdownTimeout)
  /\ \A h \in Checks :
       WF_vars(Alive /\ CheckRuns(h)) /\ WF_vars(Alive /\ CheckExpires(h))

-----------------------------------------------------------------------------
(* Properties *)

\* A check answers "up" only if every one of its probes ran and succeeded, also
\* when the deadline passed between two of them, and not at all if it arrived
\* after the database was closed (HTTP is still served then).
UpMeansProbed ==
  \A h \in Checks : verdict[h] = "up" =>
    (\A p \in 1 .. last[h] : worker[h][p] = "ok") /\ h \notin late

\* No gRPC call meets a closed database, whatever shuts down when; HTTP requests
\* may.  And a process that exits with success has cut nobody off; one that is
\* killed before it listens for signals, or exits with an error, may have.
DrainedBeforeEnd ==
  /\ \A c \in Calls : call[c] # "failed" /\ (call[c] = "open" => dbOpen)
  /\ exit = "success" => ~HttpOpen /\ ~CallOpen

\* Shutdown ends eventually, even if HTTP requests hang, unless a gRPC call stays
\* open for good: GracefulStop does not look at the deadline.  And every check is
\* answered although a probe hangs, unless the process ends first.
EverythingEnds ==
  /\ (main = "stopGrpc" ~> ~Alive) \/ <>[]CallOpen
  /\ \A h \in Checks : CheckOpen(h) ~> verdict[h] # "none" \/ ~Alive
=============================================================================
