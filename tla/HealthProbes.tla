----------------------------- MODULE HealthProbes -----------------------------
(***************************************************************************)
(* The readiness and liveness checks (internal/api/handlers/common): a     *)
(* handler runs its probes one after the other, each in a goroutine that   *)
(* it waits for no longer than its deadline (internal/util/wait_group.go). *)
(* A goroutine that is given up runs on, and may report late.              *)
(*                                                                         *)
(* The module declares no Next: ServerLifecycle runs the checks in a       *)
(* server, which says when they arrive and whether the database is open.   *)
(***************************************************************************)
EXTENDS Integers

CONSTANTS
  Checks,  \* requests for /ready and /healthy
  Paths    \* how many ProbeWriteablePathsAbs there are

ASSUME PathsAssumption == Paths \in Nat

VARIABLES
  step,      \* where each check's handler is
  at, last,  \* its probe, and the last of its probes
  errs,      \* the probes it has counted as failed
  verdict,   \* what it answered
  worker,    \* the goroutine of each of its probes
  expired    \* checks whose deadline has passed or whose client is gone

progress == <<step, at, errs, verdict>>
checkVars == <<step, at, last, errs, verdict, worker, expired>>

\* The probes in their order: ping and access of ProbeReadiness, then the
\* sequence and the touched files that ProbeLiveness adds.
ReadProbes == 1 + Paths
Probes == 1 .. 2 * ReadProbes
DbProbes == {1, ReadProbes + 1}

ProbesTypeOK ==
  /\ step \in [Checks -> {"new", "probe", "wait", "done"}]
  /\ at \in [Checks -> Probes]
  /\ last \in [Checks -> Probes]
  /\ errs \in [Checks -> SUBSET Probes]
  /\ verdict \in [Checks -> {"none", "up", "down"}]
  /\ worker \in [Checks -> [Probes -> {"none", "running", "ok", "error"}]]
  /\ expired \subseteq Checks

ProbesInit ==
  /\ step = [h \in Checks |-> "new"]
  /\ at = [h \in Checks |-> 1]
  /\ last = [h \in Checks |-> ReadProbes]
  /\ errs = [h \in Checks |-> {}]
  /\ verdict = [h \in Checks |-> "none"]
  /\ worker = [h \in Checks |-> [p \in Probes |-> "none"]]
  /\ expired = {}

CheckOpen(h) == step[h] \in {"probe", "wait"}

\* A check arrives, with a context that has a deadline.
CheckArrives(h, kind) ==
  /\ step[h] = "new"
  /\ step' = [step EXCEPT ![h] = "probe"]
  /\ last' = [last EXCEPT ![h] = IF kind = "ready" THEN ReadProbes ELSE 2 * ReadProbes]
  /\ UNCHANGED <<at, errs, verdict, worker, expired>>

\* Mutant: a failing reading probe ends the check, a successful last one does not.
ProbeEndsLate(h, failures) ==
  /\ errs' = [errs EXCEPT ![h] = failures]
  /\ IF at[h] = ReadProbes /\ failures # {}
     THEN /\ step' = [step EXCEPT ![h] = "done"]
          /\ verdict' = [verdict EXCEPT ![h] = "down"]
          /\ UNCHANGED at
     ELSE /\ step' = [step EXCEPT ![h] = "probe"]
          /\ at' = [at EXCEPT ![h] = @ + 1]
          /\ UNCHANGED verdict

\* A probe has ended, with the errors of the check so far.  ProbeLiveness does
\* not write when a reading probe has failed; after the last probe the handler
\* answers "up" if there are no errors and its context has not ended.
ProbeEnds(h, failures) ==
  /\ errs' = [errs EXCEPT ![h] = failures]
  /\ IF at[h] = last[h] \/ (at[h] = ReadProbes /\ failures # {})
     THEN /\ step' = [step EXCEPT ![h] = "done"]
          /\ verdict' = [verdict EXCEPT ![h] =
               IF failures = {} /\ h \notin expired THEN "up" ELSE "down"]
          /\ UNCHANGED at
     ELSE /\ step' = [step EXCEPT ![h] = "probe"]
          /\ at' = [at EXCEPT ![h] = @ + 1]
          /\ UNCHANGED verdict

\* Start the goroutine, except that a path is not touched after the deadline.
StartProbe(h) ==
  /\ step[h] = "probe"
  /\ \/ /\ at[h] \in DbProbes \/ h \notin expired
        /\ worker' = [worker EXCEPT ![h][at[h]] = "running"]
        /\ step' = [step EXCEPT ![h] = "wait"]
        /\ UNCHANGED <<at, errs, verdict>>
     \/ /\ at[h] \notin DbProbes /\ h \in expired
        /\ ProbeEnds(h, errs[h] \union {at[h]})
        /\ UNCHANGED worker
  /\ UNCHANGED <<last, expired>>

\* Mutant: the error replaces those of the probes before.
ProbeDoneAfresh(h) ==
  /\ step[h] = "wait"
  /\ worker[h][at[h]] \in {"ok", "error"}
  /\ ProbeEnds(h, {p \in {at[h]} : worker[h][p] = "error"})
  /\ UNCHANGED <<last, worker, expired>>

\* WaitTimeout returns because the goroutine is done: its error may be read.
ProbeDone(h) ==
  /\ step[h] = "wait"
  /\ worker[h][at[h]] \in {"ok", "error"}
  /\ ProbeEnds(h, errs[h] \union {p \in {at[h]} : worker[h][p] = "error"})
  /\ UNCHANGED <<last, worker, expired>>

\* WaitTimeout returns because of the deadline, which select may also choose
\* when the goroutine is done.
ProbeTimesOut(h) ==
  /\ step[h] = "wait"
  /\ h \in expired
  /\ ProbeEnds(h, errs[h] \union {at[h]})
  /\ UNCHANGED <<last, worker, expired>>

\* The goroutine of a probe ends, waited for or not.  A closed database has no
\* connection to ping with.
WorkerEnds(h, p, open) ==
  /\ worker[h][p] = "running"
  /\ \E result \in IF p \in DbProbes /\ ~open THEN {"error"} ELSE {"ok", "error"} :
       worker' = [worker EXCEPT ![h][p] = result]
  /\ UNCHANGED <<progress, last, expired>>

\* The deadline passes, or the client goes away.
Expire(h) ==
  /\ CheckOpen(h) /\ h \notin expired
  /\ expired' = expired \union {h}
  /\ UNCHANGED <<progress, last, worker>>

Handle(h) == StartProbe(h) \/ ProbeDone(h) \/ ProbeTimesOut(h)
=============================================================================
