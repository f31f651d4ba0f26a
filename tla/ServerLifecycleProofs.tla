------------------------- MODULE ServerLifecycleProofs -------------------------
(***************************************************************************)
(* Proofs about ServerLifecycle and HealthProbes, for every number of      *)
(* requests, calls, checks and paths.                                      *)
(***************************************************************************)
EXTENDS ServerLifecycle, TLAPS

\* As long as a check has no error, its probes so far have succeeded; it is
\* never ahead of its last probe; and its goroutines start with its handler.
ChecksInOrder ==
  \A h \in Checks :
    /\ last[h] \in {ReadProbes, 2 * ReadProbes}
    /\ step[h] = "new" => /\ at[h] = 1
                          /\ \A p \in Probes : worker[h][p] = "none"
    /\ at[h] <= last[h]
    /\ step[h] # "done" => verdict[h] = "none"
    /\ errs[h] = {} /\ step[h] # "done" => \A p \in 1 .. (at[h] - 1) : worker[h][p] = "ok"
    /\ verdict[h] = "up" => \A p \in 1 .. last[h] : worker[h][p] = "ok"

\* A check that arrived too late has not been able to ping.
LateChecks ==
  \A h \in Checks : h \in late => ~dbOpen /\ worker[h][1] # "ok"

ProbesInv == ChecksInOrder /\ LateChecks

\* The order of Shutdown.
StopOrder ==
  /\ ~dbOpen => main \in {"stopEcho", "drain", "returned"}
  /\ main \in {"closeDb", "stopEcho", "drain", "returned"} => ~CallOpen
  /\ exit = "success" => main = "returned" /\ ~HttpOpen
  /\ \A c \in Calls : call[c] # "failed"

LEMMA Ranges ==
  /\ ReadProbes \in Nat \ {0}
  /\ 1 \in Probes /\ 1 \in DbProbes
  /\ ReadProbes \in Probes /\ 2 * ReadProbes \in Probes
  /\ \A p \in Probes : p \in Nat /\ 1 <= p /\ p <= 2 * ReadProbes
  /\ \A n \in Nat : 1 <= n /\ n <= 2 * ReadProbes => n \in Probes
  BY PathsAssumption DEF ReadProbes, Probes, DbProbes

-----------------------------------------------------------------------------
(* The handler of a check *)

\* What ProbeEnds does to a check, given the errors it goes on with.
LEMMA ProbeEndsSafe ==
  ASSUME ProbesTypeOK, ChecksInOrder, NEW h \in Checks, step[h] \in {"probe", "wait"},
         NEW failures \in SUBSET Probes, ProbeEnds(h, failures),
         UNCHANGED <<last, worker>>,
         failures = {} => errs[h] = {} /\ worker[h][at[h]] = "ok"
  PROVE  /\ step' \in [Checks -> {"new", "probe", "wait", "done"}]
         /\ at' \in [Checks -> Probes]
         /\ errs' \in [Checks -> SUBSET Probes]
         /\ verdict' \in [Checks -> {"none", "up", "down"}]
         /\ ChecksInOrder'
<1>1. /\ step \in [Checks -> {"new", "probe", "wait", "done"}]
      /\ at \in [Checks -> Probes]
      /\ errs \in [Checks -> SUBSET Probes]
      /\ verdict \in [Checks -> {"none", "up", "down"}]
      /\ last \in [Checks -> Probes]
  BY DEF ProbesTypeOK
<1>2. /\ at[h] \in Nat /\ 1 <= at[h] /\ at[h] <= last[h] /\ last[h] \in Nat
      /\ last[h] \in {ReadProbes, 2 * ReadProbes}
  BY <1>1, Ranges DEF ChecksInOrder
<1>3. \A g \in Checks : g # h => /\ step'[g] = step[g] /\ at'[g] = at[g]
                                 /\ errs'[g] = errs[g] /\ verdict'[g] = verdict[g]
  BY <1>1 DEF ProbeEnds
<1>4. errs'[h] = failures /\ errs' \in [Checks -> SUBSET Probes]
  BY <1>1 DEF ProbeEnds
<1>5. failures = {} => \A p \in 1 .. at[h] : worker[h][p] = "ok"
  <2>1. SUFFICES ASSUME failures = {}, NEW p \in 1 .. at[h], p # at[h]
                 PROVE  worker[h][p] = "ok"
    OBVIOUS
  <2>2. p \in 1 .. (at[h] - 1)
    BY <1>2, <2>1
  <2>3. errs[h] = {} /\ step[h] # "done"
    BY <2>1
  <2>4. QED
    BY <2>2, <2>3 DEF ChecksInOrder
<1>6. CASE at[h] = last[h] \/ (at[h] = ReadProbes /\ failures # {})
  <2>1. /\ step'[h] = "done" /\ at' = at
        /\ verdict'[h] = (IF failures = {} /\ h \notin expired THEN "up" ELSE "down")
        /\ step' \in [Checks -> {"new", "probe", "wait", "done"}]
        /\ verdict' \in [Checks -> {"none", "up", "down"}]
    BY <1>1, <1>6 DEF ProbeEnds
  <2>2. verdict'[h] = "up" => \A p \in 1 .. last[h] : worker[h][p] = "ok"
    BY <1>5, <1>6, <2>1
  <2>3. ChecksInOrder'
    <3>1. SUFFICES ASSUME NEW g \in Checks
          PROVE /\ last[g] \in {ReadProbes, 2 * ReadProbes}
                /\ step'[g] = "new" => /\ at'[g] = 1
                                       /\ \A p \in Probes : worker[g][p] = "none"
                /\ at'[g] <= last[g]
                /\ step'[g] # "done" => verdict'[g] = "none"
                /\ errs'[g] = {} /\ step'[g] # "done" =>
                     \A p \in 1 .. (at'[g] - 1) : worker[g][p] = "ok"
                /\ verdict'[g] = "up" => \A p \in 1 .. last[g] : worker[g][p] = "ok"
      BY DEF ChecksInOrder, ReadProbes, Probes
    <3>2. CASE g # h
      BY <1>3, <2>1, <3>2 DEF ChecksInOrder
    <3>3. CASE g = h
      BY <1>2, <2>1, <2>2, <3>3
    <3>4. QED
      BY <3>2, <3>3
  <2>4. QED
    BY <1>1, <1>4, <2>1, <2>3
<1>7. CASE ~(at[h] = last[h] \/ (at[h] = ReadProbes /\ failures # {}))
  <2>1. /\ step'[h] = "probe" /\ at'[h] = at[h] + 1 /\ verdict' = verdict
        /\ step' \in [Checks -> {"new", "probe", "wait", "done"}]
    BY <1>1, <1>7 DEF ProbeEnds
  <2>2. at[h] + 1 <= last[h] /\ at[h] + 1 \in Probes
    BY <1>2, <1>7, Ranges
  <2>3. at' \in [Checks -> Probes]
    BY <1>1, <1>7, <2>2 DEF ProbeEnds
  <2>4. verdict[h] = "none"
    BY DEF ChecksInOrder
  <2>5. (at[h] + 1) - 1 = at[h]
    BY <1>2
  <2>6. ChecksInOrder'
    <3>1. SUFFICES ASSUME NEW g \in Checks
          PROVE /\ last[g] \in {ReadProbes, 2 * ReadProbes}
                /\ step'[g] = "new" => /\ at'[g] = 1
                                       /\ \A p \in Probes : worker[g][p] = "none"
                /\ at'[g] <= last[g]
                /\ step'[g] # "done" => verdict'[g] = "none"
                /\ errs'[g] = {} /\ step'[g] # "done" =>
                     \A p \in 1 .. (at'[g] - 1) : worker[g][p] = "ok"
                /\ verdict'[g] = "up" => \A p \in 1 .. last[g] : worker[g][p] = "ok"
      BY DEF ChecksInOrder, ReadProbes, Probes
    <3>2. CASE g # h
      BY <1>3, <2>1, <3>2 DEF ChecksInOrder
    <3>3. CASE g = h
      BY <1>2, <1>4, <1>5, <2>1, <2>2, <2>4, <2>5, <3>3
    <3>4. QED
      BY <3>2, <3>3
  <2>7. QED
    BY <1>1, <1>4, <2>1, <2>3, <2>6
<1>8. QED
  BY <1>6, <1>7

\* A step of a handler, of a goroutine or of the deadline of a check.
LEMMA HandleSafe ==
  ASSUME ProbesTypeOK, ChecksInOrder, NEW h \in Checks, Handle(h)
  PROVE  ProbesTypeOK' /\ ChecksInOrder' /\ \A g \in Checks : worker'[g][1] = "ok" => worker[g][1] = "ok"
<1>1. /\ step \in [Checks -> {"new", "probe", "wait", "done"}]
      /\ at \in [Checks -> Probes] /\ at[h] \in Probes
      /\ errs \in [Checks -> SUBSET Probes] /\ errs[h] \in SUBSET Probes
      /\ worker \in [Checks -> [Probes -> {"none", "running", "ok", "error"}]]
      /\ last \in [Checks -> Probes] /\ expired \subseteq Checks
      /\ verdict \in [Checks -> {"none", "up", "down"}]
  BY DEF ProbesTypeOK
<1>2. ASSUME NEW failures \in SUBSET Probes, ProbeEnds(h, failures),
             step[h] \in {"probe", "wait"},
             UNCHANGED <<last, worker, expired>>,
             failures = {} => errs[h] = {} /\ worker[h][at[h]] = "ok"
      PROVE  /\ ProbesTypeOK' /\ ChecksInOrder'
             /\ \A g \in Checks : worker'[g][1] = "ok" => worker[g][1] = "ok"
  <2>1. /\ step' \in [Checks -> {"new", "probe", "wait", "done"}]
        /\ at' \in [Checks -> Probes]
        /\ errs' \in [Checks -> SUBSET Probes]
        /\ verdict' \in [Checks -> {"none", "up", "down"}]
        /\ ChecksInOrder'
    BY <1>2, ProbeEndsSafe
  <2>2. last' = last /\ worker' = worker /\ expired' = expired
    BY <1>2
  <2>3. Probes' = Probes
    BY DEF Probes, ReadProbes
  <2>4. QED
    BY <1>1, <2>1, <2>2, <2>3 DEF ProbesTypeOK
<1>3. CASE ProbeDone(h)
  <2>1. LET failures == errs[h] \union {p \in {at[h]} : worker[h][p] = "error"} IN
          /\ failures \in SUBSET Probes
          /\ failures = {} => errs[h] = {} /\ worker[h][at[h]] = "ok"
    BY <1>1, <1>3 DEF ProbeDone
  <2>2. QED
    BY <1>2, <1>3, <2>1 DEF ProbeDone
<1>4. CASE ProbeTimesOut(h)
  <2>1. /\ errs[h] \union {at[h]} \in SUBSET Probes
        /\ errs[h] \union {at[h]} # {}
    BY <1>1
  <2>2. QED
    BY <1>2, <1>4, <2>1 DEF ProbeTimesOut
<1>5. CASE /\ step[h] = "probe"
           /\ at[h] \notin DbProbes /\ h \in expired
           /\ ProbeEnds(h, errs[h] \union {at[h]})
           /\ UNCHANGED <<last, worker, expired>>
  <2>1. /\ errs[h] \union {at[h]} \in SUBSET Probes
        /\ errs[h] \union {at[h]} # {}
    BY <1>1
  <2>2. QED
    BY <1>2, <1>5, <2>1
<1>6. CASE /\ step[h] = "probe"
           /\ worker' = [worker EXCEPT ![h][at[h]] = "running"]
           /\ step' = [step EXCEPT ![h] = "wait"]
           /\ UNCHANGED <<at, errs, verdict, last, expired>>
  <2>1. /\ step' \in [Checks -> {"new", "probe", "wait", "done"}]
        /\ worker' \in [Checks -> [Probes -> {"none", "running", "ok", "error"}]]
        /\ worker'[h] = [worker[h] EXCEPT ![at[h]] = "running"]
        /\ \A g \in Checks : g # h => worker'[g] = worker[g] /\ step'[g] = step[g]
        /\ step'[h] = "wait"
    BY <1>1, <1>6
  <2>2. ProbesTypeOK'
    BY <1>1, <1>6, <2>1 DEF ProbesTypeOK, Probes, ReadProbes
  <2>3. worker[h] \in [Probes -> {"none", "running", "ok", "error"}]
    BY <1>1
  <2>4. \A p \in Probes : p # at[h] => worker'[h][p] = worker[h][p]
    BY <2>1, <2>3
  <2>5. /\ at[h] \in Nat /\ last[h] \in Nat /\ 1 <= at[h] /\ at[h] <= last[h]
        /\ last[h] <= 2 * ReadProbes
    BY <1>1, Ranges DEF ChecksInOrder
  <2>6. \A p \in 1 .. (at[h] - 1) : p \in Probes /\ p # at[h]
    BY <2>5, Ranges
  <2>7. verdict[h] = "none" /\ (errs[h] = {} => \A p \in 1 .. (at[h] - 1) : worker[h][p] = "ok")
    BY <1>6 DEF ChecksInOrder
  <2>8. errs[h] = {} => \A p \in 1 .. (at[h] - 1) : worker'[h][p] = "ok"
    BY <2>4, <2>6, <2>7
  <2>9. ChecksInOrder'
    <3>1. SUFFICES ASSUME NEW g \in Checks
          PROVE /\ last[g] \in {ReadProbes, 2 * ReadProbes}
                /\ step'[g] = "new" => /\ at[g] = 1
                                       /\ \A p \in Probes : worker'[g][p] = "none"
                /\ at[g] <= last[g]
                /\ step'[g] # "done" => verdict[g] = "none"
                /\ errs[g] = {} /\ step'[g] # "done" =>
                     \A p \in 1 .. (at[g] - 1) : worker'[g][p] = "ok"
                /\ verdict[g] = "up" => \A p \in 1 .. last[g] : worker'[g][p] = "ok"
      BY <1>6 DEF ChecksInOrder, ReadProbes, Probes
    <3>2. CASE g # h
      BY <2>1, <3>2 DEF ChecksInOrder
    <3>3. CASE g = h
      <4>1. last[h] \in {ReadProbes, 2 * ReadProbes}
        BY DEF ChecksInOrder
      <4>2. QED
        BY <2>1, <2>5, <2>7, <2>8, <3>3, <4>1
    <3>4. QED
      BY <3>2, <3>3
  <2>10. worker'[h][1] = "ok" => worker[h][1] = "ok"
    BY <2>1, <2>3, <2>4, Ranges
  <2>11. QED
    BY <2>1, <2>2, <2>9, <2>10
<1>7. StartProbe(h) => \/ /\ step[h] = "probe"
                          /\ worker' = [worker EXCEPT ![h][at[h]] = "running"]
                          /\ step' = [step EXCEPT ![h] = "wait"]
                          /\ UNCHANGED <<at, errs, verdict, last, expired>>
                       \/ /\ step[h] = "probe"
                          /\ at[h] \notin DbProbes /\ h \in expired
                          /\ ProbeEnds(h, errs[h] \union {at[h]})
                          /\ UNCHANGED <<last, worker, expired>>
  BY DEF StartProbe
<1>8. QED
  BY <1>3, <1>4, <1>5, <1>6, <1>7 DEF Handle

LEMMA WorkerSafe ==
  ASSUME ProbesTypeOK, ChecksInOrder, NEW h \in Checks, NEW p \in Probes, NEW open \in BOOLEAN,
         WorkerEnds(h, p, open)
  PROVE  /\ ProbesTypeOK' /\ ChecksInOrder'
         /\ \A g \in Checks : worker'[g][1] = "ok" => worker[g][1] = "ok" \/ open
<1>1. /\ worker \in [Checks -> [Probes -> {"none", "running", "ok", "error"}]]
      /\ step' = step /\ at' = at /\ errs' = errs /\ verdict' = verdict
      /\ last' = last /\ expired' = expired
      /\ Probes' = Probes /\ ReadProbes' = ReadProbes
  BY DEF ProbesTypeOK, WorkerEnds, progress, Probes, ReadProbes
<1>2. PICK result \in {"ok", "error"} :
        /\ worker' = [worker EXCEPT ![h][p] = result]
        /\ result = "ok" => p \notin DbProbes \/ open
  BY DEF WorkerEnds
<1>3. /\ worker' \in [Checks -> [Probes -> {"none", "running", "ok", "error"}]]
      /\ worker'[h] = [worker[h] EXCEPT ![p] = result]
      /\ \A g \in Checks : g # h => worker'[g] = worker[g]
  BY <1>1, <1>2
<1>4. worker[h][p] = "running" /\ worker[h] \in [Probes -> {"none", "running", "ok", "error"}]
  BY <1>1 DEF WorkerEnds
<1>5. /\ \A q \in Probes : worker[h][q] = "ok" => worker'[h][q] = "ok"
      /\ worker'[h][1] = "ok" => worker[h][1] = "ok" \/ open
  BY <1>2, <1>3, <1>4, Ranges
<1>6. step[h] # "new"
  BY <1>4 DEF ChecksInOrder
<1>7. \A g \in Checks : last[g] \in Nat /\ last[g] <= 2 * ReadProbes /\ at[g] \in Nat
                        /\ at[g] <= last[g] /\ last[g] \in {ReadProbes, 2 * ReadProbes}
  BY Ranges DEF ProbesTypeOK, ChecksInOrder
<1>8. \A g \in Checks : \A q \in 1 .. last[g] : q \in Probes
  BY <1>7, Ranges
<1>9. \A g \in Checks : \A q \in 1 .. (at[g] - 1) : q \in 1 .. last[g]
  BY <1>7
<1>10. ChecksInOrder'
  <2>1. SUFFICES ASSUME NEW g \in Checks
        PROVE /\ last[g] \in {ReadProbes, 2 * ReadProbes}
              /\ step[g] = "new" => /\ at[g] = 1
                                    /\ \A q \in Probes : worker'[g][q] = "none"
              /\ at[g] <= last[g]
              /\ step[g] # "done" => verdict[g] = "none"
              /\ errs[g] = {} /\ step[g] # "done" =>
                   \A q \in 1 .. (at[g] - 1) : worker'[g][q] = "ok"
              /\ verdict[g] = "up" => \A q \in 1 .. last[g] : worker'[g][q] = "ok"
    BY <1>1 DEF ChecksInOrder
  <2>2. CASE g # h
    BY <1>3, <2>2 DEF ChecksInOrder
  <2>3. CASE g = h
    <3>1. errs[h] = {} /\ step[h] # "done" => \A q \in 1 .. (at[h] - 1) : worker'[h][q] = "ok"
      BY <1>5, <1>8, <1>9 DEF ChecksInOrder
    <3>2. verdict[h] = "up" => \A q \in 1 .. last[h] : worker'[h][q] = "ok"
      BY <1>5, <1>8 DEF ChecksInOrder
    <3>3. step[h] # "done" => verdict[h] = "none"
      BY DEF ChecksInOrder
    <3>4. QED
      BY <1>6, <1>7, <2>3, <3>1, <3>2, <3>3
  <2>4. QED
    BY <2>2, <2>3
<1>11. QED
  BY <1>1, <1>3, <1>5, <1>10 DEF ProbesTypeOK

LEMMA ArrivalSafe ==
  ASSUME ProbesTypeOK, ChecksInOrder, NEW h \in Checks, NEW kind, CheckArrives(h, kind)
  PROVE  ProbesTypeOK' /\ ChecksInOrder' /\ worker' = worker /\ worker[h][1] # "ok"
<1>1. /\ step \in [Checks -> {"new", "probe", "wait", "done"}]
      /\ last \in [Checks -> Probes]
      /\ at' = at /\ errs' = errs /\ verdict' = verdict /\ worker' = worker /\ expired' = expired
      /\ Probes' = Probes /\ ReadProbes' = ReadProbes
      /\ step[h] = "new" /\ worker[h][1] = "none" /\ at[h] = 1 /\ verdict[h] = "none"
  BY Ranges DEF ProbesTypeOK, ChecksInOrder, CheckArrives, Probes, ReadProbes
<1>2. PICK n \in {ReadProbes, 2 * ReadProbes} :
        /\ last' = [last EXCEPT ![h] = n]
        /\ step' = [step EXCEPT ![h] = "probe"]
  BY DEF CheckArrives
<1>3. n \in Probes /\ 1 <= n
  BY Ranges
<1>4. ProbesTypeOK'
  BY <1>1, <1>2, <1>3 DEF ProbesTypeOK
<1>5. ChecksInOrder'
  <2>1. SUFFICES ASSUME NEW g \in Checks
        PROVE /\ last'[g] \in {ReadProbes, 2 * ReadProbes}
              /\ step'[g] = "new" => /\ at[g] = 1
                                     /\ \A q \in Probes : worker[g][q] = "none"
              /\ at[g] <= last'[g]
              /\ step'[g] # "done" => verdict[g] = "none"
              /\ errs[g] = {} /\ step'[g] # "done" =>
                   \A q \in 1 .. (at[g] - 1) : worker[g][q] = "ok"
              /\ verdict[g] = "up" => \A q \in 1 .. last'[g] : worker[g][q] = "ok"
    BY <1>1 DEF ChecksInOrder
  <2>2. CASE g # h
    BY <1>1, <1>2, <2>2 DEF ChecksInOrder
  <2>3. CASE g = h
    BY <1>1, <1>2, <1>3, <2>3
  <2>4. QED
    BY <2>2, <2>3
<1>6. QED
  BY <1>1, <1>4, <1>5

-----------------------------------------------------------------------------
(* The invariant *)

LEMMA InitSafe == Init => TypeOK /\ ProbesInv /\ StopOrder
<1> SUFFICES ASSUME Init PROVE TypeOK /\ ProbesInv /\ StopOrder
  OBVIOUS
<1>1. ProbesTypeOK
  BY Ranges DEF Init, ProbesInit, ProbesTypeOK
<1>2. TypeOK
  BY <1>1 DEF Init, TypeOK, Work
<1>3. ChecksInOrder
  <2>1. SUFFICES ASSUME NEW h \in Checks
        PROVE /\ last[h] = ReadProbes /\ step[h] = "new" /\ at[h] = 1
              /\ \A p \in Probes : worker[h][p] = "none"
              /\ 1 <= ReadProbes /\ verdict[h] = "none"
              /\ 1 .. (1 - 1) = {}
    BY DEF ChecksInOrder
  <2>2. QED
    BY Ranges DEF Init, ProbesInit
<1>4. LateChecks /\ StopOrder
  BY DEF Init, LateChecks, StopOrder
<1>5. QED
  BY <1>2, <1>3, <1>4 DEF ProbesInv

\* The steps of checks, within a server that stands still.
LEMMA CheckSteps ==
  ASSUME TypeOK, ProbesInv, StopOrder, NEW h \in Checks, UNCHANGED <<servers, request, call, exit>>,
         \/ Handle(h) /\ UNCHANGED late
         \/ Expire(h) /\ UNCHANGED late
         \/ \E p \in Probes : WorkerEnds(h, p, dbOpen) /\ UNCHANGED late
         \/ Arrives(h),
         exit = "none"
  PROVE  TypeOK' /\ ProbesInv' /\ StopOrder'
<1>0. StopOrder'
  BY DEF StopOrder, servers, CallOpen
<1>1. ProbesTypeOK /\ ChecksInOrder /\ LateChecks /\ dbOpen \in BOOLEAN
  BY DEF TypeOK, ProbesInv
<1>2. ASSUME ProbesTypeOK', ChecksInOrder', late' = late,
             \A g \in Checks : worker'[g][1] = "ok" => worker[g][1] = "ok" \/ dbOpen
      PROVE  TypeOK' /\ ProbesInv'
  BY <1>1, <1>2 DEF TypeOK, ProbesInv, LateChecks, servers
<1>3. CASE Handle(h) /\ UNCHANGED late
  <2>1. /\ ProbesTypeOK' /\ ChecksInOrder'
        /\ \A g \in Checks : worker'[g][1] = "ok" => worker[g][1] = "ok"
    BY <1>1, <1>3, HandleSafe
  <2>2. QED
    BY <1>0, <1>2, <1>3, <2>1
<1>4. CASE Expire(h) /\ UNCHANGED late
  <2>1. ProbesTypeOK'
    BY <1>1, <1>4 DEF Expire, ProbesTypeOK, progress, Probes, ReadProbes
  <2>2. ChecksInOrder'
    BY <1>1, <1>4 DEF Expire, ChecksInOrder, progress, Probes, ReadProbes
  <2>3. worker' = worker
    BY <1>4 DEF Expire
  <2>4. \A g \in Checks : worker'[g][1] = "ok" => worker[g][1] = "ok" \/ dbOpen
    BY <2>3
  <2>5. late' = late
    BY <1>4
  <2>6. QED
    BY <1>0, <1>2, <2>1, <2>2, <2>4, <2>5
<1>5. ASSUME NEW p \in Probes, WorkerEnds(h, p, dbOpen), UNCHANGED late
      PROVE  TypeOK' /\ ProbesInv'
  BY <1>1, <1>2, <1>5, WorkerSafe
<1>6. CASE Arrives(h)
  <2>1. PICK kind \in {"ready", "healthy"} : CheckArrives(h, kind)
    BY <1>6 DEF Arrives
  <2>2. ProbesTypeOK' /\ ChecksInOrder' /\ worker' = worker /\ worker[h][1] # "ok"
    BY <1>1, <2>1, ArrivalSafe
  <2>3. late' = IF dbOpen THEN late ELSE late \union {h}
    BY <1>6 DEF Arrives
  <2>4. LateChecks'
    BY <1>1, <2>2, <2>3 DEF LateChecks, servers
  <2>5. late' \subseteq Requests \union Checks
    BY <2>3 DEF TypeOK
  <2>6. TypeOK'
    BY <2>2, <2>5 DEF TypeOK, servers
  <2>7. QED
    BY <1>0, <2>2, <2>4, <2>6 DEF ProbesInv
<1>7. QED
  BY <1>0, <1>3, <1>4, <1>5, <1>6

\* The steps of the server, of requests and of calls.
LEMMA ServerSteps ==
  ASSUME TypeOK, ProbesInv, StopOrder, exit = "none", UNCHANGED checkVars,
         \/ Start \/ Signal \/ Shutdown \/ ShutdownTimeout
         \/ \E r \in Requests : RequestArrives(r) \/ RequestEnds(r)
         \/ \E c \in Calls : CallArrives(c) \/ CallEnds(c)
  PROVE  TypeOK' /\ ProbesInv' /\ StopOrder'
<1>1. ProbesTypeOK' /\ ChecksInOrder'
  BY DEF TypeOK, ProbesInv, ProbesTypeOK, ChecksInOrder, checkVars, Probes, ReadProbes
<1>2. ASSUME dbOpen' = dbOpen \/ ~dbOpen', late' \intersect Checks = late \intersect Checks PROVE LateChecks'
  BY <1>2 DEF ProbesInv, LateChecks, checkVars, TypeOK
<1>3. CASE Start
  <2>1. TypeOK'
    BY <1>1, <1>3 DEF Start, Prepare, Notify, ServeGrpc, ServeEcho, Exits, TypeOK, served
  <2>2. StopOrder'
    BY <1>3 DEF Start, Prepare, Notify, ServeGrpc, ServeEcho, Exits, StopOrder, served, CallOpen, HttpOpen,
                checkVars, CheckOpen
  <2>3. dbOpen' = dbOpen /\ late' = late
    BY <1>3 DEF Start, Prepare, Notify, ServeGrpc, ServeEcho, served
  <2>4. QED
    BY <1>1, <1>2, <2>1, <2>2, <2>3 DEF ProbesInv
<1>4. CASE Signal \/ ShutdownTimeout
  <2>1. TypeOK'
    BY <1>1, <1>4 DEF Signal, ShutdownTimeout, Exits, TypeOK, served
  <2>2. StopOrder'
    BY <1>4 DEF Signal, ShutdownTimeout, Exits, StopOrder, served, CallOpen, HttpOpen, checkVars, CheckOpen
  <2>3. dbOpen' = dbOpen /\ late' = late
    BY <1>4 DEF Signal, ShutdownTimeout, served
  <2>4. QED
    BY <1>1, <1>2, <2>1, <2>2, <2>3 DEF ProbesInv
<1>5. CASE Shutdown
  <2>1. TypeOK'
    BY <1>1, <1>5 DEF Shutdown, StopGrpc, CloseDb, StopEcho, Drained, DrainGivenUp, Exits, TypeOK, served
  <2>2. StopOrder'
    BY <1>5 DEF Shutdown, StopGrpc, CloseDb, StopEcho, Drained, DrainGivenUp, Exits, StopOrder, served,
                CallOpen, HttpOpen, checkVars, CheckOpen
  <2>3. (dbOpen' = dbOpen \/ ~dbOpen') /\ late' = late
    BY <1>5 DEF Shutdown, StopGrpc, CloseDb, StopEcho, Drained, DrainGivenUp, served
  <2>4. QED
    BY <1>1, <1>2, <2>1, <2>2, <2>3 DEF ProbesInv
<1>6. ASSUME NEW r \in Requests, RequestArrives(r) \/ RequestEnds(r)
      PROVE  TypeOK' /\ ProbesInv' /\ StopOrder'
  <2>1. TypeOK'
    BY <1>1, <1>6 DEF RequestArrives, RequestEnds, TypeOK, Work, servers
  <2>2. StopOrder'
    BY <1>6 DEF RequestArrives, RequestEnds, StopOrder, servers, CallOpen
  <2>3. late' \in {late, late \union {r}} /\ dbOpen' = dbOpen
    BY <1>6 DEF RequestArrives, RequestEnds, servers
  <2>4. LateChecks'
    BY <2>3, RequestsApart DEF ProbesInv, LateChecks, checkVars
  <2>5. QED
    BY <1>1, <2>1, <2>2, <2>4 DEF ProbesInv
<1>7. ASSUME NEW c \in Calls, CallArrives(c) \/ CallEnds(c)
      PROVE  TypeOK' /\ ProbesInv' /\ StopOrder'
  <2>1. TypeOK'
    BY <1>1, <1>7 DEF CallArrives, CallEnds, TypeOK, Work, servers
  <2>2. call \in [Calls -> Work] /\ main' = main /\ dbOpen' = dbOpen /\ exit' = exit /\ late' = late
    BY <1>7 DEF CallArrives, CallEnds, TypeOK, servers
  <2>3. dbOpen \/ ~CallOpen
    BY DEF StopOrder
  <2>4. HttpOpen' = HttpOpen
    BY <1>7 DEF CallArrives, CallEnds, HttpOpen, checkVars, CheckOpen
  <2>5. call'[c] # "failed" /\ \A d \in Calls : d # c => call'[d] = call[d]
    <3>1. CASE CallArrives(c)
      BY <2>2, <3>1 DEF CallArrives
    <3>2. CASE CallEnds(c)
      BY <2>2, <2>3, <3>2 DEF CallEnds, CallOpen
    <3>3. QED
      BY <1>7, <3>1, <3>2
  <2>6. main \in {"closeDb", "stopEcho", "drain", "returned"} => call'[c] # "open"
    <3>1. CASE CallArrives(c)
      BY <3>1 DEF CallArrives
    <3>2. CASE CallEnds(c)
      BY <2>2, <3>2 DEF CallEnds
    <3>3. QED
      BY <1>7, <3>1, <3>2
  <2>7. StopOrder'
    BY <2>2, <2>4, <2>5, <2>6 DEF StopOrder, CallOpen
  <2>8. QED
    BY <1>1, <1>2, <2>1, <2>2, <2>7 DEF ProbesInv
<1>8. QED
  BY <1>3, <1>4, <1>5, <1>6, <1>7

LEMMA StepSafe == TypeOK /\ ProbesInv /\ StopOrder /\ [Next]_vars => (TypeOK /\ ProbesInv /\ StopOrder)'
<1> SUFFICES ASSUME TypeOK, ProbesInv, StopOrder, [Next]_vars
             PROVE  TypeOK' /\ ProbesInv' /\ StopOrder'
  OBVIOUS
<1>1. CASE UNCHANGED vars
  <2>1. ProbesTypeOK' /\ ChecksInOrder'
    BY <1>1 DEF TypeOK, ProbesInv, ProbesTypeOK, ChecksInOrder, checkVars, vars, Probes, ReadProbes
  <2>2. TypeOK' /\ LateChecks'
    BY <1>1, <2>1 DEF TypeOK, ProbesInv, LateChecks, vars, checkVars
  <2>3. StopOrder'
    BY <1>1 DEF StopOrder, vars, checkVars, CallOpen, HttpOpen, CheckOpen
  <2>4. QED
    BY <2>1, <2>2, <2>3 DEF ProbesInv
<1>2. ASSUME NEW h \in Checks, Next,
             \/ Arrives(h) \/ CheckRuns(h) \/ CheckExpires(h)
             \/ \E p \in Probes : ProbeRuns(h, p)
      PROVE  TypeOK' /\ ProbesInv' /\ StopOrder'
  <2>1. exit = "none"
    BY <1>2 DEF Next, Alive
  <2>2. UNCHANGED <<servers, request, call, exit>>
    BY <1>2 DEF Arrives, CheckRuns, CheckExpires, ProbeRuns, served
  <2>3. \/ Handle(h) /\ UNCHANGED late
        \/ Expire(h) /\ UNCHANGED late
        \/ \E p \in Probes : WorkerEnds(h, p, dbOpen) /\ UNCHANGED late
        \/ Arrives(h)
    BY <1>2 DEF CheckRuns, CheckExpires, ProbeRuns, served
  <2>4. QED
    BY <2>1, <2>2, <2>3, CheckSteps
<1>3. CASE Next /\ (\/ Start \/ Signal \/ Shutdown \/ ShutdownTimeout
                    \/ \E r \in Requests : RequestArrives(r) \/ RequestEnds(r)
                    \/ \E c \in Calls : CallArrives(c) \/ CallEnds(c))
  <2>1. exit = "none"
    BY <1>3 DEF Next, Alive
  <2>2. UNCHANGED checkVars
    BY <1>3 DEF Start, Prepare, Notify, ServeGrpc, ServeEcho, Signal, Shutdown, StopGrpc, CloseDb, StopEcho,
                Drained, DrainGivenUp, ShutdownTimeout, RequestArrives, RequestEnds, CallArrives, CallEnds
  <2>3. QED
    BY <1>3, <2>1, <2>2, ServerSteps
<1>4. QED
  BY <1>1, <1>2, <1>3 DEF Next

LEMMA AlwaysSafe == Spec => [](TypeOK /\ ProbesInv /\ StopOrder)
  BY InitSafe, StepSafe, PTL DEF Spec

\* The server, the requests and the checks keep their types.
THEOREM TypeCorrect == Spec => []TypeOK
  BY AlwaysSafe, PTL

\* A check that answers "up" has seen every one of its probes succeed, and has
\* not arrived after the database was closed.
THEOREM UpMeansProbedHolds == Spec => []UpMeansProbed
<1>1. TypeOK /\ ProbesInv => UpMeansProbed
  <2> SUFFICES ASSUME TypeOK, ProbesInv, NEW h \in Checks, verdict[h] = "up"
               PROVE  (\A p \in 1 .. last[h] : worker[h][p] = "ok") /\ h \notin late
    BY DEF UpMeansProbed
  <2>1. \A p \in 1 .. last[h] : worker[h][p] = "ok"
    BY DEF ProbesInv, ChecksInOrder
  <2>2. 1 \in 1 .. last[h]
    <3>1. last[h] \in Probes
      BY DEF TypeOK, ProbesTypeOK
    <3>2. last[h] \in Nat /\ 1 <= last[h]
      BY <3>1, Ranges
    <3>3. QED
      BY <3>2
  <2>3. QED
    BY <2>1, <2>2 DEF ProbesInv, LateChecks
<1>2. QED
  BY <1>1, AlwaysSafe, PTL

\* No gRPC call meets a closed database, and a process that exits with success
\* has cut nobody off.
THEOREM DrainedBeforeEndHolds == Spec => []DrainedBeforeEnd
<1>1. TypeOK /\ StopOrder => DrainedBeforeEnd
  BY DEF StopOrder, DrainedBeforeEnd, CallOpen, TypeOK
<1>2. QED
  BY <1>1, AlwaysSafe, PTL
=============================================================================
