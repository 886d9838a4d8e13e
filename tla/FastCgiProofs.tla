---------------------------- MODULE FastCgiProofs ----------------------------
(* For any requests, hosts, processes and bounds: the loads of mod_fastcgi   *)
(* count what is assigned, and active_procs what runs.                       *)
(*                                                                           *)
(* Neither is inductive.  RequestInv says where a request stands in its      *)
(* assignment, and LoopInv that a handler about to start a request again, or *)
(* to give it up, finds a host to take the load from.                        *)
EXTENDS FastCgi, FiniteSetTheorems, TLAPS

States == {"none", "INIT", "CONNECT_DELAYED", "PREPARE_WRITE", "WRITE", "READ"}
ProcStates == {"RUNNING", "OVERLOADED", "DIED", "DIED_WAIT_FOR_PID"}
Ctx == [state : States, host : HostSet \cup {None}, proc : Procs \cup {None},
        got_proc : BOOLEAN, reconnects : Int]

(* The loop: a handler is at work on cur, and one that failed has a host.    *)
LoopInv ==
  /\ cur \in Reqs \cup {None}
  /\ joblist \in Seq(Reqs) /\ fdwaitqueue \in Seq(Reqs) /\ events \subseteq Reqs
  /\ cur # None => pc \in {"machine", "failed", "restart", "retry"}
  /\ cur # None /\ pc # "machine" => ctx[cur].host \in HostSet

(* A request has the load of a process from its first write on, and with it  *)
(* a host and one of the host's processes, which it may have before.         *)
Settled == {"CONNECT_DELAYED", "PREPARE_WRITE", "WRITE", "READ"}
WellAssigned(c) ==
  /\ c.got_proc <=> c.state \in {"WRITE", "READ"}
  /\ c.state \in Settled => c.host \in HostSet /\ c.proc \in ProcsOf(c.host)

RequestInv ==
  /\ ctx \in [Reqs -> Ctx] /\ last_used \in Nat
  /\ pload \in [Procs -> Int] /\ hload \in [HostSet -> Int]
  /\ \A r \in Reqs : WellAssigned(ctx[r])
  /\ LoadsAgree

(* A connection that is idle or new has no request at the plugin yet.        *)
ConInv ==
  /\ con \in [Reqs -> {"idle", "new", "handle", "started", "error"}]
  /\ \A r \in Reqs : con[r] \in {"idle", "new"} => ctx[r].state = "none"

ProcInv ==
  /\ pstate \in [Procs -> ProcStates]
  /\ active_procs \in [HostSet -> Int] /\ extra \in [HostSet -> Int]
  /\ ActiveProcsExplained

Inv == LoopInv /\ RequestInv /\ ConInv /\ ProcInv

-----------------------------------------------------------------------------
(* Counting.                                                                 *)

(* Two sets that differ in r at most differ in size by r at most.            *)
LEMMA OneElement ==
  ASSUME NEW S, NEW T, NEW r, IsFiniteSet(S), S \ {r} = T \ {r}
  PROVE  Cardinality(T) = Cardinality(S) + (IF r \in T THEN 1 ELSE 0) - (IF r \in S THEN 1 ELSE 0)
<1>1. IsFiniteSet(S \ {r}) /\ Cardinality(S \ {r}) \in Nat /\ Cardinality(S) \in Nat
  BY FS_RemoveElement, FS_CardinalityType
<1>2. Cardinality(S \ {r}) = IF r \in S THEN Cardinality(S) - 1 ELSE Cardinality(S)
  BY FS_RemoveElement
<1>3. IsFiniteSet(T) /\ Cardinality(T) \in Nat
  <2>1. CASE r \in T
    <3>1. T = (S \ {r}) \cup {r}
      BY <2>1
    <3> QED BY <1>1, <3>1, FS_AddElement, FS_CardinalityType
  <2>2. CASE r \notin T
    <3>1. T = S \ {r}
      BY <2>2
    <3> QED BY <1>1, <3>1, FS_CardinalityType
  <2> QED BY <2>1, <2>2
<1>4. Cardinality(T \ {r}) = IF r \in T THEN Cardinality(T) - 1 ELSE Cardinality(T)
  BY <1>3, FS_RemoveElement
<1> DEFINE cs == Cardinality(S)
           ct == Cardinality(T)
           cd == Cardinality(S \ {r})
<1>5. cs \in Nat /\ ct \in Nat /\ cd \in Nat
  BY <1>1, <1>3
<1>6. cd = (IF r \in S THEN cs - 1 ELSE cs) /\ cd = (IF r \in T THEN ct - 1 ELSE ct)
  BY <1>2, <1>4
<1> HIDE DEF cs, ct, cd
<1>7. ct = cs + (IF r \in T THEN 1 ELSE 0) - (IF r \in S THEN 1 ELSE 0)
  BY <1>5, <1>6
<1> QED BY <1>7 DEF cs, ct

(* Every process belongs to the host that HostOf chooses, and to no other.   *)
LEMMA HostOfProc ==
  ASSUME NEW p \in Procs
  PROVE  /\ HostOf(p) \in HostSet /\ p \in ProcsOf(HostOf(p))
         /\ \A h \in HostSet : p \in ProcsOf(h) => h = HostOf(p)
<1>1. \E h \in HostSet : p \in ProcsOf(h) /\ \A g \in HostSet : p \in ProcsOf(g) => g = h
  BY ConfigAssumption
<1>2. HostOf(p) \in HostSet /\ p \in ProcsOf(HostOf(p))
  BY <1>1 DEF HostOf
<1> QED BY <1>1, <1>2

LEMMA ProcsOfType ==
  ASSUME NEW h \in HostSet
  PROVE  ProcsOf(h) \subseteq Procs /\ IsFiniteSet(ProcsOf(h))
<1>1. HostProcs[h] \in Seq(Procs)
  BY ConfigAssumption
<1>2. ProcsOf(h) \subseteq Procs
  BY <1>1 DEF ProcsOf
<1> QED BY <1>2, FS_Subset, ConfigAssumption

(* The load of a request's process and host follow one change of its ctx.    *)
Gets(c, p) == IF c.got_proc /\ c.proc = p THEN 1 ELSE 0
Loads(c, h) == IF c.host = h THEN 1 ELSE 0

LEMMA LoadsStep ==
  ASSUME LoadsAgree, ctx \in [Reqs -> Ctx],
         NEW r \in Reqs, NEW c \in Ctx, ctx' = [ctx EXCEPT ![r] = c],
         \A p \in Procs : pload'[p] = pload[p] + Gets(c, p) - Gets(ctx[r], p),
         \A h \in HostSet : hload'[h] = hload[h] + Loads(c, h) - Loads(ctx[r], h)
  PROVE  LoadsAgree'
<1> DEFINE Got(f, p) == {q \in Reqs : f[q].got_proc /\ f[q].proc = p}
           On(f, h) == {q \in Reqs : f[q].host = h}
<1>1. ASSUME NEW p \in Procs
      PROVE  pload'[p] = Cardinality(Got(ctx', p))
  <2>1. IsFiniteSet(Got(ctx, p)) /\ Got(ctx, p) \ {r} = Got(ctx', p) \ {r}
    BY FS_Subset, ConfigAssumption
  <2>2. (r \in Got(ctx, p) <=> ctx[r].got_proc /\ ctx[r].proc = p) /\ (r \in Got(ctx', p) <=> c.got_proc /\ c.proc = p)
    OBVIOUS
  <2>3. pload[p] = Cardinality(Got(ctx, p)) /\ Cardinality(Got(ctx, p)) \in Nat
    BY <2>1, FS_CardinalityType DEF LoadsAgree
  <2> HIDE DEF Got
  <2>4. Cardinality(Got(ctx', p)) = Cardinality(Got(ctx, p)) + (IF r \in Got(ctx', p) THEN 1 ELSE 0) - (IF r \in Got(ctx, p) THEN 1 ELSE 0)
    BY <2>1, OneElement
  <2> QED BY <2>2, <2>3, <2>4 DEF Gets
<1>2. ASSUME NEW h \in HostSet
      PROVE  hload'[h] = Cardinality(On(ctx', h))
  <2>1. IsFiniteSet(On(ctx, h)) /\ On(ctx, h) \ {r} = On(ctx', h) \ {r}
    BY FS_Subset, ConfigAssumption
  <2>2. (r \in On(ctx, h) <=> ctx[r].host = h) /\ (r \in On(ctx', h) <=> c.host = h)
    OBVIOUS
  <2>3. hload[h] = Cardinality(On(ctx, h)) /\ Cardinality(On(ctx, h)) \in Nat
    BY <2>1, FS_CardinalityType DEF LoadsAgree
  <2> HIDE DEF On
  <2>4. Cardinality(On(ctx', h)) = Cardinality(On(ctx, h)) + (IF r \in On(ctx', h) THEN 1 ELSE 0) - (IF r \in On(ctx, h) THEN 1 ELSE 0)
    BY <2>1, OneElement
  <2> QED BY <2>2, <2>3, <2>4 DEF Loads
<1> QED BY <1>1, <1>2 DEF LoadsAgree

(* The count of active processes follows one change of a process's state.    *)
Runs(s) == IF s = "RUNNING" THEN 1 ELSE 0

LEMMA ActiveStep ==
  ASSUME ProcInv, NEW p \in Procs,
         pstate' \in [Procs -> ProcStates], \A q \in Procs : q # p => pstate'[q] = pstate[q],
         active_procs' \in [HostSet -> Int], extra' \in [HostSet -> Int],
         \A h \in HostSet : h # HostOf(p) => active_procs'[h] = active_procs[h] /\ extra'[h] = extra[h],
         active_procs'[HostOf(p)] - extra'[HostOf(p)] =
           active_procs[HostOf(p)] - extra[HostOf(p)] + Runs(pstate'[p]) - Runs(pstate[p])
  PROVE  ProcInv'
<1> USE DEF ProcInv
<1> SUFFICES ASSUME NEW h \in HostSet
             PROVE  active_procs'[h] = Cardinality(Running(h)') + extra'[h]
  BY DEF ActiveProcsExplained
<1> DEFINE R == Running(h)
           Q == {q \in ProcsOf(h) : pstate'[q] = "RUNNING"}
<1>1. Running(h)' = Q
  BY DEF Running, ProcsOf
<1>2. IsFiniteSet(R) /\ Cardinality(R) \in Nat
  BY ProcsOfType, FS_Subset, FS_CardinalityType DEF Running
<1>3. R \ {p} = Q \ {p}
  BY ProcsOfType DEF Running
<1>4. active_procs[h] = Cardinality(R) + extra[h]
  BY DEF ActiveProcsExplained
<1>5. CASE h = HostOf(p)
  <2>1. p \in ProcsOf(h)
    BY <1>5, HostOfProc
  <2>2. (p \in R <=> pstate[p] = "RUNNING") /\ (p \in Q <=> pstate'[p] = "RUNNING")
    BY <2>1 DEF Running
  <2>3. active_procs'[h] - extra'[h] = active_procs[h] - extra[h] + Runs(pstate'[p]) - Runs(pstate[p])
    BY <1>5
  <2>4. /\ active_procs[h] \in Int /\ extra[h] \in Int
        /\ active_procs'[h] \in Int /\ extra'[h] \in Int
    OBVIOUS
  <2> HIDE DEF R, Q
  <2>5. Cardinality(Q) = Cardinality(R) + (IF p \in Q THEN 1 ELSE 0) - (IF p \in R THEN 1 ELSE 0)
    BY <1>2, <1>3, OneElement
  <2> QED BY <1>1, <1>2, <1>4, <2>2, <2>3, <2>4, <2>5 DEF Runs
<1>6. CASE h # HostOf(p)
  <2>1. p \notin ProcsOf(h)
    BY <1>6, HostOfProc
  <2>2. R = Q
    BY <1>3, <2>1 DEF Running
  <2> QED BY <1>1, <1>4, <1>6, <2>2
<1> QED BY <1>5, <1>6

(* Processes that neither start, stop nor are counted.                       *)
LEMMA ProcsKept ==
  ASSUME ProcInv, UNCHANGED <<pstate, active_procs, extra>>
  PROVE  ProcInv'
<1>1. \A h \in HostSet : Running(h)' = Running(h)
  BY DEF Running, ProcsOf
<1> QED BY <1>1 DEF ProcInv, ActiveProcsExplained

(* A process that changes its state and was, and is, not running.            *)
LEMMA StaysDown ==
  ASSUME ProcInv, NEW p \in Procs, NEW s \in ProcStates, s # "RUNNING", pstate[p] # "RUNNING",
         pstate' = [pstate EXCEPT ![p] = s], UNCHANGED <<active_procs, extra>>
  PROVE  ProcInv'
<1>1. HostOf(p) \in HostSet
  BY HostOfProc
<1> QED BY <1>1, ActiveStep DEF ProcInv, Runs

(* A process that runs again.                                                *)
LEMMA Revived ==
  ASSUME ProcInv, NEW p \in Procs, pstate' = [pstate EXCEPT ![p] = "RUNNING"],
         active_procs' = [active_procs EXCEPT ![HostOf(p)] = @ + 1],
         extra' = [extra EXCEPT ![HostOf(p)] = @ + Runs(pstate[p])]
  PROVE  ProcInv'
<1>1. HostOf(p) \in HostSet
  BY HostOfProc
<1>2. pstate' \in [Procs -> ProcStates] /\ Runs(pstate[p]) \in Int
  BY DEF ProcInv, ProcStates, Runs
<1>3. active_procs' \in [HostSet -> Int] /\ extra' \in [HostSet -> Int]
  BY <1>1, <1>2 DEF ProcInv
<1> QED BY <1>1, <1>2, <1>3, ActiveStep DEF ProcInv, Runs

(* A process that is taken out of use.                                       *)
LEMMA Disabled ==
  ASSUME ProcInv, NEW p \in Procs, NEW h \in HostSet, p \in ProcsOf(h), fcgi_host_disable(h, p)
  PROVE  ProcInv'
<1>1. h = HostOf(p)
  BY HostOfProc
<1>2. CASE DisableTime[h] > 0 \/ is_local[p]
  <2>1. pstate' \in [Procs -> ProcStates] /\ pstate'[p] # "RUNNING"
    BY <1>2 DEF fcgi_host_disable, ProcInv, ProcStates
  <2>2. \A q \in Procs : q # p => pstate'[q] = pstate[q]
    BY <1>2 DEF fcgi_host_disable, ProcInv
  <2>3. active_procs' \in [HostSet -> Int] /\ extra' = extra
    BY <1>2 DEF fcgi_host_disable, ProcInv
  <2>4. active_procs'[h] = active_procs[h] - Runs(pstate[p])
    BY <1>2 DEF fcgi_host_disable, ProcInv, Runs
  <2>5. \A g \in HostSet : g # h => active_procs'[g] = active_procs[g]
    BY <1>2 DEF fcgi_host_disable, ProcInv
  <2> QED BY <1>1, <2>1, <2>2, <2>3, <2>4, <2>5, ActiveStep DEF ProcInv, Runs
<1>3. CASE ~(DisableTime[h] > 0 \/ is_local[p])
  BY <1>3, ProcsKept DEF fcgi_host_disable, procVars
<1> QED BY <1>2, <1>3

-----------------------------------------------------------------------------
(* Facts about the handler's request.                                        *)

(* A handler's request is one of Reqs, and has the host it was assigned.     *)
LEMMA InHand ==
  ASSUME LoopInv, RequestInv
  PROVE  /\ cur # None => cur \in Reqs /\ ctx[cur] \in Ctx /\ WellAssigned(ctx[cur])
         /\ Assigned => cur # None /\ ctx[cur].host \in HostSet
<1>1. cur # None => cur \in Reqs /\ ctx[cur] \in Ctx /\ WellAssigned(ctx[cur])
  BY DEF LoopInv, RequestInv
<1>2. Assigned => cur # None /\ ctx[cur].host # None
  BY DEF Assigned, InSubrequest, At
<1> QED BY <1>1, <1>2 DEF Ctx

LEMMA BestProcRuns ==
  ASSUME NEW h \in HostSet, NEW p, BestProc(h, p)
  PROVE  p \in ProcsOf(h) /\ p \in Procs /\ pstate[p] = "RUNNING"
<1>1. p \in ProcsOf(h) /\ pstate[p] = "RUNNING"
  BY DEF BestProc, ProcsOf
<1> QED BY <1>1, ProcsOfType

(* The handler is about to connect to a running process of its host.         *)
LEMMA Connecting ==
  ASSUME LoopInv, RequestInv, NEW p, StartConnect(p)
  PROVE  /\ cur \in Reqs /\ ctx[cur] \in Ctx /\ WellAssigned(ctx[cur]) /\ ctx[cur].host \in HostSet
         /\ p \in ProcsOf(ctx[cur].host) /\ p \in Procs /\ pstate[p] = "RUNNING"
         /\ ctx[cur].state = "INIT" /\ ~ctx[cur].got_proc
<1>1. Assigned /\ ctx[cur].state = "INIT" /\ BestProc(ctx[cur].host, p)
  BY DEF StartConnect
<1>2. cur \in Reqs /\ ctx[cur] \in Ctx /\ WellAssigned(ctx[cur]) /\ ctx[cur].host \in HostSet
  BY <1>1, InHand
<1>3. p \in ProcsOf(ctx[cur].host) /\ p \in Procs /\ pstate[p] = "RUNNING"
  BY <1>1, <1>2, BestProcRuns
<1> QED BY <1>1, <1>2, <1>3 DEF WellAssigned

(* What a write to the backend does to the request.                          *)
LEMMA Written ==
  ASSUME network_backend_write
  PROVE  /\ \E s \in {"WRITE", "READ"} : ctx' = [ctx EXCEPT ![cur].got_proc = TRUE, ![cur].state = s]
         /\ UNCHANGED <<hload, last_used, con, joblist, fdwaitqueue, events, procVars>>
         /\ Return \/ (pc' = "retry" /\ cur' = cur)
<1>1. \E s \in {"WRITE", "READ"} : ctx' = [ctx EXCEPT ![cur].got_proc = TRUE, ![cur].state = s]
  <2>1. CASE sock[cur] = "up"
    <3>1. PICK t \in {<<"READ", "up">>, <<"WRITE", "up">>, <<"WRITE", "full">>} :
            ctx' = [ctx EXCEPT ![cur].got_proc = TRUE, ![cur].state = t[1]]
      BY <2>1 DEF network_backend_write, Writes
    <3>2. t[1] \in {"WRITE", "READ"}
      OBVIOUS
    <3> QED BY <3>1, <3>2
  <2>2. CASE sock[cur] # "up"
    BY <2>2 DEF network_backend_write
  <2> QED BY <2>1, <2>2
<1>2. UNCHANGED <<joblist, fdwaitqueue, con, hload, last_used, events>> /\ UNCHANGED procVars
  BY DEF network_backend_write, handlerRest
<1>3. Return \/ (pc' = "retry" /\ cur' = cur)
  BY DEF network_backend_write
<1> QED BY <1>1, <1>2, <1>3

-----------------------------------------------------------------------------
(* Processes: one step per action that touches one.                          *)

LEMMA ProcStep ==
  ASSUME Inv, [Next]_vars
  PROVE  ProcInv'
<1> USE DEF Inv
<1>1. CASE UNCHANGED vars
  BY <1>1, ProcsKept DEF vars, procVars
<1>2. ASSUME NEW p \in Procs, LeaveProc(p)
      PROVE  ProcInv'
  <2>1. CASE IsDead(p)
    <3>1. "DIED" \in ProcStates /\ pstate[p] # "RUNNING"
      BY <2>1 DEF IsDead, ProcStates
    <3>2. pstate' = [pstate EXCEPT ![p] = "DIED"] /\ UNCHANGED <<active_procs, extra>>
      BY <1>2, <2>1 DEF LeaveProc
    <3> QED BY <3>1, <3>2, StaysDown
  <2>2. CASE ~IsDead(p)
    <3>1. pstate' = [pstate EXCEPT ![p] = @] /\ UNCHANGED <<active_procs, extra>>
      BY <1>2, <2>2 DEF LeaveProc
    <3>2. pstate' = pstate
      BY <3>1 DEF ProcInv
    <3> QED BY <3>1, <3>2, ProcsKept
  <2> QED BY <2>1, <2>2
<1>3. ASSUME NEW p \in Procs, Reenable(p)
      PROVE  ProcInv'
  <2>1. pstate[p] # "RUNNING" /\ HostOf(p) \in HostSet
    BY <1>3, HostOfProc DEF Reenable, MayReenable
  <2>2. extra' = [extra EXCEPT ![HostOf(p)] = @ + Runs(pstate[p])]
    BY <1>3, <2>1 DEF Reenable, Runs, ProcInv
  <2> QED BY <1>3, <2>2, Revived DEF Reenable
<1>4. ASSUME NEW p \in Procs, Respawn(p)
      PROVE  ProcInv'
  <2>1. pstate[p] # "RUNNING" /\ HostOf(p) \in HostSet
    BY <1>4, HostOfProc DEF Respawn, MayRespawn, IsDead
  <2>2. extra' = [extra EXCEPT ![HostOf(p)] = @ + Runs(pstate[p])]
    BY <1>4, <2>1 DEF Respawn, Runs, ProcInv
  <2> QED BY <1>4, <2>2, Revived DEF Respawn, fcgi_spawn_connection
<1>5. ASSUME NEW p \in Procs, RespawnFails(p)
      PROVE  ProcInv'
  <2>1. "DIED" \in ProcStates /\ pstate[p] # "RUNNING"
    BY <1>5 DEF RespawnFails, MayRespawn, IsDead, ProcStates
  <2> QED BY <1>5, <2>1, StaysDown DEF RespawnFails, fcgi_spawn_connection_fails
<1>6. ASSUME NEW p \in Procs, ConnectOverloaded(p)
      PROVE  ProcInv'
  <2> DEFINE h == ctx[cur].host
  <2>1. h \in HostSet /\ h = HostOf(p) /\ pstate[p] = "RUNNING"
    BY <1>6, Connecting, HostOfProc DEF ConnectOverloaded
  <2>2. CASE DisableTime[h] > 0
    <3>1. pstate' = [pstate EXCEPT ![p] = "OVERLOADED"] /\ active_procs' = [active_procs EXCEPT ![h] = @ - 1]
          /\ extra' = extra
      BY <1>6, <2>2 DEF ConnectOverloaded
    <3>2. pstate' \in [Procs -> ProcStates] /\ \A q \in Procs : q # p => pstate'[q] = pstate[q]
      BY <3>1 DEF ProcInv, ProcStates
    <3>3. pstate'[p] = "OVERLOADED"
      BY <3>1 DEF ProcInv
    <3> HIDE DEF h
    <3>4. active_procs' \in [HostSet -> Int] /\ active_procs'[h] = active_procs[h] - 1
          /\ \A g \in HostSet : g # h => active_procs'[g] = active_procs[g]
      BY <2>1, <3>1 DEF ProcInv
    <3> QED BY <2>1, <3>1, <3>2, <3>3, <3>4, ActiveStep DEF Runs, ProcInv
  <2>3. CASE ~(DisableTime[h] > 0)
    BY <1>6, <2>3, ProcsKept DEF ConnectOverloaded, procVars
  <2> QED BY <2>2, <2>3
<1>7. ASSUME NEW p \in Procs, ConnectDead(p)
      PROVE  ProcInv'
  <2>1. ctx[cur].host \in HostSet /\ p \in ProcsOf(ctx[cur].host)
    BY <1>7, Connecting DEF ConnectDead
  <2> QED BY <1>7, <2>1, Disabled DEF ConnectDead
<1>8. CASE ConnectFailed
  <2>1. cur \in Reqs /\ WellAssigned(ctx[cur]) /\ ctx[cur].state = "CONNECT_DELAYED"
    BY <1>8, InHand DEF ConnectFailed
  <2>2. ctx[cur].host \in HostSet /\ ctx[cur].proc \in ProcsOf(ctx[cur].host)
    BY <2>1 DEF WellAssigned, Settled
  <2>3. ctx[cur].proc \in Procs
    BY <2>2, ProcsOfType
  <2> QED BY <1>8, <2>2, <2>3, Disabled DEF ConnectFailed
<1>9. ASSUME NEW r \in Reqs, AnswerBreaks(r)
      PROVE  ProcInv'
  <2> DEFINE p == ctx[r].proc
  <2>1. ctx[r].state = "READ" /\ WellAssigned(ctx[r]) /\ BuryProc(p)
    BY <1>9 DEF AnswerBreaks, RequestInv
  <2>2. p \in Procs
    BY <2>1, ProcsOfType DEF WellAssigned, Settled
  <2>3. BuryProc(p)
    BY <2>1
  <2> HIDE DEF p
  <2>4. HostOf(p) \in HostSet
    BY <2>2, HostOfProc
  <2>5. CASE UNCHANGED procVars
    BY <2>5, ProcsKept DEF procVars
  <2>6. CASE fcgi_spawn_connection(p) /\ CountedTwice(p)
    BY <2>2, <2>6, Revived DEF fcgi_spawn_connection, CountedTwice, Runs
  <2>7. CASE CountedTwice(p) /\ pstate' = [pstate EXCEPT ![p] = "DIED"] /\ UNCHANGED active_procs
    <3>1. pstate' \in [Procs -> ProcStates] /\ pstate'[p] = "DIED"
      BY <2>2, <2>7 DEF ProcInv, ProcStates
    <3>2. \A q \in Procs : q # p => pstate'[q] = pstate[q]
      BY <2>7 DEF ProcInv
    <3>3. extra' \in [HostSet -> Int] /\ extra'[HostOf(p)] = extra[HostOf(p)] + Runs(pstate[p])
          /\ \A h \in HostSet : h # HostOf(p) => extra'[h] = extra[h]
      BY <2>4, <2>7 DEF ProcInv, CountedTwice, Runs
    <3>4. Runs("DIED") = 0 /\ Runs(pstate[p]) \in Int
      BY DEF Runs
    <3> QED BY <2>2, <2>4, <2>7, <3>1, <3>2, <3>3, <3>4, ActiveStep DEF ProcInv
  <2> QED BY <2>3, <2>5, <2>6, <2>7 DEF BuryProc, fcgi_spawn_connection_fails
<1>10. CASE Trigger \/ SameSecond \/ FdWait \/ Poll \/ EventsEnd \/ Jobs
  BY <1>10, ProcsKept DEF Trigger, SameSecond, FdWait, Poll, EventsEnd, Jobs, loopRest, procVars
<1>11. CASE fcgi_check_extension \/ Answer \/ Restarted
  BY <1>11, ProcsKept DEF fcgi_check_extension, Answer, Restarted, handlerRest, procVars
<1>12. CASE ChooseHost \/ AllHostsDown \/ NoRunningProc \/ NoDescriptor
  BY <1>12, ProcsKept DEF ChooseHost, AllHostsDown, NoRunningProc, NoDescriptor, handlerRest, procVars
<1>13. CASE ConnectDone \/ PrepareWrite \/ WriteMore \/ AwaitAnswer
  BY <1>13, ProcsKept, Written DEF ConnectDone, PrepareWrite, WriteMore, AwaitAnswer, handlerRest, procVars
<1>14. CASE Failed \/ Retry \/ GiveUp
  BY <1>14, ProcsKept DEF Failed, Retry, GiveUp, handlerRest, procVars
<1>15. ASSUME NEW p \in Procs, ConnectOk(p) \/ ConnectDelayed(p)
       PROVE  ProcInv'
  BY <1>15, ProcsKept DEF ConnectOk, ConnectDelayed, procVars
<1>16. ASSUME NEW r \in Reqs, WriteEvent(r) \/ AnswerStarts(r) \/ AnswerEnds(r)
       PROVE  ProcInv'
  BY <1>16, ProcsKept DEF WriteEvent, AnswerStarts, AnswerEnds, procVars
<1>17. CASE Environment
  <2>1. UNCHANGED <<pstate, active_procs, extra>>
    BY <1>17 DEF Environment, RequestArrives, ClientGone, ConnectCompletes, BackendActs, SockChanges,
                 ProcDies, procVars
  <2> QED BY <2>1, ProcsKept
<1> QED BY <1>1, <1>2, <1>3, <1>4, <1>5, <1>6, <1>7, <1>8, <1>9, <1>10, <1>11, <1>12, <1>13, <1>14,
           <1>15, <1>16, <1>17
        DEF Next, Server, mod_fastcgi_handle_subrequest, fcgi_handle_fdevent

-----------------------------------------------------------------------------
(* Requests and loads.                                                       *)

LEMMA RequestsKept ==
  ASSUME RequestInv, UNCHANGED <<ctx, pload, hload, last_used>>
  PROVE  RequestInv'
BY DEF RequestInv, LoadsAgree

(* A request that moves on and has the same loads.                           *)
LEMMA RequestMoves ==
  ASSUME RequestInv, NEW r \in Reqs, NEW c \in Ctx, WellAssigned(c), ctx' = [ctx EXCEPT ![r] = c],
         c.host = ctx[r].host, c.got_proc = ctx[r].got_proc, c.got_proc => c.proc = ctx[r].proc,
         UNCHANGED <<pload, hload, last_used>>
  PROVE  RequestInv'
<1>1. /\ \A p \in Procs : pload'[p] = pload[p] + Gets(c, p) - Gets(ctx[r], p)
      /\ \A h \in HostSet : hload'[h] = hload[h] + Loads(c, h) - Loads(ctx[r], h)
  BY DEF RequestInv, Gets, Loads
<1>2. LoadsAgree'
  BY <1>1, LoadsStep DEF RequestInv
<1>3. ctx' \in [Reqs -> Ctx] /\ \A q \in Reqs : WellAssigned(ctx'[q])
  BY DEF RequestInv
<1> QED BY <1>2, <1>3 DEF RequestInv, WellAssigned

(* A request that leaves its host and its process: the two ways to do so     *)
(* differ in the state they leave it in.                                     *)
LEMMA RequestLeaves ==
  ASSUME RequestInv, NEW r \in Reqs, NEW c \in Ctx, ctx' = [ctx EXCEPT ![r] = c],
         c.state \in {"none", "INIT"}, c.host = None, ~c.got_proc,
         pload' = IF ctx[r].got_proc THEN [pload EXCEPT ![ctx[r].proc] = @ - 1] ELSE pload,
         hload' = IF ctx[r].host # None THEN [hload EXCEPT ![ctx[r].host] = @ - 1] ELSE hload,
         UNCHANGED last_used
  PROVE  RequestInv'
<1> USE DEF RequestInv
<1>1. ctx[r] \in Ctx /\ WellAssigned(ctx[r]) /\ None \notin HostSet
  BY ConfigAssumption
<1>2. ctx[r].got_proc => ctx[r].proc \in Procs
  BY <1>1, ProcsOfType DEF WellAssigned, Settled
<1>3. ctx[r].host # None => ctx[r].host \in HostSet
  BY <1>1 DEF Ctx
<1>4. pload' \in [Procs -> Int]
  BY <1>2
<1>5. hload' \in [HostSet -> Int]
  BY <1>3
<1>6. \A p \in Procs : pload'[p] = pload[p] + Gets(c, p) - Gets(ctx[r], p)
  BY <1>2 DEF Gets
<1>7. \A h \in HostSet : hload'[h] = hload[h] + Loads(c, h) - Loads(ctx[r], h)
  BY <1>1, <1>3 DEF Loads
<1>8. LoadsAgree'
  BY <1>6, <1>7, LoadsStep
<1>9. WellAssigned(c)
  BY DEF WellAssigned, Settled
<1>10. ctx' \in [Reqs -> Ctx] /\ \A q \in Reqs : WellAssigned(ctx'[q])
  BY <1>9
<1> QED BY <1>4, <1>5, <1>8, <1>10 DEF WellAssigned

LEMMA RequestCloses ==
  ASSUME RequestInv, NEW r \in Reqs, fcgi_connection_close(r), UNCHANGED last_used
  PROVE  RequestInv'
<1>1. NoCtx \in Ctx /\ NoCtx.state \in {"none", "INIT"} /\ NoCtx.host = None /\ ~NoCtx.got_proc
  BY DEF NoCtx, Ctx, States
<1> QED BY <1>1, RequestLeaves DEF fcgi_connection_close

LEMMA RequestStep ==
  ASSUME Inv, [Next]_vars
  PROVE  RequestInv'
<1> USE DEF Inv
<1>1. CASE UNCHANGED vars
  BY <1>1, RequestsKept DEF vars, reqVars
<1>2. CASE ChooseHost
  <2>1. cur \in Reqs /\ ctx[cur] \in Ctx /\ WellAssigned(ctx[cur]) /\ ctx[cur].host = None
    BY <1>2, InHand DEF ChooseHost, InSubrequest, At
  <2>2. PICK i \in BestHosts : /\ last_used' = i
                               /\ ctx' = [ctx EXCEPT ![cur].host = Hosts[i], ![cur].proc = None]
                               /\ hload' = [hload EXCEPT ![Hosts[i]] = @ + 1]
    BY <1>2 DEF ChooseHost
  <2>3. i \in 1..Len(Hosts) /\ Hosts[i] \in HostSet
    <3>1. Len(Hosts) \in Nat /\ Len(Hosts) > 0
      BY ConfigAssumption
    <3>2. NextHost \in 1..Len(Hosts)
      BY <3>1 DEF NextHost, RequestInv
    <3>3. i \in 1..Len(Hosts)
      BY <2>2, <3>2 DEF BestHosts, ActiveHosts
    <3> QED BY <3>3 DEF HostSet
  <2> DEFINE c == [ctx[cur] EXCEPT !.host = Hosts[i], !.proc = None]
  <2>4. c \in Ctx /\ c.host = Hosts[i] /\ c.got_proc = ctx[cur].got_proc /\ c.state = ctx[cur].state
    BY <2>1, <2>3 DEF Ctx
  <2>5. ctx' = [ctx EXCEPT ![cur] = c]
    BY <2>1, <2>2 DEF RequestInv, Ctx
  <2> HIDE DEF c
  <2>6. ~ctx[cur].got_proc /\ ctx[cur].state \notin Settled
    BY <2>1, ConfigAssumption DEF WellAssigned, Settled
  <2>7. WellAssigned(c)
    BY <2>1, <2>4, <2>6 DEF WellAssigned
  <2>8. pload' = pload
    BY <1>2 DEF ChooseHost
  <2>9. \A p \in Procs : pload'[p] = pload[p] + Gets(c, p) - Gets(ctx[cur], p)
    BY <2>4, <2>6, <2>8 DEF Gets, RequestInv
  <2>10. hload' \in [HostSet -> Int]
    BY <2>2, <2>3 DEF RequestInv
  <2>11. \A h \in HostSet : hload'[h] = hload[h] + Loads(c, h) - Loads(ctx[cur], h)
    <3>1. \A h \in HostSet : hload'[h] = IF h = Hosts[i] THEN hload[h] + 1 ELSE hload[h]
      BY <2>2, <2>3 DEF RequestInv
    <3>2. \A h \in HostSet : Loads(ctx[cur], h) = 0 /\ Loads(c, h) = IF h = Hosts[i] THEN 1 ELSE 0
      BY <2>1, <2>4, ConfigAssumption DEF Loads
    <3>3. \A h \in HostSet : hload[h] \in Int
      BY DEF RequestInv
    <3> QED BY <3>1, <3>2, <3>3
  <2>12. LoadsAgree'
    BY <2>1, <2>4, <2>5, <2>9, <2>11, LoadsStep DEF RequestInv
  <2>13. ctx' \in [Reqs -> Ctx] /\ \A q \in Reqs : WellAssigned(ctx'[q])
    BY <2>4, <2>5, <2>7 DEF RequestInv
  <2>14. last_used' \in Nat
    BY <2>2, <2>3, ConfigAssumption
  <2> QED BY <2>8, <2>10, <2>12, <2>13, <2>14 DEF RequestInv, WellAssigned
<1>3. CASE PrepareWrite
  <2>1. cur \in Reqs /\ ctx[cur] \in Ctx /\ WellAssigned(ctx[cur]) /\ ctx[cur].state = "PREPARE_WRITE"
    BY <1>3, InHand DEF PrepareWrite
  <2>2. ~ctx[cur].got_proc /\ ctx[cur].host \in HostSet /\ ctx[cur].proc \in ProcsOf(ctx[cur].host)
    BY <2>1 DEF WellAssigned, Settled
  <2>3. ctx[cur].proc \in Procs
    BY <2>2, ProcsOfType
  <2>4. PICK s \in {"WRITE", "READ"} : ctx' = [ctx EXCEPT ![cur].got_proc = TRUE, ![cur].state = s]
    BY <1>3, Written DEF PrepareWrite
  <2> DEFINE c == [ctx[cur] EXCEPT !.got_proc = TRUE, !.state = s]
  <2>5. /\ c \in Ctx /\ c.host = ctx[cur].host /\ c.proc = ctx[cur].proc
        /\ c.got_proc = TRUE /\ c.state = s
    BY <2>1, <2>4 DEF Ctx, States
  <2>6. ctx' = [ctx EXCEPT ![cur] = c]
    BY <2>1, <2>4 DEF RequestInv, Ctx
  <2> HIDE DEF c
  <2>7. WellAssigned(c)
    BY <2>2, <2>5 DEF WellAssigned
  <2>8. pload' = [pload EXCEPT ![ctx[cur].proc] = @ + 1] /\ hload' = hload /\ last_used' = last_used
    BY <1>3, Written DEF PrepareWrite
  <2>9. \A p \in Procs : pload'[p] = pload[p] + Gets(c, p) - Gets(ctx[cur], p)
    BY <2>2, <2>3, <2>5, <2>8 DEF Gets, RequestInv
  <2>10. \A h \in HostSet : hload'[h] = hload[h] + Loads(c, h) - Loads(ctx[cur], h)
    BY <2>5, <2>8 DEF Loads, RequestInv
  <2>11. LoadsAgree'
    BY <2>1, <2>5, <2>6, <2>9, <2>10, LoadsStep DEF RequestInv
  <2>12. ctx' \in [Reqs -> Ctx] /\ \A q \in Reqs : WellAssigned(ctx'[q])
    BY <2>5, <2>6, <2>7 DEF RequestInv
  <2>13. pload' \in [Procs -> Int]
    BY <2>3, <2>8 DEF RequestInv
  <2> QED BY <2>8, <2>11, <2>12, <2>13 DEF RequestInv, WellAssigned
<1>4. CASE NoRunningProc
  <2>1. cur \in Reqs /\ ctx[cur] \in Ctx /\ WellAssigned(ctx[cur]) /\ ctx[cur].state = "INIT"
    BY <1>4, InHand DEF NoRunningProc
  <2> DEFINE c == [ctx[cur] EXCEPT !.proc = None]
  <2>2. ctx' = [ctx EXCEPT ![cur] = c] /\ UNCHANGED <<pload, hload, last_used>>
    BY <1>4, <2>1 DEF NoRunningProc, RequestInv, Ctx
  <2>3. c \in Ctx /\ c.host = ctx[cur].host /\ c.got_proc = ctx[cur].got_proc /\ c.state = "INIT"
    BY <2>1 DEF Ctx
  <2> HIDE DEF c
  <2>4. WellAssigned(c) /\ ~c.got_proc
    BY <2>1, <2>3 DEF WellAssigned, Settled
  <2> QED BY <2>1, <2>2, <2>3, <2>4, RequestMoves
<1>5. CASE NoDescriptor
  <2>1. /\ cur \in Reqs /\ ctx[cur] \in Ctx /\ WellAssigned(ctx[cur]) /\ ctx[cur].state = "INIT"
    BY <1>5, InHand DEF NoDescriptor
  <2>2. PICK p \in Procs : ctx' = [ctx EXCEPT ![cur].proc = p]
    BY <1>5 DEF NoDescriptor
  <2> DEFINE c == [ctx[cur] EXCEPT !.proc = p]
  <2>3. ctx' = [ctx EXCEPT ![cur] = c] /\ UNCHANGED <<pload, hload, last_used>>
    BY <1>5, <2>1, <2>2 DEF NoDescriptor, RequestInv, Ctx
  <2>4. c \in Ctx /\ c.host = ctx[cur].host /\ c.got_proc = ctx[cur].got_proc /\ c.state = "INIT"
    BY <2>1 DEF Ctx
  <2> HIDE DEF c
  <2>5. WellAssigned(c) /\ ~c.got_proc
    BY <2>1, <2>4 DEF WellAssigned, Settled
  <2> QED BY <2>1, <2>3, <2>4, <2>5, RequestMoves
<1>6. ASSUME NEW p \in Procs, ConnectOk(p)
      PROVE  RequestInv'
  <2> DEFINE c == [ctx[cur] EXCEPT !.proc = p, !.reconnects = 0, !.state = "PREPARE_WRITE"]
  <2>1. StartConnect(p)
    BY <1>6 DEF ConnectOk
  <2>2. /\ cur \in Reqs /\ ctx[cur] \in Ctx /\ ctx[cur].host \in HostSet
        /\ p \in ProcsOf(ctx[cur].host) /\ ~ctx[cur].got_proc
    BY <2>1, Connecting
  <2>3. ctx' = [ctx EXCEPT ![cur] = c] /\ UNCHANGED <<pload, hload, last_used>>
    BY <1>6 DEF ConnectOk, startRest
  <2>c. c \in Ctx
    <3> DEFINE d == [ctx[cur] EXCEPT !.proc = p]
               e == [d EXCEPT !.reconnects = 0]
    <3>1. d \in Ctx
      BY <2>2 DEF Ctx
    <3>2. c = [e EXCEPT !.state = "PREPARE_WRITE"]
      BY <2>2 DEF Ctx
    <3> HIDE DEF c, d
    <3>3. e \in Ctx
      BY <3>1 DEF Ctx
    <3> HIDE DEF e
    <3> QED BY <3>2, <3>3 DEF Ctx, States
  <2>4. c.host = ctx[cur].host /\ c.proc = p /\ c.got_proc = ctx[cur].got_proc /\ c.state = "PREPARE_WRITE"
    BY <2>2 DEF Ctx
  <2> HIDE DEF c
  <2>5. WellAssigned(c)
    BY <2>2, <2>4 DEF WellAssigned, Settled
  <2> QED BY <2>2, <2>3, <2>c, <2>4, <2>5, RequestMoves
<1>7. ASSUME NEW p \in Procs, ConnectDelayed(p)
      PROVE  RequestInv'
  <2> DEFINE c == [ctx[cur] EXCEPT !.proc = p, !.state = "CONNECT_DELAYED"]
  <2>1. StartConnect(p)
    BY <1>7 DEF ConnectDelayed
  <2>2. /\ cur \in Reqs /\ ctx[cur] \in Ctx /\ ctx[cur].host \in HostSet
        /\ p \in ProcsOf(ctx[cur].host) /\ ~ctx[cur].got_proc
    BY <2>1, Connecting
  <2>3. ctx' = [ctx EXCEPT ![cur] = c] /\ UNCHANGED <<pload, hload, last_used>>
    BY <1>7, <2>2 DEF ConnectDelayed, startRest, RequestInv, Ctx
  <2>4. /\ c \in Ctx /\ c.host = ctx[cur].host /\ c.proc = p /\ c.got_proc = ctx[cur].got_proc
        /\ c.state = "CONNECT_DELAYED"
    BY <2>2 DEF Ctx, States
  <2> HIDE DEF c
  <2>5. WellAssigned(c)
    BY <2>2, <2>4 DEF WellAssigned, Settled
  <2> QED BY <2>2, <2>3, <2>4, <2>5, RequestMoves
<1>8. ASSUME NEW p \in Procs, ConnectOverloaded(p) \/ ConnectDead(p)
      PROVE  RequestInv'
  <2> DEFINE c == [ctx[cur] EXCEPT !.proc = p]
  <2>1. StartConnect(p)
    BY <1>8 DEF ConnectOverloaded, ConnectDead
  <2>2. /\ cur \in Reqs /\ ctx[cur] \in Ctx /\ ctx[cur].state = "INIT" /\ ~ctx[cur].got_proc
        /\ p \in Procs
    BY <2>1, Connecting
  <2>3. ctx' = [ctx EXCEPT ![cur] = c] /\ UNCHANGED <<pload, hload, last_used>>
    BY <1>8, <2>2 DEF ConnectOverloaded, ConnectDead, startRest, RequestInv, Ctx
  <2>4. c \in Ctx /\ c.host = ctx[cur].host /\ c.got_proc = ctx[cur].got_proc /\ c.state = "INIT"
    BY <2>2 DEF Ctx
  <2> HIDE DEF c
  <2>5. WellAssigned(c)
    BY <2>2, <2>4 DEF WellAssigned, Settled
  <2> QED BY <2>2, <2>3, <2>4, <2>5, RequestMoves
<1>9. CASE ConnectDone
  <2> DEFINE c == [ctx[cur] EXCEPT !.state = "PREPARE_WRITE"]
  <2>1. cur \in Reqs /\ ctx[cur] \in Ctx /\ WellAssigned(ctx[cur]) /\ ctx[cur].state = "CONNECT_DELAYED"
    BY <1>9, InHand DEF ConnectDone
  <2>2. ctx' = [ctx EXCEPT ![cur] = c] /\ UNCHANGED <<pload, hload, last_used>>
    BY <1>9, <2>1 DEF ConnectDone, RequestInv, Ctx
  <2>3. /\ c \in Ctx /\ c.host = ctx[cur].host /\ c.proc = ctx[cur].proc
        /\ c.got_proc = ctx[cur].got_proc /\ c.state = "PREPARE_WRITE"
    BY <2>1 DEF Ctx, States
  <2> HIDE DEF c
  <2>4. WellAssigned(c)
    BY <2>1, <2>3 DEF WellAssigned, Settled
  <2> QED BY <2>1, <2>2, <2>3, <2>4, RequestMoves
<1>10. CASE WriteMore
  <2>1. cur \in Reqs /\ ctx[cur] \in Ctx /\ WellAssigned(ctx[cur]) /\ ctx[cur].state = "WRITE"
    BY <1>10, InHand DEF WriteMore
  <2>2. PICK s \in {"WRITE", "READ"} : ctx' = [ctx EXCEPT ![cur].got_proc = TRUE, ![cur].state = s]
    BY <1>10, Written DEF WriteMore
  <2> DEFINE c == [ctx[cur] EXCEPT !.got_proc = TRUE, !.state = s]
  <2>3. /\ c \in Ctx /\ c.host = ctx[cur].host /\ c.proc = ctx[cur].proc
        /\ c.got_proc = TRUE /\ c.state = s
    BY <2>1, <2>2 DEF Ctx, States
  <2>4. ctx' = [ctx EXCEPT ![cur] = c]
    BY <2>1, <2>2 DEF RequestInv, Ctx
  <2> HIDE DEF c
  <2>5. ctx[cur].got_proc = TRUE
    BY <2>1 DEF WellAssigned, Ctx
  <2>6. WellAssigned(c)
    BY <2>1, <2>3 DEF WellAssigned, Settled
  <2>7. UNCHANGED <<pload, hload, last_used>>
    BY <1>10, Written DEF WriteMore
  <2> QED BY <2>1, <2>3, <2>4, <2>5, <2>6, <2>7, RequestMoves
<1>11. CASE Retry
  <2> DEFINE c == [ctx[cur] EXCEPT !.state = "INIT", !.host = None, !.reconnects = @ + 1]
  <2>1. /\ cur \in Reqs /\ ctx[cur] \in Ctx /\ WellAssigned(ctx[cur])
        /\ ctx[cur].state \in {"INIT", "CONNECT_DELAYED"} /\ ctx[cur].host \in HostSet
    BY <1>11, InHand DEF Retry, At, Early, LoopInv
  <2>2. ~ctx[cur].got_proc /\ ctx[cur].host # None
    BY <2>1, ConfigAssumption DEF WellAssigned
  <2>3. ctx' = [ctx EXCEPT ![cur] = c] /\ UNCHANGED last_used
    BY <1>11 DEF Retry, fcgi_reconnect
  <2>c. c \in Ctx
    <3> DEFINE d == [ctx[cur] EXCEPT !.state = "INIT", !.host = None]
    <3>1. d \in Ctx /\ d.reconnects \in Int
      BY <2>1 DEF Ctx, States
    <3>2. c = [d EXCEPT !.reconnects = @ + 1]
      BY <2>1 DEF Ctx
    <3> HIDE DEF c, d
    <3> QED BY <3>1, <3>2 DEF Ctx
  <2>4. c.state = "INIT" /\ c.host = None /\ ~c.got_proc
    BY <2>1, <2>2 DEF Ctx
  <2> HIDE DEF c
  <2>5. pload' = IF ctx[cur].got_proc THEN [pload EXCEPT ![ctx[cur].proc] = @ - 1] ELSE pload
    BY <1>11 DEF Retry, fcgi_reconnect
  <2>6. hload' = IF ctx[cur].host # None THEN [hload EXCEPT ![ctx[cur].host] = @ - 1] ELSE hload
    BY <1>11, <2>2 DEF Retry, fcgi_reconnect
  <2> QED BY <2>1, <2>3, <2>c, <2>4, <2>5, <2>6, RequestLeaves
<1>12. CASE AllHostsDown \/ GiveUp
  <2>1. cur \in Reqs
    BY <1>12, InHand DEF AllHostsDown, InSubrequest, GiveUp, At
  <2> QED BY <1>12, <2>1, RequestCloses DEF AllHostsDown, GiveUp
<1>13. CASE Answer
  <2>1. cur \in Reqs
    BY <1>13, InHand DEF Answer, At
  <2>2. CASE fcgi_connection_close(cur)
    BY <1>13, <2>1, <2>2, RequestCloses DEF Answer
  <2>3. CASE UNCHANGED <<pload, hload, ctx>>
    BY <1>13, <2>3, RequestsKept DEF Answer
  <2> QED BY <1>13, <2>2, <2>3 DEF Answer
<1>14. ASSUME NEW r \in Reqs, AnswerEnds(r) \/ AnswerBreaks(r)
       PROVE  RequestInv'
  BY <1>14, RequestCloses DEF AnswerEnds, AnswerBreaks, eventRest
<1>15. CASE fcgi_check_extension
  <2>1. cur \in Reqs /\ ctx[cur] \in Ctx /\ WellAssigned(ctx[cur]) /\ ctx[cur].state = "none"
    BY <1>15, InHand DEF fcgi_check_extension, At, ConInv
  <2>2. CASE ctx' = ctx
    BY <1>15, <2>2, RequestsKept DEF fcgi_check_extension
  <2>3. CASE ctx' = [ctx EXCEPT ![cur].state = "INIT"]
    <3> DEFINE c == [ctx[cur] EXCEPT !.state = "INIT"]
    <3>1. ctx' = [ctx EXCEPT ![cur] = c]
      BY <2>1, <2>3 DEF RequestInv, Ctx
    <3>2. c \in Ctx /\ c.host = ctx[cur].host /\ c.got_proc = ctx[cur].got_proc /\ c.state = "INIT"
      BY <2>1 DEF Ctx, States
    <3> HIDE DEF c
    <3>3. WellAssigned(c) /\ ~c.got_proc
      BY <2>1, <3>2 DEF WellAssigned, Settled
    <3> QED BY <1>15, <2>1, <3>1, <3>2, <3>3, RequestMoves DEF fcgi_check_extension
  <2> QED BY <1>15, <2>2, <2>3 DEF fcgi_check_extension
<1>16. CASE Trigger \/ SameSecond \/ FdWait \/ Poll \/ EventsEnd \/ Jobs
  BY <1>16, RequestsKept DEF Trigger, SameSecond, FdWait, Poll, EventsEnd, Jobs, loopRest, reqVars
<1>17. CASE Restarted \/ Failed \/ AwaitAnswer
  BY <1>17, RequestsKept DEF Restarted, Failed, AwaitAnswer, reqVars
<1>18. CASE ConnectFailed
  BY <1>18, RequestsKept DEF ConnectFailed, reqVars
<1>19. ASSUME NEW p \in Procs, LeaveProc(p) \/ Reenable(p) \/ Respawn(p) \/ RespawnFails(p)
       PROVE  RequestInv'
  BY <1>19, RequestsKept DEF LeaveProc, Reenable, Respawn, RespawnFails, restartRest, reqVars
<1>20. ASSUME NEW r \in Reqs, WriteEvent(r) \/ AnswerStarts(r)
       PROVE  RequestInv'
  BY <1>20, RequestsKept DEF WriteEvent, AnswerStarts, reqVars, eventRest
<1>21. CASE Environment
  <2>1. UNCHANGED <<ctx, pload, hload, last_used>>
    BY <1>21 DEF Environment, RequestArrives, ClientGone, ConnectCompletes, BackendActs, SockChanges,
                 ProcDies, otherRest
  <2> QED BY <2>1, RequestsKept
<1> QED BY <1>1, <1>2, <1>3, <1>4, <1>5, <1>6, <1>7, <1>8, <1>9, <1>10, <1>11, <1>12, <1>13, <1>14,
           <1>15, <1>16, <1>17, <1>18, <1>19, <1>20, <1>21
        DEF Next, Server, mod_fastcgi_handle_subrequest, fcgi_handle_fdevent

-----------------------------------------------------------------------------
(* Connections.  A step changes con and ctx of one request at most.          *)

LEMMA ConMoves ==
  ASSUME ConInv, NEW r \in Reqs, \A q \in Reqs : q # r => con'[q] = con[q] /\ ctx'[q] = ctx[q],
         con' \in [Reqs -> {"idle", "new", "handle", "started", "error"}],
         con'[r] \in {"idle", "new"} => ctx'[r].state = "none"
  PROVE  ConInv'
BY DEF ConInv

LEMMA ConStep ==
  ASSUME Inv, [Next]_vars
  PROVE  ConInv'
<1> USE DEF Inv
<1>1. ASSUME UNCHANGED <<con, ctx>>
      PROVE  ConInv'
  BY <1>1 DEF ConInv
<1>2. ASSUME InSubrequest, UNCHANGED con, \A q \in Reqs : q # cur => ctx'[q] = ctx[q]
      PROVE  ConInv'
  <2>1. cur \in Reqs /\ con[cur] = "handle"
    BY <1>2, InHand DEF InSubrequest, At
  <2> QED BY <1>2, <2>1, ConMoves DEF ConInv
<1>3. ASSUME NEW r \in Reqs, fcgi_connection_close(r), NEW s \in {"idle", "handle", "error"},
             con' = con \/ con' = [con EXCEPT ![r] = s]
      PROVE  ConInv'
  <2>1. ctx' = [ctx EXCEPT ![r] = NoCtx] /\ NoCtx.state = "none"
    BY <1>3 DEF fcgi_connection_close, NoCtx
  <2>2. \A q \in Reqs : q # r => con'[q] = con[q] /\ ctx'[q] = ctx[q]
    BY <1>3, <2>1 DEF ConInv, RequestInv
  <2>3. ctx'[r].state = "none"
    BY <2>1 DEF RequestInv
  <2> QED BY <1>3, <2>2, <2>3, ConMoves DEF ConInv
<1>4. CASE UNCHANGED vars
  BY <1>1, <1>4 DEF vars, reqVars
<1>5. CASE ChooseHost
  BY <1>2, <1>5 DEF ChooseHost, RequestInv
<1>6. CASE NoRunningProc \/ NoDescriptor \/ ConnectDone
  BY <1>2, <1>6 DEF NoRunningProc, NoDescriptor, ConnectDone, Assigned, RequestInv
<1>w. CASE PrepareWrite \/ WriteMore
  <2>1. InSubrequest /\ network_backend_write
    BY <1>w DEF PrepareWrite, WriteMore, Assigned
  <2>2. \A q \in Reqs : q # cur => ctx'[q] = ctx[q]
    BY <2>1, Written DEF RequestInv
  <2> QED BY <1>2, <2>1, <2>2, Written
<1>7. ASSUME NEW p \in Procs, ConnectOk(p) \/ ConnectDelayed(p) \/ ConnectOverloaded(p) \/ ConnectDead(p)
      PROVE  ConInv'
  BY <1>2, <1>7 DEF ConnectOk, ConnectDelayed, ConnectOverloaded, ConnectDead, StartConnect, Assigned,
                    startRest, RequestInv
<1>8. CASE AllHostsDown \/ GiveUp
  <2>1. cur \in Reqs
    BY <1>8, InHand DEF AllHostsDown, InSubrequest, GiveUp, At
  <2> QED BY <1>3, <1>8, <2>1 DEF AllHostsDown, GiveUp
<1>9. CASE Answer
  <2>1. cur \in Reqs
    BY <1>9, InHand DEF Answer, At
  <2>2. CASE UNCHANGED <<con, ctx>>
    BY <1>1, <2>2
  <2>3. CASE fcgi_connection_close(cur) /\ con' = [con EXCEPT ![cur] = "idle"]
    BY <1>3, <2>1, <2>3
  <2> QED BY <1>9, <2>2, <2>3 DEF Answer
<1>10. ASSUME NEW r \in Reqs, AnswerEnds(r) \/ AnswerBreaks(r)
       PROVE  ConInv'
  BY <1>3, <1>10 DEF AnswerEnds, AnswerBreaks
<1>11. CASE AwaitAnswer
  <2>1. cur \in Reqs /\ con[cur] = "handle" /\ ctx' = ctx
    BY <1>11, InHand DEF AwaitAnswer, Assigned, InSubrequest, At
  <2> QED BY <1>11, <2>1 DEF AwaitAnswer, ConInv
<1>12. CASE Retry
  <2>1. cur \in Reqs /\ ctx[cur].state # "none" /\ con' = con
    BY <1>12, InHand DEF Retry, At, Early
  <2>2. con[cur] \notin {"idle", "new"}
    BY <2>1 DEF ConInv
  <2>3. \A q \in Reqs : q # cur => ctx'[q] = ctx[q]
    BY <1>12 DEF Retry, fcgi_reconnect, RequestInv
  <2> QED BY <2>1, <2>2, <2>3, ConMoves DEF ConInv
<1>13. CASE fcgi_check_extension
  <2>1. cur \in Reqs /\ ctx[cur].state = "none"
    BY <1>13, InHand DEF fcgi_check_extension, At, ConInv
  <2>2. CASE con' = [con EXCEPT ![cur] = "idle"] /\ UNCHANGED ctx
    BY <2>1, <2>2 DEF ConInv
  <2>3. CASE con' = [con EXCEPT ![cur] = "handle"] /\ ctx' = [ctx EXCEPT ![cur].state = "INIT"]
    BY <2>1, <2>3, ConMoves DEF ConInv, RequestInv
  <2> QED BY <1>13, <2>2, <2>3 DEF fcgi_check_extension
<1>14. CASE Trigger \/ SameSecond \/ FdWait \/ Poll \/ EventsEnd \/ Jobs
  BY <1>1, <1>14 DEF Trigger, SameSecond, FdWait, Poll, EventsEnd, Jobs, loopRest, reqVars
<1>15. CASE Restarted \/ Failed \/ ConnectFailed
  BY <1>1, <1>15 DEF Restarted, Failed, ConnectFailed, reqVars
<1>16. ASSUME NEW p \in Procs, LeaveProc(p) \/ Reenable(p) \/ Respawn(p) \/ RespawnFails(p)
       PROVE  ConInv'
  BY <1>1, <1>16 DEF LeaveProc, Reenable, Respawn, RespawnFails, restartRest, reqVars
<1>17. ASSUME NEW r \in Reqs, WriteEvent(r) \/ AnswerStarts(r)
       PROVE  ConInv'
  BY <1>1, <1>17 DEF WriteEvent, AnswerStarts, reqVars
<1>18. ASSUME NEW r \in Reqs, RequestArrives(r) \/ ClientGone(r)
       PROVE  ConInv'
  BY <1>18 DEF RequestArrives, ClientGone, otherRest, ConInv
<1>19. ASSUME NEW r \in Reqs, ConnectCompletes(r) \/ BackendActs(r)
       PROVE  ConInv'
  BY <1>1, <1>19 DEF ConnectCompletes, BackendActs, SockChanges, otherRest
<1>20. ASSUME NEW p \in Procs, ProcDies(p)
       PROVE  ConInv'
  BY <1>1, <1>20 DEF ProcDies, otherRest
<1> QED BY <1>4, <1>5, <1>6, <1>w, <1>7, <1>8, <1>9, <1>10, <1>11, <1>12, <1>13, <1>14,
           <1>15, <1>16, <1>17, <1>18, <1>19, <1>20
        DEF Next, Server, Environment, mod_fastcgi_handle_subrequest, fcgi_handle_fdevent

-----------------------------------------------------------------------------
(* The loop.                                                                 *)

LEMMA LoopStep ==
  ASSUME Inv, [Next]_vars
  PROVE  LoopInv'
<1> USE DEF Inv
<1>1. CASE UNCHANGED vars
  BY <1>1 DEF vars, loopVars, reqVars, LoopInv
(* The handler's request is no longer in hand.                               *)
<1>2. ASSUME Return, joblist' \in Seq(Reqs), fdwaitqueue' \in Seq(Reqs), events' \subseteq Reqs
      PROVE  LoopInv'
  BY <1>2 DEF Return, LoopInv
(* It is, and its host stays.                                                *)
<1>3. ASSUME UNCHANGED <<cur, joblist, fdwaitqueue, events>>,
             cur # None => pc' = "machine" \/ (pc' \in {"failed", "restart", "retry"} /\ ctx'[cur].host \in HostSet)
      PROVE  LoopInv'
  BY <1>3 DEF LoopInv
<1>4. cur # None => cur \in Reqs
  BY InHand
<1>5. CASE Trigger \/ SameSecond \/ EventsEnd
  BY <1>5 DEF Trigger, SameSecond, EventsEnd, loopRest, loopVars, LoopInv
<1>6. CASE FdWait
  <2>1. Head(fdwaitqueue) \in Reqs \/ fdwaitqueue = <<>>
    BY DEF LoopInv
  <2> QED BY <1>6, <2>1 DEF FdWait, loopRest, LoopInv
<1>7. CASE Poll
  BY <1>7 DEF Poll, loopRest, LoopInv
<1>8. CASE Jobs
  <2>1. Head(joblist) \in Reqs \/ joblist = <<>>
    BY DEF LoopInv
  <2> QED BY <1>8, <2>1 DEF Jobs, LoopInv
<1>9. CASE fcgi_check_extension
  <2>1. pc = "machine" /\ UNCHANGED <<joblist, fdwaitqueue, events>>
    BY <1>9 DEF fcgi_check_extension, At, handlerRest
  <2> QED BY <1>2, <1>3, <1>9, <2>1 DEF fcgi_check_extension, LoopInv
<1>10. CASE Answer \/ AllHostsDown \/ NoDescriptor \/ AwaitAnswer
  <2>1. Return /\ UNCHANGED <<joblist, events>>
    BY <1>10 DEF Answer, AllHostsDown, NoDescriptor, AwaitAnswer, handlerRest
  <2>2. fdwaitqueue' \in Seq(Reqs)
    BY <1>4, <1>10 DEF Answer, AllHostsDown, NoDescriptor, AwaitAnswer, Assigned, InSubrequest, At, LoopInv
  <2> QED BY <1>2, <2>1, <2>2 DEF LoopInv
<1>11. CASE Retry \/ GiveUp
  <2>1. Return /\ events' = events /\ cur \in Reqs
    BY <1>4, <1>11 DEF Retry, GiveUp, At, handlerRest
  <2>2. fdwaitqueue' \in Seq(Reqs) /\ joblist' \in Seq(Reqs)
    <3>1. Append(joblist, cur) \in Seq(Reqs) /\ Append(fdwaitqueue, cur) \in Seq(Reqs)
      BY <2>1 DEF LoopInv
    <3>2. joblist' = Append(joblist, cur) /\ fdwaitqueue' \in {fdwaitqueue, Append(fdwaitqueue, cur)}
      BY <1>11 DEF Retry, GiveUp
    <3> QED BY <3>1, <3>2 DEF LoopInv
  <2> QED BY <1>2, <2>1, <2>2 DEF LoopInv
<1>12. CASE ChooseHost \/ ConnectDone
  <2>1. pc' = "machine" /\ UNCHANGED <<cur, joblist, fdwaitqueue, events>>
    BY <1>12 DEF ChooseHost, ConnectDone, Assigned, InSubrequest, At, handlerRest
  <2> QED BY <1>3, <2>1
<1>13. CASE NoRunningProc
  <2>1. Assigned /\ pc' = "failed" /\ UNCHANGED <<cur, joblist, fdwaitqueue, events>>
    BY <1>13 DEF NoRunningProc, handlerRest
  <2>2. cur \in Reqs /\ ctx[cur].host \in HostSet
    BY <2>1, InHand
  <2>3. ctx'[cur].host = ctx[cur].host
    BY <1>13, <2>2 DEF NoRunningProc, RequestInv, Ctx
  <2> QED BY <1>3, <2>1, <2>2, <2>3
<1>14. CASE PrepareWrite \/ WriteMore
  <2>1. Assigned /\ UNCHANGED <<joblist, fdwaitqueue, events>> /\ (Return \/ (pc' = "retry" /\ cur' = cur))
    BY <1>14, Written DEF PrepareWrite, WriteMore
  <2>2. cur \in Reqs /\ ctx[cur].host \in HostSet
    BY <2>1, InHand
  <2>3. ctx'[cur].host = ctx[cur].host
    <3>1. \E s \in {"WRITE", "READ"} : ctx' = [ctx EXCEPT ![cur].got_proc = TRUE, ![cur].state = s]
      BY <1>14, Written DEF PrepareWrite, WriteMore
    <3> QED BY <2>2, <3>1 DEF RequestInv, Ctx
  <2> QED BY <1>2, <1>3, <2>1, <2>2, <2>3 DEF LoopInv
<1>15. CASE ConnectFailed
  <2>1. Assigned /\ pc' = "failed" /\ UNCHANGED <<cur, joblist, fdwaitqueue, events, ctx>>
    BY <1>15 DEF ConnectFailed, loopVars, reqVars
  <2> QED BY <1>3, <2>1, InHand
<1>16. ASSUME NEW p \in Procs, ConnectOk(p)
       PROVE  LoopInv'
  <2>1. pc' = "machine" /\ UNCHANGED <<cur, joblist, fdwaitqueue, events>>
    BY <1>16 DEF ConnectOk, StartConnect, Assigned, InSubrequest, At, startRest
  <2> QED BY <1>3, <2>1
<1>17. ASSUME NEW p \in Procs, ConnectDelayed(p)
       PROVE  LoopInv'
  <2>1. Return /\ UNCHANGED <<joblist, fdwaitqueue, events>>
    BY <1>17 DEF ConnectDelayed, startRest
  <2> QED BY <1>2, <2>1 DEF LoopInv
<1>18. ASSUME NEW p \in Procs, ConnectOverloaded(p) \/ ConnectDead(p)
       PROVE  LoopInv'
  <2>1. StartConnect(p) /\ pc' = "failed" /\ UNCHANGED <<cur, joblist, fdwaitqueue, events>>
    BY <1>18 DEF ConnectOverloaded, ConnectDead, startRest
  <2>2. cur \in Reqs /\ ctx[cur].host \in HostSet
    BY <2>1, Connecting
  <2>3. ctx'[cur].host = ctx[cur].host
    BY <1>18, <2>2 DEF ConnectOverloaded, ConnectDead, RequestInv, Ctx
  <2> QED BY <1>3, <2>1, <2>2, <2>3
<1>19. CASE Failed
  <2>1. cur # None /\ pc # "machine" /\ pc' = "restart"
        /\ UNCHANGED <<cur, joblist, fdwaitqueue, events, ctx>>
    BY <1>19 DEF Failed, At, reqVars
  <2> QED BY <1>3, <2>1 DEF LoopInv
<1>20. CASE Restarted
  <2>1. pc = "restart" /\ UNCHANGED <<cur, joblist, fdwaitqueue, events, ctx>>
        /\ (cur # None => pc' = "retry")
    BY <1>20 DEF Restarted, reqVars
  <2> QED BY <1>3, <2>1 DEF LoopInv
<1>21. ASSUME NEW p \in Procs, LeaveProc(p) \/ Reenable(p) \/ Respawn(p) \/ RespawnFails(p)
       PROVE  LoopInv'
  <2>1. UNCHANGED <<pc, cur, joblist, fdwaitqueue, events, ctx>>
    BY <1>21 DEF LeaveProc, Reenable, Respawn, RespawnFails, restartRest, reqVars
  <2> QED BY <2>1 DEF LoopInv
<1>22. ASSUME NEW r \in Reqs, WriteEvent(r)
       PROVE  LoopInv'
  BY <1>22 DEF WriteEvent, EventOf, eventRest, LoopInv
<1>23. ASSUME NEW r \in Reqs, AnswerStarts(r) \/ AnswerEnds(r) \/ AnswerBreaks(r)
       PROVE  LoopInv'
  <2>1. pc = "events" /\ UNCHANGED <<pc, cur, fdwaitqueue>> /\ events' \subseteq events
    BY <1>23 DEF AnswerStarts, AnswerEnds, AnswerBreaks, EventOf, eventRest
  <2>2. joblist' \in Seq(Reqs)
    BY <1>23 DEF AnswerStarts, AnswerEnds, AnswerBreaks, LoopInv
  <2> QED BY <2>1, <2>2 DEF LoopInv
<1>24. ASSUME NEW r \in Reqs, RequestArrives(r) \/ ClientGone(r) \/ ConnectCompletes(r) \/ BackendActs(r)
       PROVE  LoopInv'
  <2>1. pc = "poll" /\ UNCHANGED <<pc, cur, fdwaitqueue, events>>
    BY <1>24 DEF RequestArrives, ClientGone, ConnectCompletes, BackendActs, SockChanges, otherRest
  <2>2. joblist' \in Seq(Reqs)
    <3>1. joblist \in Seq(Reqs) /\ Append(joblist, r) \in Seq(Reqs)
      BY DEF LoopInv
    <3>2. joblist' \in {joblist, Append(joblist, r)}
      BY <1>24 DEF RequestArrives, ClientGone, ConnectCompletes, BackendActs, SockChanges
    <3> QED BY <3>1, <3>2
  <2> QED BY <2>1, <2>2 DEF LoopInv
<1>25. ASSUME NEW p \in Procs, ProcDies(p)
       PROVE  LoopInv'
  BY <1>25 DEF ProcDies, otherRest, LoopInv
<1> QED BY <1>1, <1>5, <1>6, <1>7, <1>8, <1>9, <1>10, <1>11, <1>12, <1>13, <1>14, <1>15, <1>16,
           <1>17, <1>18, <1>19, <1>20, <1>21, <1>22, <1>23, <1>24, <1>25
        DEF Next, Server, Environment, mod_fastcgi_handle_subrequest, fcgi_handle_fdevent

-----------------------------------------------------------------------------
LEMMA InitInv == Init => Inv
<1> SUFFICES ASSUME Init PROVE Inv
  OBVIOUS
<1>1. LoopInv /\ ConInv
  BY DEF Init, LoopInv, ConInv, NoCtx
<1>2. RequestInv
  <2>1. NoCtx \in Ctx /\ WellAssigned(NoCtx) /\ ~NoCtx.got_proc /\ NoCtx.host = None
    BY DEF NoCtx, Ctx, States, WellAssigned, Settled
  <2>2. Len(Hosts) \in Nat /\ None \notin HostSet
    BY ConfigAssumption
  <2>3. \A p \in Procs : {r \in Reqs : ctx[r].got_proc /\ ctx[r].proc = p} = {}
    BY <2>1 DEF Init
  <2>4. \A h \in HostSet : {r \in Reqs : ctx[r].host = h} = {}
    BY <2>1, <2>2 DEF Init
  <2>5. LoadsAgree
    BY <2>3, <2>4, FS_EmptySet DEF Init, LoadsAgree
  <2> QED BY <2>1, <2>2, <2>5 DEF Init, RequestInv
<1>3. ProcInv
  <2>1. \A h \in HostSet : Running(h) = ProcsOf(h)
    BY ProcsOfType DEF Init, Running
  <2>2. \A h \in HostSet : Cardinality(ProcsOf(h)) \in Nat
    BY ProcsOfType, FS_CardinalityType
  <2>3. ActiveProcsExplained
    BY <2>1, <2>2 DEF Init, ActiveProcsExplained
  <2> QED BY <2>2, <2>3 DEF Init, ProcInv, ProcStates
<1> QED BY <1>1, <1>2, <1>3 DEF Inv

LEMMA InvHolds == Spec => []Inv
<1>1. Inv /\ [Next]_vars => Inv'
  BY LoopStep, RequestStep, ConStep, ProcStep DEF Inv
<1> QED BY InitInv, <1>1, PTL DEF Spec

(* load of a process and of a host is the number of requests assigned to it, *)
(* for any number of hosts, processes, requests and reconnects.              *)
THEOREM LoadsCount == Spec => []LoadsAgree
<1>1. Inv => LoadsAgree
  BY DEF Inv, RequestInv
<1> QED BY InvHolds, <1>1, PTL

(* active_procs of a host is the number of its running processes and of      *)
(* those replaced while they still counted, however often processes fail,    *)
(* are overloaded, die, are enabled again and restarted.                     *)
THEOREM ActiveProcsCount == Spec => []ActiveProcsExplained
<1>1. Inv => ActiveProcsExplained
  BY DEF Inv, ProcInv
<1> QED BY InvHolds, <1>1, PTL
=============================================================================
