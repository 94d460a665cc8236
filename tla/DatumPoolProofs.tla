--------------------------- MODULE DatumPoolProofs ---------------------------
(***************************************************************************)
(* DatumServer: the coinbase is the template's, calls keep their client,   *)
(* every connection has one loop, and the methods of the pool are executed *)
(* as if one at a time, whoever waits for the pool's lock.                 *)
(***************************************************************************)
EXTENDS DatumServerProofs, PoolHistory, FiniteSetTheorems

(***************************************************************************)
(* What makes CoinbaseOfTemplate inductive: a lock has readers or one      *)
(* writer, a call keeps its guard, and an unfailed connection owes a fetch *)
(* only to its caller.                                                     *)
(***************************************************************************)
LockExclusive ==
  \A l \in Lock : \/ writer[l] = {}
                  \/ readers[l] = {} /\ \E t \in Task : writer[l] = {t}

GuardsHeld ==
  \A t \in Worker : /\ pc[t] \in {"fetch", "dial"} => Writes(t, "pool")
                    /\ pc[t] = "submitting" => Reads(t, "pool")

NoFetch(s) == \A i \in 1 .. Len(s) : s[i] = Pow

OneFetch(s, n) ==
  \A i \in 1 .. Len(s) : s[i] # Pow =>
    s[i] = n /\ \A j \in 1 .. Len(s) : s[j] # Pow => j = i

OwedAt(c) ==
  ~failed[c] =>
    \/ NoFetch(owed[c])
    \/ /\ OneFetch(owed[c], template)
       /\ \E t \in Worker : pc[t] = "fetch" /\ using[t] = c

PoolInv == /\ LockExclusive /\ GuardsHeld /\ CoinbaseOfTemplate
           /\ \A c \in Client : OwedAt(c)

\* What ClientKept needs besides: nothing is called before new returns.
IdleBeforeNew == pc["main"] = "new" => \A t \in Worker : pc[t] = "idle"

(***************************************************************************)
(* What makes LoopPerClient inductive: nothing is reconnected before the   *)
(* module is ready, and a connection has either a loop or one task that is *)
(* about to spawn it.                                                      *)
(***************************************************************************)
QuietBeforeReady ==
  /\ pc["main"] = "new" => \A c \in Client : conn[c] = "none"
  /\ ~Ready => \A t \in Worker : pc[t] \notin {"reconnect", "dial", "spawn"}

LoopAt(c) ==
  /\ spawned[c] \in {0, 1}
  /\ Spawning(c) # {} => spawned[c] = 0
  /\ \A t, u \in Spawning(c) : t = u
  /\ conn[c] = "none" => spawned[c] = 0 /\ Spawning(c) = {} /\ client # c
  /\ conn[c] # "none" /\ Ready => spawned[c] = 1 \/ Spawning(c) # {}
  /\ ~Ready => spawned[c] = 0 /\ (conn[c] # "none" => client = c)

LoopInv == QuietBeforeReady /\ \A c \in Client : LoopAt(c)

\* No task but t has a part in what it does to the locks.
LEMMA Excluded ==
  ASSUME LockExclusive, NEW t, ReleaseAll(t) PROVE LockExclusive'
<1> SUFFICES ASSUME NEW l \in Lock
             PROVE  \/ writer'[l] = {}
                    \/ readers'[l] = {} /\ \E u \in Task : writer'[l] = {u}
  BY Zenon DEF LockExclusive
<1>1. readers'[l] = readers[l] \ {t} /\ writer'[l] = writer[l] \ {t}
  BY Zenon DEF ReleaseAll
<1>2. CASE writer[l] = {}
  BY <1>1, <1>2, Zenon
<1>3. CASE readers[l] = {} /\ \E u \in Task : writer[l] = {u}
  BY <1>1, <1>3, SMT
<1> QED BY <1>2, <1>3, Zenon DEF LockExclusive

LEMMA Granted ==
  ASSUME TypeOK, LockExclusive, NEW l \in Lock, Grant(l)
  PROVE  /\ LockExclusive'
         /\ \A k \in Lock : readers[k] \subseteq readers'[k]
                           /\ writer[k] \subseteq writer'[k]
<1>1. /\ waiting[l] \in Seq(Waiter) /\ waiting[l] # <<>> /\ writer[l] = {}
      /\ readers \in [Lock -> SUBSET Task] /\ writer \in [Lock -> SUBSET Task]
  BY Zenon DEF TypeOK, Grant
<1> DEFINE r == Head(waiting[l])
<1>2. r \in Waiter
  BY <1>1, HeadTail, Zenon
<1>3. r.task \in Task
  BY <1>2, SMT DEF Waiter
<1>4. \/ /\ readers' = [readers EXCEPT ![l] = readers[l] \cup {r.task}]
         /\ writer' = writer
      \/ /\ readers[l] = {} /\ readers' = readers
         /\ writer' = [writer EXCEPT ![l] = {r.task}]
  BY Zenon DEF Grant
<1> HIDE DEF r
<1>5. ASSUME NEW k \in Lock
      PROVE  /\ readers[k] \subseteq readers'[k] /\ writer[k] \subseteq writer'[k]
             /\ \/ writer'[k] = {}
                \/ readers'[k] = {} /\ \E u \in Task : writer'[k] = {u}
  <2>1. CASE k = l
    <3>1. \/ readers'[l] = readers[l] \cup {r.task} /\ writer'[l] = {}
          \/ readers'[l] = {} /\ writer'[l] = {r.task} /\ readers[l] = {}
      BY <1>1, <1>4, SMT
    <3> QED BY <3>1, <1>1, <1>3, <2>1, Zenon
  <2>2. CASE k # l
    <3>1. readers'[k] = readers[k] /\ writer'[k] = writer[k]
      BY <1>1, <1>4, <2>2, SMT
    <3> QED BY <3>1, Zenon DEF LockExclusive
  <2> QED BY <2>1, <2>2
<1> QED BY <1>5, Zenon DEF LockExclusive

\* A step of t that leaves its guards alone or drops them, and does not start
\* a call or a dial.
LEMMA GuardsStay ==
  ASSUME TypeOK, GuardsHeld, NEW t \in Task, NEW label, Goto(t, label),
         label \notin {"fetch", "dial", "submitting"},
         UNCHANGED <<readers, writer>> \/ ReleaseAll(t)
  PROVE  GuardsHeld'
<1>1. pc \in [Task -> Pc \cup MainPc] /\ "pool" \in Lock
  BY Zenon DEF TypeOK, Lock
<1> SUFFICES ASSUME NEW u \in Worker
             PROVE  /\ pc'[u] \in {"fetch", "dial"} => u \in writer'["pool"]
                    /\ pc'[u] = "submitting" => u \in readers'["pool"]
  BY Zenon DEF GuardsHeld, Writes, Reads
<1>2. u \in Task
  BY Zenon DEF Task
<1>3. CASE u = t
  <2>1. pc'[u] = label
    BY <1>1, <1>2, <1>3, Zenon DEF Goto
  <2> QED BY <2>1, Zenon
<1>4. CASE u # t
  <2>1. pc'[u] = pc[u]
    BY <1>1, <1>2, <1>4, Zenon DEF Goto
  <2>2. \/ readers' = readers /\ writer' = writer
        \/ /\ readers'["pool"] = readers["pool"] \ {t}
           /\ writer'["pool"] = writer["pool"] \ {t}
    BY <1>1, Zenon DEF ReleaseAll
  <2>3. /\ pc[u] \in {"fetch", "dial"} => u \in writer["pool"]
        /\ pc[u] = "submitting" => u \in readers["pool"]
    BY Zenon DEF GuardsHeld, Writes, Reads
  <2> QED BY <1>4, <2>1, <2>2, <2>3, SMT
<1> QED BY <1>3, <1>4

\* A step of t that goes on with the guard it needs.
LEMMA GuardsTaken ==
  ASSUME TypeOK, GuardsHeld, NEW t \in Worker, NEW label, Goto(t, label),
         UNCHANGED <<readers, writer>>,
         \/ label \in {"fetch", "dial"} /\ Writes(t, "pool")
         \/ label = "submitting" /\ Reads(t, "pool")
  PROVE  GuardsHeld'
<1>1. pc \in [Task -> Pc \cup MainPc] /\ t \in Task
  BY Zenon DEF TypeOK, Task
<1> SUFFICES ASSUME NEW u \in Worker
             PROVE  /\ pc'[u] \in {"fetch", "dial"} => u \in writer["pool"]
                    /\ pc'[u] = "submitting" => u \in readers["pool"]
  BY Zenon DEF GuardsHeld, Writes, Reads
<1>2. u \in Task
  BY Zenon DEF Task
<1>3. pc'[u] = IF u = t THEN label ELSE pc[u]
  BY <1>1, <1>2, Zenon DEF Goto
<1> QED BY <1>3, SMT DEF GuardsHeld, Writes, Reads

LEMMA LockNext ==
  ASSUME TypeOK, LockExclusive, GuardsHeld, [Next]_vars
  PROVE  LockExclusive' /\ GuardsHeld'
<1> USE DEF lockVars, poolVars, clientVars, taskVars
<1>task. /\ "main" \in Task /\ \A t \in Worker : t \in Task
  BY Zenon DEF Task
<1>still. ASSUME UNCHANGED <<readers, writer>> PROVE LockExclusive'
  BY <1>still, Zenon DEF LockExclusive
<1>quiet. ASSUME UNCHANGED <<readers, writer, pc>> PROVE GuardsHeld'
  BY <1>quiet, Zenon DEF GuardsHeld, Reads, Writes
<1>1. CASE NewSolo
  <2>1. UNCHANGED <<readers, writer>> /\ Goto("main", "start")
    BY <1>1, Zenon DEF NewSolo
  <2> QED BY <2>1, <1>task, <1>still, GuardsStay, SMT
<1>2. CASE NewFails
  <2>1. UNCHANGED <<readers, writer>> /\ Goto("main", "failed")
    BY <1>2, Zenon DEF NewFails
  <2> QED BY <2>1, <1>task, <1>still, GuardsStay, SMT
<1>3. CASE Start
  <2>1. UNCHANGED <<readers, writer>> /\ Goto("main", "startRunning")
    BY <1>3, Zenon DEF Start
  <2> QED BY <2>1, <1>task, <1>still, GuardsStay, SMT
<1>4. CASE StartRunning
  <2>1. UNCHANGED <<readers, writer>> /\ Goto("main", "startPool")
    BY <1>4, Zenon DEF StartRunning
  <2> QED BY <2>1, <1>task, <1>still, GuardsStay, SMT
<1>5. CASE StartLoop
  <2>1. ReleaseAll("main") /\ Goto("main", "ready")
    BY <1>5, Zenon DEF StartLoop
  <2> QED BY <2>1, <1>task, Excluded, GuardsStay, SMT
<1>6. ASSUME NEW c \in Client, NewConnects(c)
      PROVE  LockExclusive' /\ GuardsHeld'
  <2>1. UNCHANGED <<readers, writer>> /\ Goto("main", "start")
    BY <1>6, Zenon DEF NewConnects
  <2> QED BY <2>1, <1>task, <1>still, GuardsStay, SMT
<1>7. ASSUME NEW t \in Worker, HandleTemplateEvent(t)
       PROVE LockExclusive' /\ GuardsHeld'
  <2>1. UNCHANGED <<readers, writer>> /\ Goto(t, "generate")
    BY <1>7, Zenon DEF HandleTemplateEvent
  <2> QED BY <2>1, <1>task, <1>still, GuardsStay, SMT
<1>8. ASSUME NEW t \in Worker, Submit(t) PROVE LockExclusive' /\ GuardsHeld'
  <2>1. UNCHANGED <<readers, writer>> /\ Goto(t, "submit")
    BY <1>8, Zenon DEF Submit
  <2> QED BY <2>1, <1>task, <1>still, GuardsStay, SMT
<1>9. ASSUME NEW t \in Worker, Look(t) PROVE LockExclusive' /\ GuardsHeld'
  <2>1. UNCHANGED <<readers, writer>> /\ Goto(t, "look")
    BY <1>9, Zenon DEF Look
  <2> QED BY <2>1, <1>task, <1>still, GuardsStay, SMT
<1>10. ASSUME NEW t \in Worker, Status(t) PROVE LockExclusive' /\ GuardsHeld'
  <2>1. UNCHANGED <<readers, writer>> /\ Goto(t, "status")
    BY <1>10, Zenon DEF Status
  <2> QED BY <2>1, <1>task, <1>still, GuardsStay, SMT
<1>11. ASSUME NEW t \in Worker, Reconnect(t) PROVE LockExclusive' /\ GuardsHeld'
  <2>1. UNCHANGED <<readers, writer>> /\ Goto(t, "reconnect")
    BY <1>11, Zenon DEF Reconnect
  <2> QED BY <2>1, <1>task, <1>still, GuardsStay, SMT
<1>12. ASSUME NEW t \in Worker, GenerateTemplate(t) PROVE LockExclusive' /\ GuardsHeld'
  <2>1. UNCHANGED <<readers, writer>> /\ Goto(t, "generated")
    BY <1>12, Zenon DEF GenerateTemplate
  <2> QED BY <2>1, <1>task, <1>still, GuardsStay, SMT
<1>update. ASSUME NEW t \in Worker, UpdateBlockTemplate(t) PROVE LockExclusive' /\ GuardsHeld'
  <2>1. UNCHANGED <<readers, writer>> /\ Goto(t, "update")
    BY <1>update, Zenon DEF UpdateBlockTemplate
  <2> QED BY <2>1, <1>task, <1>still, GuardsStay, SMT
<1>13. ASSUME NEW t \in Worker, GenerateFails(t) PROVE LockExclusive' /\ GuardsHeld'
  <2>1. UNCHANGED <<readers, writer>> /\ Goto(t, "idle")
    BY <1>13, Zenon DEF GenerateFails
  <2> QED BY <2>1, <1>task, <1>still, GuardsStay, SMT
<1>14. ASSUME NEW t \in Worker, LookReturns(t) PROVE LockExclusive' /\ GuardsHeld'
  <2>1. ReleaseAll(t) /\ Goto(t, "idle")
    BY <1>14, Zenon DEF LookReturns
  <2> QED BY <2>1, <1>task, Excluded, GuardsStay, SMT
<1>15. ASSUME NEW t \in Worker, StatusRunning(t) PROVE LockExclusive' /\ GuardsHeld'
  <2>1. UNCHANGED <<readers, writer>> /\ Goto(t, "statusRunning")
    BY <1>15, Zenon DEF StatusRunning
  <2> QED BY <2>1, <1>task, <1>still, GuardsStay, SMT
<1>16. ASSUME NEW t \in Worker, StatusReturns(t) PROVE LockExclusive' /\ GuardsHeld'
  <2>1. ReleaseAll(t) /\ Goto(t, "idle")
    BY <1>16, Zenon DEF StatusReturns
  <2> QED BY <2>1, <1>task, Excluded, GuardsStay, SMT
<1>17. ASSUME NEW t \in Worker, ReconnectRefused(t) PROVE LockExclusive' /\ GuardsHeld'
  <2>1. ReleaseAll(t) /\ Goto(t, "idle")
    BY <1>17, Zenon DEF ReconnectRefused
  <2> QED BY <2>1, <1>task, Excluded, GuardsStay, SMT
<1>18. ASSUME NEW t \in Worker, DialFails(t) PROVE LockExclusive' /\ GuardsHeld'
  <2>1. ReleaseAll(t) /\ Goto(t, "idle")
    BY <1>18, Zenon DEF DialFails
  <2> QED BY <2>1, <1>task, Excluded, GuardsStay, SMT
<1>19. ASSUME NEW t \in Worker, Spawn(t) PROVE LockExclusive' /\ GuardsHeld'
  <2>1. UNCHANGED <<readers, writer>> /\ Goto(t, "idle")
    BY <1>19, Zenon DEF Spawn
  <2> QED BY <2>1, <1>task, <1>still, GuardsStay, SMT
<1>20. ASSUME NEW t \in Worker, FetchReturns(t) PROVE LockExclusive' /\ GuardsHeld'
  <2>1. ReleaseAll(t) /\ Goto(t, "idle")
    BY <1>20, Zenon DEF FetchReturns
  <2> QED BY <2>1, <1>task, Excluded, GuardsStay, SMT
<1>21. ASSUME NEW t \in Worker, CallFails(t) PROVE LockExclusive' /\ GuardsHeld'
  <2>1. ReleaseAll(t) /\ Goto(t, "idle")
    BY <1>21, Zenon DEF CallFails
  <2> QED BY <2>1, <1>task, Excluded, GuardsStay, SMT
<1>22. ASSUME NEW t \in Worker, SubmitReturns(t) PROVE LockExclusive' /\ GuardsHeld'
  <2>1. ReleaseAll(t) /\ Goto(t, "idle")
    BY <1>22, Zenon DEF SubmitReturns
  <2> QED BY <2>1, <1>task, Excluded, GuardsStay, SMT
<1>23. ASSUME NEW t \in Worker, NEW c \in Client, Dial(t, c)
      PROVE  LockExclusive' /\ GuardsHeld'
  <2>1. ReleaseAll(t) /\ Goto(t, "spawn")
    BY <1>23, Zenon DEF Dial
  <2> QED BY <2>1, <1>task, Excluded, GuardsStay, SMT
<1>24. ASSUME NEW t \in Worker, SetTemplate(t) PROVE LockExclusive' /\ GuardsHeld'
  <2>1. CASE client = "none"
    <3>1. ReleaseAll(t) /\ Goto(t, "idle")
      BY <1>24, <2>1, Zenon DEF SetTemplate
    <3> QED BY <3>1, <1>task, Excluded, GuardsStay, SMT
  <2>2. CASE client # "none"
    <3>1. UNCHANGED <<readers, writer>> /\ Goto(t, "fetch") /\ Writes(t, "pool")
      BY <1>24, <2>2, Zenon DEF SetTemplate
    <3> QED BY <3>1, <1>still, GuardsTaken, SMT
  <2> QED BY <2>1, <2>2
<1>25. ASSUME NEW t \in Worker, SubmitPow(t) PROVE LockExclusive' /\ GuardsHeld'
  <2>1. CASE client = "none"
    <3>1. ReleaseAll(t) /\ Goto(t, "idle")
      BY <1>25, <2>1, Zenon DEF SubmitPow
    <3> QED BY <3>1, <1>task, Excluded, GuardsStay, SMT
  <2>2. CASE client # "none"
    <3>1. UNCHANGED <<readers, writer>> /\ Goto(t, "submitting") /\ Reads(t, "pool")
      BY <1>25, <2>2, Zenon DEF SubmitPow
    <3> QED BY <3>1, <1>still, GuardsTaken, SMT
  <2> QED BY <2>1, <2>2
<1>26. ASSUME NEW t \in Worker, DropClient(t) PROVE LockExclusive' /\ GuardsHeld'
  <2>1. UNCHANGED <<readers, writer>> /\ Goto(t, "dial") /\ Writes(t, "pool")
    BY <1>26, Zenon DEF DropClient
  <2> QED BY <2>1, <1>still, GuardsTaken, SMT
<1>27. ASSUME NEW l \in Lock, Grant(l) PROVE LockExclusive' /\ GuardsHeld'
  <2>1. LockExclusive' /\ UNCHANGED pc /\ "pool" \in Lock
    BY <1>27, Granted, Zenon DEF Grant, Lock
  <2>2. \A k \in Lock : readers[k] \subseteq readers'[k]
        /\ writer[k] \subseteq writer'[k]
    BY <1>27, Granted, Zenon
  <2> QED BY <2>1, <2>2, Zenon DEF GuardsHeld, Reads, Writes
<1>28. ASSUME NEW c \in Client, LoopTakes(c) PROVE LockExclusive' /\ GuardsHeld'
  BY <1>28, <1>still, <1>quiet, Zenon DEF LoopTakes
<1>29. ASSUME NEW c \in Client, LoopStops(c) PROVE LockExclusive' /\ GuardsHeld'
  BY <1>29, <1>still, <1>quiet, Zenon DEF LoopStops
<1>30. ASSUME NEW c \in Client, ConnBreaks(c) PROVE LockExclusive' /\ GuardsHeld'
  BY <1>30, <1>still, <1>quiet, Zenon DEF ConnBreaks
<1>31. CASE UNCHANGED vars
  BY <1>31, <1>still, <1>quiet, Zenon DEF vars
<1> QED
  BY <1>update, <1>1, <1>2, <1>3, <1>4, <1>5, <1>6, <1>7, <1>8, <1>9, <1>10, <1>11,
        <1>12, <1>13, <1>14, <1>15, <1>16, <1>17, <1>18, <1>19, <1>20, <1>21,
        <1>22, <1>23, <1>24, <1>25, <1>26, <1>27, <1>28, <1>29, <1>30, <1>31,
        Zenon
     DEF Next, Main, Call, Step

LEMMA TailOfFetches ==
  ASSUME NEW s \in Seq(Answer), s # <<>>, NEW n
  PROVE  /\ NoFetch(s) => NoFetch(Tail(s))
         /\ OneFetch(s, n) => OneFetch(Tail(s), n)
         /\ NoFetch(s) => Head(s) = Pow
         /\ OneFetch(s, n) /\ Head(s) # Pow => Head(s) = n /\ NoFetch(Tail(s))
<1>1. /\ Len(s) \in Nat \ {0} /\ Len(Tail(s)) = Len(s) - 1 /\ Head(s) = s[1]
      /\ \A i \in 1 .. Len(Tail(s)) : Tail(s)[i] = s[i + 1]
  BY HeadTail, Zenon
<1>2. NoFetch(s) => NoFetch(Tail(s)) /\ Head(s) = Pow
  BY <1>1, SMT DEF NoFetch
<1>3. ASSUME OneFetch(s, n)
      PROVE  \A i \in 1 .. Len(Tail(s)) : Tail(s)[i] # Pow =>
               /\ Tail(s)[i] = n /\ s[i + 1] # Pow
               /\ \A j \in 1 .. Len(Tail(s)) : Tail(s)[j] # Pow => j = i
  <2>1. \A i \in 1 .. Len(Tail(s)) : i + 1 \in 1 .. Len(s)
    BY <1>1, SMT
  <2>2. \A i, j \in 1 .. Len(Tail(s)) : i + 1 = j + 1 => i = j
    BY <1>1, SMT
  <2> QED BY <1>1, <1>3, <2>1, <2>2, Zenon DEF OneFetch
<1>4. OneFetch(s, n) => OneFetch(Tail(s), n)
  BY <1>3, Zenon DEF OneFetch
<1>5. ASSUME OneFetch(s, n), Head(s) # Pow
      PROVE  Head(s) = n /\ NoFetch(Tail(s))
  <2>1. 1 \in 1 .. Len(s) /\ s[1] # Pow
    BY <1>1, <1>5, SMT
  <2>2. s[1] = n /\ \A j \in 1 .. Len(s) : s[j] # Pow => j = 1
    BY <1>5, <2>1, Zenon DEF OneFetch
  <2>3. \A i \in 1 .. Len(Tail(s)) : i + 1 \in 1 .. Len(s) /\ i + 1 # 1
    BY <1>1, SMT
  <2> QED BY <1>1, <2>2, <2>3, Zenon DEF NoFetch
<1> QED BY <1>2, <1>4, <1>5

LEMMA AppendToFetches ==
  ASSUME NEW s \in Seq(Answer), NEW n
  PROVE  /\ n \in Nat /\ NoFetch(s) => OneFetch(Append(s, n), n)
         /\ NoFetch(s) => NoFetch(Append(s, Pow))
         /\ OneFetch(s, n) => OneFetch(Append(s, Pow), n)
<1>1. Pow \in Answer /\ (n \in Nat => n \in Answer)
  BY Zenon DEF Answer
<1>2. ASSUME NEW e \in Answer
      PROVE  /\ Len(Append(s, e)) = Len(s) + 1 /\ Len(s) \in Nat
             /\ Append(s, e)[Len(s) + 1] = e
             /\ \A i \in 1 .. Len(s) : Append(s, e)[i] = s[i]
  BY SMT
<1>3. ASSUME NEW e \in Answer, NEW i \in 1 .. Len(Append(s, e))
      PROVE  \/ i \in 1 .. Len(s) /\ Append(s, e)[i] = s[i]
             \/ i = Len(s) + 1 /\ Append(s, e)[i] = e
  <2>1. i \in 1 .. Len(s) \/ i = Len(s) + 1
    BY <1>2, SMT
  <2> QED BY <2>1, <1>2, Zenon
<1>4. ASSUME n \in Nat, NoFetch(s) PROVE OneFetch(Append(s, n), n)
  BY <1>1, <1>3, <1>4, Zenon DEF NoFetch, OneFetch
<1>5. NoFetch(s) => NoFetch(Append(s, Pow))
  BY <1>1, <1>3, Zenon DEF NoFetch
<1>6. OneFetch(s, n) => OneFetch(Append(s, Pow), n)
  BY <1>1, <1>3, Zenon DEF OneFetch
<1> QED BY <1>4, <1>5, <1>6

\* A connection from which an answer is taken, or which is asked for another
\* verdict, while whoever fetches from it goes on.
LEMMA OwedKeeps ==
  ASSUME TypeOK, NEW c \in Client, OwedAt(c),
         failed'[c] = failed[c], template' = template,
         \/ owed'[c] = owed[c]
         \/ owed[c] # <<>> /\ owed'[c] = Tail(owed[c])
         \/ owed'[c] = Append(owed[c], Pow),
         \A u \in Worker : pc[u] = "fetch" /\ using[u] = c =>
                             pc'[u] = "fetch" /\ using'[u] = c
  PROVE  OwedAt(c)'
<1> SUFFICES ASSUME ~failed[c]
             PROVE  \/ NoFetch(owed'[c])
                    \/ /\ OneFetch(owed'[c], template)
                       /\ \E t \in Worker : pc'[t] = "fetch" /\ using'[t] = c
  BY Zenon DEF OwedAt, NoFetch, OneFetch
<1>1. owed[c] \in Seq(Answer)
  BY Zenon DEF TypeOK
<1>2. /\ NoFetch(owed[c]) => NoFetch(owed'[c])
      /\ OneFetch(owed[c], template) => OneFetch(owed'[c], template)
  <2>1. CASE owed'[c] = owed[c]
    BY <2>1, Zenon
  <2>2. CASE owed[c] # <<>> /\ owed'[c] = Tail(owed[c])
    BY <1>1, <2>2, TailOfFetches, Zenon
  <2>3. CASE owed'[c] = Append(owed[c], Pow)
    <3>1. /\ NoFetch(owed[c]) => NoFetch(Append(owed[c], Pow))
          /\ OneFetch(owed[c], template)
               => OneFetch(Append(owed[c], Pow), template)
      BY <1>1, AppendToFetches, Zenon
    <3> QED BY <2>3, <3>1, Zenon
  <2> QED BY <2>1, <2>2, <2>3
<1> QED BY <1>2, Zenon DEF OwedAt

\* A step of t, which is not fetching, leaves those who do as they are.
LEMMA FetchersStay ==
  ASSUME TypeOK, NEW t \in Task, NEW label, Goto(t, label),
         t \in Worker => pc[t] # "fetch",
         using' = using \/ \E c \in Client : using' = [using EXCEPT ![t] = c]
  PROVE  \A u \in Worker : pc[u] = "fetch" =>
                             pc'[u] = "fetch" /\ using'[u] = using[u]
<1> SUFFICES ASSUME NEW u \in Worker, pc[u] = "fetch"
             PROVE  pc'[u] = "fetch" /\ using'[u] = using[u]
  OBVIOUS
<1>1. /\ pc \in [Task -> Pc \cup MainPc] /\ using \in [Task -> Client]
      /\ u \in Task /\ u # t
  BY Zenon DEF TypeOK, Task
<1> QED BY <1>1, Zenon DEF Goto

LEMMA QuietStep ==
  ASSUME TypeOK, CoinbaseOfTemplate, \A c \in Client : OwedAt(c),
         UNCHANGED <<owed, failed, template, coinbase, paired>>,
         \A u \in Worker : pc[u] = "fetch" =>
                             pc'[u] = "fetch" /\ using'[u] = using[u]
  PROVE  CoinbaseOfTemplate' /\ \A c \in Client : OwedAt(c)'
<1>1. CoinbaseOfTemplate'
  BY Zenon DEF CoinbaseOfTemplate
<1>2. ASSUME NEW c \in Client PROVE OwedAt(c)'
  <2>1. owed'[c] = owed[c] /\ failed'[c] = failed[c]
    BY Zenon
  <2>2. \A u \in Worker : pc[u] = "fetch" /\ using[u] = c =>
                           pc'[u] = "fetch" /\ using'[u] = c
    BY Zenon
  <2> QED BY <2>1, <2>2, OwedKeeps, Zenon
<1> QED BY <1>1, <1>2

\* Who has the write guard of the pool is alone with its calls.
LEMMA WriterAlone ==
  ASSUME LockExclusive, GuardsHeld, NEW t \in Worker, Writes(t, "pool"),
         NEW u \in Worker, pc[u] \in {"fetch", "dial", "submitting"}
  PROVE  u = t /\ pc[u] # "submitting"
<1>1. "pool" \in Lock
  BY Zenon DEF Lock
<1>2. t \in writer["pool"]
  BY Zenon DEF Writes
<1>3. readers["pool"] = {} /\ \E v \in Task : writer["pool"] = {v}
  BY <1>1, <1>2, Zenon DEF LockExclusive
<1>4. /\ pc[u] \in {"fetch", "dial"} => u \in writer["pool"]
      /\ pc[u] = "submitting" => u \in readers["pool"]
  BY Zenon DEF GuardsHeld, Writes, Reads
<1> QED BY <1>2, <1>3, <1>4, SMT

LEMMA SetTemplateStep ==
  ASSUME TypeOK, PoolInv, NEW t \in Worker, SetTemplate(t)
  PROVE  CoinbaseOfTemplate' /\ \A c \in Client : OwedAt(c)'
<1>1. LockExclusive /\ GuardsHeld /\ \A c \in Client : OwedAt(c)
  BY Zenon DEF PoolInv
<1>2. /\ pc[t] = "update" /\ Writes(t, "pool") /\ template' = job[t]
      /\ paired' = FALSE /\ failed' = failed
  BY Zenon DEF SetTemplate
<1>3. /\ pc \in [Task -> Pc \cup MainPc] /\ using \in [Task -> Client]
      /\ owed \in [Client -> Seq(Answer)] /\ client \in Client \cup {"none"}
      /\ job[t] \in Nat /\ t \in Task
  BY Zenon DEF TypeOK, Task
<1>4. \A u \in Worker : pc[u] # "fetch"
  <2> SUFFICES ASSUME NEW u \in Worker, pc[u] = "fetch" PROVE FALSE
    OBVIOUS
  <2>1. u = t
    BY <1>1, <1>2, WriterAlone, Zenon
  <2> QED BY <1>2, <2>1, Zenon
<1>5. \A c \in Client : ~failed[c] => NoFetch(owed[c])
  BY <1>1, <1>4, Zenon DEF OwedAt
<1>6. CoinbaseOfTemplate'
  BY <1>2, Zenon DEF CoinbaseOfTemplate
<1>7. ASSUME NEW c \in Client, ~failed[c], owed'[c] = owed[c] PROVE OwedAt(c)'
  BY <1>5, <1>7, Zenon DEF OwedAt, NoFetch
<1>8. ASSUME NEW c \in Client, ~failed[c], owed'[c] # owed[c] PROVE OwedAt(c)'
  <2>1. /\ c = client /\ client # "none"
        /\ owed' = [owed EXCEPT ![client] = Append(owed[client], job[t])]
    BY <1>3, <1>8, Zenon DEF SetTemplate, Send
  <2>2. using' = [using EXCEPT ![t] = client] /\ pc' = [pc EXCEPT ![t] = "fetch"]
    BY <2>1, Zenon DEF SetTemplate, Send, Goto
  <2>3. owed'[c] = Append(owed[c], job[t])
    BY <1>3, <2>1, Zenon
  <2>4. pc'[t] = "fetch" /\ using'[t] = c
    BY <1>3, <2>1, <2>2, Zenon
  <2>5. OneFetch(owed'[c], template')
    <3>1. NoFetch(owed[c]) /\ owed[c] \in Seq(Answer)
      BY <1>3, <1>5, <1>8, Zenon
    <3>2. OneFetch(Append(owed[c], job[t]), job[t])
      BY <1>3, <3>1, AppendToFetches, Zenon
    <3> QED BY <1>2, <2>3, <3>2, Zenon
  <2> QED BY <2>4, <2>5, Zenon DEF OwedAt, OneFetch
<1>9. ASSUME NEW c \in Client, failed[c] PROVE OwedAt(c)'
  BY <1>2, <1>9, Zenon DEF OwedAt
<1> QED BY <1>6, <1>7, <1>8, <1>9, Zenon

LEMMA FetchReturnsStep ==
  ASSUME TypeOK, PoolInv, NEW t \in Worker, FetchReturns(t)
  PROVE  CoinbaseOfTemplate' /\ \A c \in Client : OwedAt(c)'
<1> PICK d : d = using[t]
  BY Zenon
<1>1. /\ pc \in [Task -> Pc \cup MainPc] /\ using \in [Task -> Client]
      /\ owed \in [Client -> Seq(Answer)] /\ t \in Task /\ d \in Client
  BY Zenon DEF TypeOK, Task
<1>2. /\ owed[d] # <<>> /\ Head(owed[d]) # Pow /\ coinbase' = Head(owed[d])
      /\ owed' = [owed EXCEPT ![d] = Tail(owed[d])] /\ paired' = ~failed[d]
      /\ UNCHANGED <<template, failed, using>> /\ pc' = [pc EXCEPT ![t] = "idle"]
  BY Zenon DEF FetchReturns, Goto
<1>3. OwedAt(d) /\ \A c \in Client : OwedAt(c)
  BY <1>1, Zenon DEF PoolInv
<1>4. ~failed[d] => Head(owed[d]) = template /\ NoFetch(Tail(owed[d]))
  <2>1. owed[d] \in Seq(Answer)
    BY <1>1, Zenon
  <2>2. ~failed[d] => OneFetch(owed[d], template)
    BY <1>2, <1>3, <2>1, TailOfFetches, Zenon DEF OwedAt
  <2> QED BY <1>2, <2>1, <2>2, TailOfFetches, Zenon
<1>5. CoinbaseOfTemplate'
  BY <1>2, <1>4, Zenon DEF CoinbaseOfTemplate
<1>6. OwedAt(d)'
  <2>1. owed'[d] = Tail(owed[d])
    BY <1>1, <1>2, Zenon
  <2> QED BY <1>2, <1>4, <2>1, Zenon DEF OwedAt, NoFetch
<1>7. ASSUME NEW c \in Client, c # d PROVE OwedAt(c)'
  <2>1. owed'[c] = owed[c] /\ failed'[c] = failed[c]
    BY <1>1, <1>2, <1>7, Zenon
  <2>2. \A u \in Worker : pc[u] = "fetch" /\ using[u] = c =>
                           pc'[u] = "fetch" /\ using'[u] = c
    BY <1>1, <1>2, <1>7, Zenon DEF Task
  <2> QED BY <1>2, <1>3, <2>1, <2>2, OwedKeeps, Zenon
<1> QED
  <2>1. \A c \in Client : OwedAt(c)'
    BY <1>6, <1>7, Zenon
  <2> QED BY <1>5, <2>1

LEMMA CallFailsStep ==
  ASSUME TypeOK, PoolInv, NEW t \in Worker, CallFails(t)
  PROVE  CoinbaseOfTemplate' /\ \A c \in Client : OwedAt(c)'
<1> PICK d : d = using[t]
  BY Zenon
<1>1. /\ pc \in [Task -> Pc \cup MainPc] /\ using \in [Task -> Client]
      /\ owed \in [Client -> Seq(Answer)] /\ failed \in [Client -> BOOLEAN]
      /\ t \in Task /\ d \in Client
  BY Zenon DEF TypeOK, Task
<1>2. /\ failed' = [failed EXCEPT ![d] = TRUE]
      /\ owed' = owed \/ owed' = [owed EXCEPT ![d] = Tail(owed[d])]
      /\ UNCHANGED <<template, coinbase, paired, using>>
      /\ pc' = [pc EXCEPT ![t] = "idle"]
  BY Zenon DEF CallFails, Goto, poolVars
<1>3. CoinbaseOfTemplate /\ \A c \in Client : OwedAt(c)
  BY Zenon DEF PoolInv
<1>4. CoinbaseOfTemplate'
  BY <1>2, <1>3, Zenon DEF CoinbaseOfTemplate
<1>5. OwedAt(d)'
  <2>1. failed'[d]
    BY <1>1, <1>2, Zenon
  <2> QED BY <2>1, Zenon DEF OwedAt
<1>6. ASSUME NEW c \in Client, c # d PROVE OwedAt(c)'
  <2>1. owed'[c] = owed[c] /\ failed'[c] = failed[c]
    BY <1>1, <1>2, <1>6, Zenon
  <2>2. \A u \in Worker : pc[u] = "fetch" /\ using[u] = c =>
                           pc'[u] = "fetch" /\ using'[u] = c
    BY <1>1, <1>2, <1>6, Zenon DEF Task
  <2> QED BY <1>2, <1>3, <2>1, <2>2, OwedKeeps, Zenon
<1> QED
  <2>1. \A c \in Client : OwedAt(c)'
    BY <1>5, <1>6, Zenon
  <2> QED BY <1>4, <2>1

\* The steps that take an answer, or ask for another verdict.
LEMMA AnswerStep ==
  ASSUME TypeOK, PoolInv, NEW d \in Client,
         UNCHANGED <<failed, template, coinbase, paired>>,
         \/ owed' = owed
         \/ owed[d] # <<>> /\ owed' = [owed EXCEPT ![d] = Tail(owed[d])]
         \/ owed' = [owed EXCEPT ![d] = Append(owed[d], Pow)],
         \A u \in Worker : pc[u] = "fetch" =>
                             pc'[u] = "fetch" /\ using'[u] = using[u]
  PROVE  CoinbaseOfTemplate' /\ \A c \in Client : OwedAt(c)'
<1>1. CoinbaseOfTemplate /\ \A c \in Client : OwedAt(c)
  BY Zenon DEF PoolInv
<1>2. CoinbaseOfTemplate'
  BY <1>1, Zenon DEF CoinbaseOfTemplate
<1>3. ASSUME NEW c \in Client PROVE OwedAt(c)'
  <2>1. owed \in [Client -> Seq(Answer)]
    BY Zenon DEF TypeOK
  <2>2. \/ owed'[c] = owed[c]
        \/ owed[c] # <<>> /\ owed'[c] = Tail(owed[c])
        \/ owed'[c] = Append(owed[c], Pow)
    BY <2>1, SMT
  <2>3. \A u \in Worker : pc[u] = "fetch" /\ using[u] = c =>
                           pc'[u] = "fetch" /\ using'[u] = c
    BY Zenon
  <2>4. failed'[c] = failed[c]
    BY Zenon
  <2> QED BY <1>1, <2>2, <2>3, <2>4, OwedKeeps, Zenon
<1> QED BY <1>2, <1>3

LEMMA PoolNext == TypeOK /\ PoolInv /\ [Next]_vars => PoolInv'
<1> SUFFICES ASSUME TypeOK, PoolInv, [Next]_vars PROVE PoolInv'
  OBVIOUS
<1> DEFINE Goal == CoinbaseOfTemplate' /\ \A c \in Client : OwedAt(c)'
<1> SUFFICES Goal
  BY LockNext, Zenon DEF PoolInv
<1>inv. CoinbaseOfTemplate /\ \A c \in Client : OwedAt(c)
  BY Zenon DEF PoolInv
<1>type. /\ using \in [Task -> Client] /\ client \in Client \cup {"none"}
         /\ "main" \in Task /\ "main" \notin Worker
         /\ \A t \in Worker : t \in Task
  BY TaskAssumption, Zenon DEF TypeOK, Task, Worker
<1> USE DEF lockVars, poolVars, clientVars, taskVars
<1>rest. ASSUME UNCHANGED <<owed, failed, template, coinbase, paired, pc, using>>
         PROVE  Goal
  <2>1. \A u \in Worker : pc[u] = "fetch" =>
                           pc'[u] = "fetch" /\ using'[u] = using[u]
    BY <1>rest, Zenon
  <2> QED BY <1>inv, <1>rest, <2>1, QuietStep, Zenon
<1>move. ASSUME NEW t \in Task, NEW label, Goto(t, label),
                t \in Worker => pc[t] # "fetch",
                UNCHANGED <<owed, failed, template, coinbase, paired>>,
                \/ using' = using
                \/ \E c \in Client : using' = [using EXCEPT ![t] = c]
         PROVE  Goal
  <2>1. \A u \in Worker : pc[u] = "fetch" =>
                           pc'[u] = "fetch" /\ using'[u] = using[u]
    BY <1>move, FetchersStay, Zenon
  <2> QED BY <1>inv, <1>move, <2>1, QuietStep, Zenon
<1>1. CASE NewSolo
  <2>1. /\ Goto("main", "start")
        /\ UNCHANGED <<owed, failed, template, coinbase, paired, using>>
    BY <1>1, Zenon DEF NewSolo
  <2> QED BY <1>type, <1>move, <2>1, Zenon
<1>2. CASE NewFails
  <2>1. /\ Goto("main", "failed")
        /\ UNCHANGED <<owed, failed, template, coinbase, paired, using>>
    BY <1>2, Zenon DEF NewFails
  <2> QED BY <1>type, <1>move, <2>1, Zenon
<1>3. CASE Start
  <2>1. /\ Goto("main", "startRunning")
        /\ UNCHANGED <<owed, failed, template, coinbase, paired, using>>
    BY <1>3, Zenon DEF Start
  <2> QED BY <1>type, <1>move, <2>1, Zenon
<1>4. CASE StartRunning
  <2>1. /\ Goto("main", "startPool")
        /\ UNCHANGED <<owed, failed, template, coinbase, paired, using>>
    BY <1>4, Zenon DEF StartRunning
  <2> QED BY <1>type, <1>move, <2>1, Zenon
<1>5. CASE StartLoop
  <2>1. /\ Goto("main", "ready")
        /\ UNCHANGED <<owed, failed, template, coinbase, paired, using>>
    BY <1>5, Zenon DEF StartLoop
  <2> QED BY <1>type, <1>move, <2>1, Zenon
<1>6. ASSUME NEW c \in Client, NewConnects(c) PROVE Goal
  <2>1. /\ Goto("main", "start")
        /\ UNCHANGED <<owed, failed, template, coinbase, paired, using>>
    BY <1>6, Zenon DEF NewConnects
  <2> QED BY <1>type, <1>move, <2>1, Zenon
<1>7. ASSUME NEW t \in Worker, HandleTemplateEvent(t) PROVE Goal
  <2>1. /\ Goto(t, "generate") /\ pc[t] # "fetch"
        /\ UNCHANGED <<owed, failed, template, coinbase, paired, using>>
    BY <1>7, SMT DEF HandleTemplateEvent, Called
  <2> QED BY <1>type, <1>move, <2>1, Zenon
<1>8. ASSUME NEW t \in Worker, Submit(t) PROVE Goal
  <2>1. /\ Goto(t, "submit") /\ pc[t] # "fetch"
        /\ UNCHANGED <<owed, failed, template, coinbase, paired, using>>
    BY <1>8, SMT DEF Submit, Called
  <2> QED BY <1>type, <1>move, <2>1, Zenon
<1>9. ASSUME NEW t \in Worker, Look(t) PROVE Goal
  <2>1. /\ Goto(t, "look") /\ pc[t] # "fetch"
        /\ UNCHANGED <<owed, failed, template, coinbase, paired, using>>
    BY <1>9, SMT DEF Look, Called
  <2> QED BY <1>type, <1>move, <2>1, Zenon
<1>10. ASSUME NEW t \in Worker, Status(t) PROVE Goal
  <2>1. /\ Goto(t, "status") /\ pc[t] # "fetch"
        /\ UNCHANGED <<owed, failed, template, coinbase, paired, using>>
    BY <1>10, SMT DEF Status, Called
  <2> QED BY <1>type, <1>move, <2>1, Zenon
<1>11. ASSUME NEW t \in Worker, Reconnect(t) PROVE Goal
  <2>1. /\ Goto(t, "reconnect") /\ pc[t] # "fetch"
        /\ UNCHANGED <<owed, failed, template, coinbase, paired, using>>
    BY <1>11, SMT DEF Reconnect, Called
  <2> QED BY <1>type, <1>move, <2>1, Zenon
<1>12. ASSUME NEW t \in Worker, GenerateTemplate(t) PROVE Goal
  <2>1. /\ Goto(t, "generated") /\ pc[t] # "fetch"
        /\ UNCHANGED <<owed, failed, template, coinbase, paired, using>>
    BY <1>12, SMT DEF GenerateTemplate
  <2> QED BY <1>type, <1>move, <2>1, Zenon
<1>update. ASSUME NEW t \in Worker, UpdateBlockTemplate(t) PROVE Goal
  <2>1. /\ Goto(t, "update") /\ pc[t] # "fetch"
        /\ UNCHANGED <<owed, failed, template, coinbase, paired, using>>
    BY <1>update, SMT DEF UpdateBlockTemplate
  <2> QED BY <1>type, <1>move, <2>1, Zenon
<1>13. ASSUME NEW t \in Worker, GenerateFails(t) PROVE Goal
  <2>1. /\ Goto(t, "idle") /\ pc[t] # "fetch"
        /\ UNCHANGED <<owed, failed, template, coinbase, paired, using>>
    BY <1>13, SMT DEF GenerateFails
  <2> QED BY <1>type, <1>move, <2>1, Zenon
<1>14. ASSUME NEW t \in Worker, LookReturns(t) PROVE Goal
  <2>1. /\ Goto(t, "idle") /\ pc[t] # "fetch"
        /\ UNCHANGED <<owed, failed, template, coinbase, paired, using>>
    BY <1>14, SMT DEF LookReturns
  <2> QED BY <1>type, <1>move, <2>1, Zenon
<1>15. ASSUME NEW t \in Worker, StatusRunning(t) PROVE Goal
  <2>1. /\ Goto(t, "statusRunning") /\ pc[t] # "fetch"
        /\ UNCHANGED <<owed, failed, template, coinbase, paired, using>>
    BY <1>15, SMT DEF StatusRunning
  <2> QED BY <1>type, <1>move, <2>1, Zenon
<1>16. ASSUME NEW t \in Worker, StatusReturns(t) PROVE Goal
  <2>1. /\ Goto(t, "idle") /\ pc[t] # "fetch"
        /\ UNCHANGED <<owed, failed, template, coinbase, paired, using>>
    BY <1>16, SMT DEF StatusReturns
  <2> QED BY <1>type, <1>move, <2>1, Zenon
<1>17. ASSUME NEW t \in Worker, ReconnectRefused(t) PROVE Goal
  <2>1. /\ Goto(t, "idle") /\ pc[t] # "fetch"
        /\ UNCHANGED <<owed, failed, template, coinbase, paired, using>>
    BY <1>17, SMT DEF ReconnectRefused
  <2> QED BY <1>type, <1>move, <2>1, Zenon
<1>18. ASSUME NEW t \in Worker, DropClient(t) PROVE Goal
  <2>1. /\ Goto(t, "dial") /\ pc[t] # "fetch"
        /\ UNCHANGED <<owed, failed, template, coinbase, paired, using>>
    BY <1>18, SMT DEF DropClient
  <2> QED BY <1>type, <1>move, <2>1, Zenon
<1>19. ASSUME NEW t \in Worker, DialFails(t) PROVE Goal
  <2>1. /\ Goto(t, "idle") /\ pc[t] # "fetch"
        /\ UNCHANGED <<owed, failed, template, coinbase, paired, using>>
    BY <1>19, SMT DEF DialFails
  <2> QED BY <1>type, <1>move, <2>1, Zenon
<1>20. ASSUME NEW t \in Worker, Spawn(t) PROVE Goal
  <2>1. /\ Goto(t, "idle") /\ pc[t] # "fetch"
        /\ UNCHANGED <<owed, failed, template, coinbase, paired, using>>
    BY <1>20, SMT DEF Spawn
  <2> QED BY <1>type, <1>move, <2>1, Zenon
<1>21. ASSUME NEW t \in Worker, NEW c \in Client, Dial(t, c) PROVE Goal
  <2>1. /\ Goto(t, "spawn") /\ pc[t] # "fetch"
        /\ using' = [using EXCEPT ![t] = c]
        /\ UNCHANGED <<owed, failed, template, coinbase, paired>>
    BY <1>21, SMT DEF Dial
  <2> QED BY <1>type, <1>move, <2>1, Zenon
<1>22. ASSUME NEW t \in Worker, SetTemplate(t) PROVE Goal
  BY <1>22, SetTemplateStep, Zenon
<1>23. ASSUME NEW t \in Worker, FetchReturns(t) PROVE Goal
  BY <1>23, FetchReturnsStep, Zenon
<1>24. ASSUME NEW t \in Worker, CallFails(t) PROVE Goal
  BY <1>24, CallFailsStep, Zenon
<1>25. ASSUME NEW t \in Worker, SubmitPow(t) PROVE Goal
  <2>1. CASE client = "none"
    <3>1. /\ Goto(t, "idle") /\ pc[t] # "fetch"
          /\ UNCHANGED <<owed, failed, template, coinbase, paired, using>>
      BY <1>25, <2>1, SMT DEF SubmitPow
    <3> QED BY <1>type, <1>move, <3>1, Zenon
  <2>2. CASE client \in Client
    <3>1. client # "none"
      BY <2>2, ClientAssumption, Zenon
    <3>2. /\ Goto(t, "submitting") /\ pc[t] = "submit"
          /\ using' = [using EXCEPT ![t] = client]
          /\ \/ owed' = owed
             \/ owed' = [owed EXCEPT ![client] = Append(owed[client], Pow)]
          /\ UNCHANGED <<failed, template, coinbase, paired>>
      BY <1>25, <3>1, Zenon DEF SubmitPow, Send
    <3>3. pc[t] # "fetch"
      BY <3>2, SMT
    <3>4. \A u \in Worker : pc[u] = "fetch" =>
                             pc'[u] = "fetch" /\ using'[u] = using[u]
      BY <1>type, <2>2, <3>2, <3>3, FetchersStay, Zenon
    <3> QED BY <2>2, <3>2, <3>4, AnswerStep, Zenon
  <2> QED BY <1>type, <2>1, <2>2, Zenon
<1>26. ASSUME NEW t \in Worker, SubmitReturns(t) PROVE Goal
  <2>1. /\ Goto(t, "idle") /\ pc[t] = "submitting" /\ owed[using[t]] # <<>>
        /\ owed' = [owed EXCEPT ![using[t]] = Tail(owed[using[t]])]
        /\ UNCHANGED <<failed, template, coinbase, paired, using>>
    BY <1>26, Zenon DEF SubmitReturns
  <2>2. using[t] \in Client /\ pc[t] # "fetch"
    BY <1>type, <2>1, SMT
  <2>3. \A u \in Worker : pc[u] = "fetch" =>
                           pc'[u] = "fetch" /\ using'[u] = using[u]
    BY <1>type, <2>1, <2>2, FetchersStay, Zenon
  <2> QED BY <2>1, <2>2, <2>3, AnswerStep, Zenon
<1>27. ASSUME NEW c \in Client, LoopTakes(c) PROVE Goal
  <2>1. /\ owed[c] # <<>> /\ owed' = [owed EXCEPT ![c] = Tail(owed[c])]
        /\ UNCHANGED <<failed, template, coinbase, paired, pc, using>>
    BY <1>27, Zenon DEF LoopTakes
  <2>2. \A u \in Worker : pc[u] = "fetch" =>
                           pc'[u] = "fetch" /\ using'[u] = using[u]
    BY <2>1, Zenon
  <2> QED BY <2>1, <2>2, AnswerStep, Zenon
<1>28. ASSUME NEW c \in Client, ConnBreaks(c) PROVE Goal
  <2>1. /\ owed' = owed \/ owed' = [owed EXCEPT ![c] = <<>>]
        /\ UNCHANGED <<failed, template, coinbase, paired, pc, using>>
    BY <1>28, Zenon DEF ConnBreaks
  <2>2. CASE owed' = owed
    BY <1>rest, <2>1, <2>2, Zenon
  <2>3. CASE owed' = [owed EXCEPT ![c] = <<>>]
    <3>1. owed \in [Client -> Seq(Answer)]
      BY Zenon DEF TypeOK
    <3>2. NoFetch(<<>>)
      BY SMT DEF NoFetch
    <3>3. ASSUME NEW d \in Client PROVE OwedAt(d)'
      <4>1. CASE d = c
        <5>1. owed'[d] = <<>>
          BY <2>3, <3>1, <4>1, Zenon
        <5> QED BY <3>2, <5>1, Zenon DEF OwedAt, NoFetch
      <4>2. CASE d # c
        <5>1. owed'[d] = owed[d]
          BY <2>3, <3>1, <4>2, Zenon
        <5>2. \A u \in Worker : pc[u] = "fetch" /\ using[u] = d =>
                                 pc'[u] = "fetch" /\ using'[u] = d
          BY <2>1, Zenon
        <5>3. failed'[d] = failed[d] /\ template' = template /\ OwedAt(d)
          BY <1>inv, <2>1, Zenon
        <5> QED BY <5>1, <5>2, <5>3, OwedKeeps, Zenon
      <4> QED BY <4>1, <4>2
    <3>4. CoinbaseOfTemplate'
      BY <1>inv, <2>1, Zenon DEF CoinbaseOfTemplate
    <3> QED BY <3>3, <3>4
  <2> QED BY <2>1, <2>2, <2>3
<1>29. ASSUME NEW l \in Lock, Grant(l) PROVE Goal
  BY <1>29, <1>rest, Zenon DEF Grant
<1>30. ASSUME NEW c \in Client, LoopStops(c) PROVE Goal
  BY <1>30, <1>rest, Zenon DEF LoopStops
<1>31. ASSUME UNCHANGED vars PROVE Goal
  BY <1>31, <1>rest, Zenon DEF vars
<1> HIDE DEF Goal
<1> QED
  BY <1>update, <1>1, <1>2, <1>3, <1>4, <1>5, <1>6, <1>7, <1>8, <1>9, <1>10, <1>11,
        <1>12, <1>13, <1>14, <1>15, <1>16, <1>17, <1>18, <1>19, <1>20, <1>21,
        <1>22, <1>23, <1>24, <1>25, <1>26, <1>27, <1>28, <1>29, <1>30, <1>31,
        Zenon
     DEF Next, Main, Call, Step

LEMMA PoolInit == Init => PoolInv
<1> SUFFICES ASSUME Init PROVE PoolInv
  OBVIOUS
<1>1. LockExclusive
  BY SMT DEF Init, LockExclusive
<1>2. GuardsHeld
  BY SMT DEF Init, GuardsHeld, Task
<1>3. CoinbaseOfTemplate
  BY Zenon DEF Init, CoinbaseOfTemplate
<1>4. ASSUME NEW c \in Client PROVE OwedAt(c)
  BY SMT DEF Init, OwedAt, NoFetch
<1> QED BY <1>1, <1>2, <1>3, <1>4, Zenon DEF PoolInv

(***************************************************************************)
(* Whatever receive loops take away, however other callers interleave: the *)
(* coinbase that a fetch stores is the answer for the template beside it,  *)
(* unless an earlier call on the connection has failed.                    *)
(***************************************************************************)
THEOREM CoinbaseCorrect == Spec => []CoinbaseOfTemplate
<1>1. Init => TypeOK /\ PoolInv
  BY TypeInit, PoolInit
<1>2. TypeOK /\ PoolInv /\ [Next]_vars => (TypeOK /\ PoolInv)'
  BY TypeNext, PoolNext
<1>3. PoolInv => CoinbaseOfTemplate
  BY DEF PoolInv
<1> QED BY <1>1, <1>2, <1>3, PTL DEF Spec

LEMMA KeptMove ==
  ASSUME TypeOK, ClientKept, IdleBeforeNew, NEW t \in Task, NEW label,
         Goto(t, label), label \notin {"fetch", "submitting", "new"},
         t \in Worker => pc["main"] # "new", UNCHANGED <<client, using>>
  PROVE  ClientKept' /\ IdleBeforeNew'
<1>1. /\ pc \in [Task -> Pc \cup MainPc] /\ "main" \in Task
      /\ \A u \in Worker : u \in Task
  BY Zenon DEF TypeOK, Task
<1>2. \A u \in Task : pc'[u] = IF u = t THEN label ELSE pc[u]
  BY <1>1, Zenon DEF Goto
<1>3. ClientKept'
  BY <1>1, <1>2, SMT DEF ClientKept
<1>4. IdleBeforeNew'
  <2>1. t = "main" \/ t \in Worker
    BY Zenon DEF Task
  <2>2. pc'["main"] # "new"
    BY <1>1, <1>2, <2>1, SMT DEF IdleBeforeNew
  <2> QED BY <2>2, Zenon DEF IdleBeforeNew
<1> QED BY <1>3, <1>4

\* A writer changes the client, when no call is on its way.
LEMMA KeptWrite ==
  ASSUME TypeOK, LockExclusive, GuardsHeld, ClientKept, IdleBeforeNew,
         NEW t \in Worker, NEW label, Goto(t, label), Writes(t, "pool"),
         pc[t] \in {"reconnect", "dial"}, label \in {"dial", "spawn"}
  PROVE  ClientKept' /\ IdleBeforeNew'
<1>1. /\ pc \in [Task -> Pc \cup MainPc] /\ "main" \in Task
      /\ "main" \notin Worker /\ \A u \in Worker : u \in Task
  BY TaskAssumption, Zenon DEF TypeOK, Task, Worker
<1>2. \A u \in Task : pc'[u] = IF u = t THEN label ELSE pc[u]
  BY <1>1, Zenon DEF Goto
<1>3. \A u \in Worker : pc[u] \in {"fetch", "submitting"} => u = t
  BY WriterAlone, SMT
<1>4. pc[t] # "idle" /\ label \notin {"fetch", "submitting"}
  BY SMT
<1>5. ClientKept'
  BY <1>1, <1>2, <1>3, <1>4, Zenon DEF ClientKept
<1>6. pc["main"] # "new" /\ pc'["main"] = pc["main"]
  BY <1>1, <1>2, <1>4, Zenon DEF IdleBeforeNew
<1> QED BY <1>5, <1>6, Zenon DEF IdleBeforeNew

\* A call is made with the pool's client.
LEMMA KeptSend ==
  ASSUME TypeOK, ClientKept, IdleBeforeNew, NEW t \in Worker, NEW label,
         Goto(t, label), pc[t] # "idle", client' = client,
         using' = [using EXCEPT ![t] = client]
  PROVE  ClientKept' /\ IdleBeforeNew'
<1>1. /\ pc \in [Task -> Pc \cup MainPc] /\ using \in [Task -> Client]
      /\ "main" \in Task /\ "main" \notin Worker
      /\ \A u \in Worker : u \in Task
  BY TaskAssumption, Zenon DEF TypeOK, Task, Worker
<1>2. \A u \in Task : pc'[u] = IF u = t THEN label ELSE pc[u]
  BY <1>1, Zenon DEF Goto
<1>3. \A u \in Task : using'[u] = IF u = t THEN client ELSE using[u]
  BY <1>1, Zenon
<1>4. ClientKept'
  BY <1>1, <1>2, <1>3, Zenon DEF ClientKept
<1>5. pc["main"] # "new" /\ pc'["main"] = pc["main"]
  BY <1>1, <1>2, Zenon DEF IdleBeforeNew
<1> QED BY <1>4, <1>5, Zenon DEF IdleBeforeNew

LEMMA KeptNext ==
  ASSUME TypeOK, LockExclusive, GuardsHeld, ClientKept, IdleBeforeNew,
         [Next]_vars
  PROVE  ClientKept' /\ IdleBeforeNew'
<1> USE DEF lockVars, poolVars, clientVars, taskVars
<1>type. /\ "main" \in Task /\ "main" \notin Worker
         /\ \A t \in Worker : t \in Task
  BY TaskAssumption, Zenon DEF Task, Worker
<1>rest. ASSUME UNCHANGED <<client, using, pc>>
         PROVE  ClientKept' /\ IdleBeforeNew'
  BY <1>rest, Zenon DEF ClientKept, IdleBeforeNew
<1>busy. \A t \in Worker : pc[t] # "idle" => pc["main"] # "new"
  BY Zenon DEF IdleBeforeNew
<1>1. CASE NewSolo
  <2>1. Goto("main", "start") /\ UNCHANGED <<client, using>>
    BY <1>1, Zenon DEF NewSolo
  <2> QED BY <1>type, <2>1, KeptMove, SMT
<1>2. CASE NewFails
  <2>1. Goto("main", "failed") /\ UNCHANGED <<client, using>>
    BY <1>2, Zenon DEF NewFails
  <2> QED BY <1>type, <2>1, KeptMove, SMT
<1>3. CASE Start
  <2>1. Goto("main", "startRunning") /\ UNCHANGED <<client, using>>
    BY <1>3, Zenon DEF Start
  <2> QED BY <1>type, <2>1, KeptMove, SMT
<1>4. CASE StartRunning
  <2>1. Goto("main", "startPool") /\ UNCHANGED <<client, using>>
    BY <1>4, Zenon DEF StartRunning
  <2> QED BY <1>type, <2>1, KeptMove, SMT
<1>5. CASE StartLoop
  <2>1. Goto("main", "ready") /\ UNCHANGED <<client, using>>
    BY <1>5, Zenon DEF StartLoop
  <2> QED BY <1>type, <2>1, KeptMove, SMT
<1>6. ASSUME NEW c \in Client, NewConnects(c)
      PROVE  ClientKept' /\ IdleBeforeNew'
  <2>1. /\ pc["main"] = "new" /\ pc' = [pc EXCEPT !["main"] = "start"]
        /\ pc \in [Task -> Pc \cup MainPc]
    BY <1>6, Zenon DEF NewConnects, Goto, TypeOK
  <2>2. /\ pc'["main"] = "start"
        /\ \A t \in Worker : pc'[t] = "idle"
    BY <1>type, <2>1, Zenon DEF IdleBeforeNew
  <2> QED BY <2>2, SMT DEF ClientKept, IdleBeforeNew
<1>7. ASSUME NEW t \in Worker, HandleTemplateEvent(t)
       PROVE ClientKept' /\ IdleBeforeNew'
  <2>1. /\ Goto(t, "generate") /\ UNCHANGED <<client, using>>
        /\ pc["main"] # "new"
    BY <1>7, SMT DEF HandleTemplateEvent, Called, Ready, Registered
  <2> QED BY <1>type, <2>1, KeptMove, SMT
<1>8. ASSUME NEW t \in Worker, Submit(t) PROVE ClientKept' /\ IdleBeforeNew'
  <2>1. /\ Goto(t, "submit") /\ UNCHANGED <<client, using>>
        /\ pc["main"] # "new"
    BY <1>8, SMT DEF Submit, Called, Ready, Registered
  <2> QED BY <1>type, <2>1, KeptMove, SMT
<1>9. ASSUME NEW t \in Worker, Look(t) PROVE ClientKept' /\ IdleBeforeNew'
  <2>1. /\ Goto(t, "look") /\ UNCHANGED <<client, using>>
        /\ pc["main"] # "new"
    BY <1>9, SMT DEF Look, Called, Ready, Registered
  <2> QED BY <1>type, <2>1, KeptMove, SMT
<1>10. ASSUME NEW t \in Worker, Status(t) PROVE ClientKept' /\ IdleBeforeNew'
  <2>1. /\ Goto(t, "status") /\ UNCHANGED <<client, using>>
        /\ pc["main"] # "new"
    BY <1>10, SMT DEF Status, Called, Ready, Registered
  <2> QED BY <1>type, <2>1, KeptMove, SMT
<1>11. ASSUME NEW t \in Worker, Reconnect(t) PROVE ClientKept' /\ IdleBeforeNew'
  <2>1. /\ Goto(t, "reconnect") /\ UNCHANGED <<client, using>>
        /\ pc["main"] # "new"
    BY <1>11, SMT DEF Reconnect, Called, Ready, Registered
  <2> QED BY <1>type, <2>1, KeptMove, SMT
<1>12. ASSUME NEW t \in Worker, GenerateTemplate(t) PROVE ClientKept' /\ IdleBeforeNew'
  <2>1. /\ Goto(t, "generated") /\ UNCHANGED <<client, using>>
        /\ pc[t] # "idle"
    BY <1>12, SMT DEF GenerateTemplate
  <2> QED BY <1>type, <1>busy, <2>1, KeptMove, SMT
<1>update. ASSUME NEW t \in Worker, UpdateBlockTemplate(t) PROVE ClientKept' /\ IdleBeforeNew'
  <2>1. /\ Goto(t, "update") /\ UNCHANGED <<client, using>>
        /\ pc[t] # "idle"
    BY <1>update, SMT DEF UpdateBlockTemplate
  <2> QED BY <1>type, <1>busy, <2>1, KeptMove, SMT
<1>13. ASSUME NEW t \in Worker, GenerateFails(t) PROVE ClientKept' /\ IdleBeforeNew'
  <2>1. /\ Goto(t, "idle") /\ UNCHANGED <<client, using>>
        /\ pc[t] # "idle"
    BY <1>13, SMT DEF GenerateFails
  <2> QED BY <1>type, <1>busy, <2>1, KeptMove, SMT
<1>14. ASSUME NEW t \in Worker, FetchReturns(t) PROVE ClientKept' /\ IdleBeforeNew'
  <2>1. /\ Goto(t, "idle") /\ UNCHANGED <<client, using>>
        /\ pc[t] # "idle"
    BY <1>14, SMT DEF FetchReturns
  <2> QED BY <1>type, <1>busy, <2>1, KeptMove, SMT
<1>15. ASSUME NEW t \in Worker, CallFails(t) PROVE ClientKept' /\ IdleBeforeNew'
  <2>1. /\ Goto(t, "idle") /\ UNCHANGED <<client, using>>
        /\ pc[t] # "idle"
    BY <1>15, SMT DEF CallFails
  <2> QED BY <1>type, <1>busy, <2>1, KeptMove, SMT
<1>16. ASSUME NEW t \in Worker, SubmitReturns(t) PROVE ClientKept' /\ IdleBeforeNew'
  <2>1. /\ Goto(t, "idle") /\ UNCHANGED <<client, using>>
        /\ pc[t] # "idle"
    BY <1>16, SMT DEF SubmitReturns
  <2> QED BY <1>type, <1>busy, <2>1, KeptMove, SMT
<1>17. ASSUME NEW t \in Worker, LookReturns(t) PROVE ClientKept' /\ IdleBeforeNew'
  <2>1. /\ Goto(t, "idle") /\ UNCHANGED <<client, using>>
        /\ pc[t] # "idle"
    BY <1>17, SMT DEF LookReturns
  <2> QED BY <1>type, <1>busy, <2>1, KeptMove, SMT
<1>18. ASSUME NEW t \in Worker, StatusRunning(t) PROVE ClientKept' /\ IdleBeforeNew'
  <2>1. /\ Goto(t, "statusRunning") /\ UNCHANGED <<client, using>>
        /\ pc[t] # "idle"
    BY <1>18, SMT DEF StatusRunning
  <2> QED BY <1>type, <1>busy, <2>1, KeptMove, SMT
<1>19. ASSUME NEW t \in Worker, StatusReturns(t) PROVE ClientKept' /\ IdleBeforeNew'
  <2>1. /\ Goto(t, "idle") /\ UNCHANGED <<client, using>>
        /\ pc[t] # "idle"
    BY <1>19, SMT DEF StatusReturns
  <2> QED BY <1>type, <1>busy, <2>1, KeptMove, SMT
<1>20. ASSUME NEW t \in Worker, ReconnectRefused(t) PROVE ClientKept' /\ IdleBeforeNew'
  <2>1. /\ Goto(t, "idle") /\ UNCHANGED <<client, using>>
        /\ pc[t] # "idle"
    BY <1>20, SMT DEF ReconnectRefused
  <2> QED BY <1>type, <1>busy, <2>1, KeptMove, SMT
<1>21. ASSUME NEW t \in Worker, DialFails(t) PROVE ClientKept' /\ IdleBeforeNew'
  <2>1. /\ Goto(t, "idle") /\ UNCHANGED <<client, using>>
        /\ pc[t] # "idle"
    BY <1>21, SMT DEF DialFails
  <2> QED BY <1>type, <1>busy, <2>1, KeptMove, SMT
<1>22. ASSUME NEW t \in Worker, Spawn(t) PROVE ClientKept' /\ IdleBeforeNew'
  <2>1. /\ Goto(t, "idle") /\ UNCHANGED <<client, using>>
        /\ pc[t] # "idle"
    BY <1>22, SMT DEF Spawn
  <2> QED BY <1>type, <1>busy, <2>1, KeptMove, SMT
<1>23. ASSUME NEW t \in Worker, NEW c \in Client, Dial(t, c)
      PROVE  ClientKept' /\ IdleBeforeNew'
  <2>1. Goto(t, "spawn") /\ Writes(t, "pool") /\ pc[t] = "dial"
    BY <1>23, Zenon DEF Dial
  <2> QED BY <2>1, KeptWrite, Zenon
<1>24. ASSUME NEW t \in Worker, DropClient(t)
      PROVE  ClientKept' /\ IdleBeforeNew'
  <2>1. Goto(t, "dial") /\ Writes(t, "pool") /\ pc[t] = "reconnect"
    BY <1>24, Zenon DEF DropClient
  <2> QED BY <2>1, KeptWrite, Zenon
<1>25. ASSUME NEW t \in Worker, SetTemplate(t) PROVE ClientKept' /\ IdleBeforeNew'
  <2>1. client' = client /\ pc[t] # "idle"
    BY <1>25, SMT DEF SetTemplate
  <2>2. CASE client = "none"
    <3>1. Goto(t, "idle") /\ using' = using
      BY <1>25, <2>2, Zenon DEF SetTemplate
    <3> QED BY <1>type, <1>busy, <2>1, <3>1, KeptMove, SMT
  <2>3. CASE client # "none"
    <3>1. Goto(t, "fetch") /\ using' = [using EXCEPT ![t] = client]
      BY <1>25, <2>3, Zenon DEF SetTemplate, Send
    <3> QED BY <2>1, <3>1, KeptSend, Zenon
  <2> QED BY <2>2, <2>3
<1>26. ASSUME NEW t \in Worker, SubmitPow(t) PROVE ClientKept' /\ IdleBeforeNew'
  <2>1. client' = client /\ pc[t] # "idle"
    BY <1>26, SMT DEF SubmitPow
  <2>2. CASE client = "none"
    <3>1. Goto(t, "idle") /\ using' = using
      BY <1>26, <2>2, Zenon DEF SubmitPow
    <3> QED BY <1>type, <1>busy, <2>1, <3>1, KeptMove, SMT
  <2>3. CASE client # "none"
    <3>1. Goto(t, "submitting") /\ using' = [using EXCEPT ![t] = client]
      BY <1>26, <2>3, Zenon DEF SubmitPow, Send
    <3> QED BY <2>1, <3>1, KeptSend, Zenon
  <2> QED BY <2>2, <2>3
<1>27. ASSUME NEW l \in Lock, Grant(l) PROVE ClientKept' /\ IdleBeforeNew'
  BY <1>27, <1>rest, Zenon DEF Grant
<1>28. ASSUME NEW c \in Client, LoopTakes(c) PROVE ClientKept' /\ IdleBeforeNew'
  BY <1>28, <1>rest, Zenon DEF LoopTakes
<1>29. ASSUME NEW c \in Client, LoopStops(c) PROVE ClientKept' /\ IdleBeforeNew'
  BY <1>29, <1>rest, Zenon DEF LoopStops
<1>30. ASSUME NEW c \in Client, ConnBreaks(c) PROVE ClientKept' /\ IdleBeforeNew'
  BY <1>30, <1>rest, Zenon DEF ConnBreaks
<1>31. ASSUME UNCHANGED vars PROVE ClientKept' /\ IdleBeforeNew'
  BY <1>31, <1>rest, Zenon DEF vars
<1> QED
  BY <1>update, <1>1, <1>2, <1>3, <1>4, <1>5, <1>6, <1>7, <1>8, <1>9, <1>10, <1>11,
        <1>12, <1>13, <1>14, <1>15, <1>16, <1>17, <1>18, <1>19, <1>20, <1>21,
        <1>22, <1>23, <1>24, <1>25, <1>26, <1>27, <1>28, <1>29, <1>30, <1>31,
        Zenon
     DEF Next, Main, Call, Step

LEMMA KeptInit == Init => ClientKept /\ IdleBeforeNew
<1> SUFFICES ASSUME Init PROVE ClientKept /\ IdleBeforeNew
  OBVIOUS
<1>1. ClientKept
  BY SMT DEF Init, ClientKept, Task
<1>2. IdleBeforeNew
  BY TaskAssumption, Zenon DEF Init, IdleBeforeNew, Task, Worker
<1> QED BY <1>1, <1>2

(***************************************************************************)
(* A fetch or submission in progress always uses the pool's client:        *)
(* reconnecting waits for the guards of those who are using the old one.   *)
(***************************************************************************)
THEOREM ClientStays == Spec => []ClientKept
<1> DEFINE Inv == /\ TypeOK /\ LockExclusive /\ GuardsHeld /\ ClientKept
                  /\ IdleBeforeNew
<1>1. Init => Inv
  BY TypeInit, PoolInit, KeptInit DEF PoolInv
<1>2. Inv /\ [Next]_vars => Inv'
  BY TypeNext, LockNext, KeptNext
<1>3. Inv => ClientKept
  OBVIOUS
<1> QED BY <1>1, <1>2, <1>3, PTL DEF Spec

LEMMA SpawnersStay ==
  ASSUME TypeOK, NEW t \in Task, NEW label, Goto(t, label), label # "spawn",
         t \in Worker => pc[t] # "spawn",
         \A u \in Task : u # t => using'[u] = using[u]
  PROVE  \A c \in Client : Spawning(c)' = Spawning(c)
<1>1. /\ pc \in [Task -> Pc \cup MainPc] /\ \A u \in Worker : u \in Task
  BY Zenon DEF TypeOK, Task
<1>2. \A u \in Task : pc'[u] = IF u = t THEN label ELSE pc[u]
  BY <1>1, Zenon DEF Goto
<1> QED BY <1>1, <1>2, SMT DEF Spawning

\* A step that has no part in connections, their loops and their spawners.
LEMMA LoopsStay ==
  ASSUME LoopInv, \A c \in Client : Spawning(c)' = Spawning(c),
         spawned' = spawned,
         \A c \in Client : (conn'[c] = "none") <=> (conn[c] = "none"),
         Ready' <=> Ready, pc'["main"] = "new" => pc["main"] = "new",
         client' \in {client, "none"}, ~Ready => client' = client,
         ~Ready => \A t \in Worker : pc'[t] \notin {"reconnect", "dial", "spawn"}
  PROVE  LoopInv'
<1>1. QuietBeforeReady'
  BY Zenon DEF QuietBeforeReady, LoopInv
<1>2. ASSUME NEW c \in Client PROVE LoopAt(c)'
  <2>1. LoopAt(c) /\ Spawning(c)' = Spawning(c) /\ spawned' = spawned
    BY Zenon DEF LoopInv
  <2>2. client' = c => client = c
    BY ClientAssumption, SMT
  <2> QED BY <2>1, <2>2, Zenon DEF LoopAt
<1> QED BY <1>1, <1>2, Zenon DEF LoopInv

LEMMA LoopWorker ==
  ASSUME TypeOK, LoopInv, NEW t \in Worker, NEW label, Goto(t, label),
         label # "spawn", pc[t] # "spawn",
         label \in {"reconnect", "dial"} => Ready,
         \A u \in Task : u # t => using'[u] = using[u],
         UNCHANGED spawned,
         \A c \in Client : (conn'[c] = "none") <=> (conn[c] = "none"),
         client' \in {client, "none"}, ~Ready => client' = client
  PROVE  LoopInv'
<1>1. /\ pc \in [Task -> Pc \cup MainPc] /\ \A u \in Worker : u \in Task
      /\ "main" \in Task /\ t # "main"
  BY TaskAssumption, Zenon DEF TypeOK, Task, Worker
<1>2. \A u \in Task : pc'[u] = IF u = t THEN label ELSE pc[u]
  BY <1>1, Zenon DEF Goto
<1>3. pc'["main"] = pc["main"] /\ (Ready' <=> Ready)
  BY <1>1, <1>2, Zenon DEF Ready
<1>4. ~Ready => \A u \in Worker : pc'[u] \notin {"reconnect", "dial", "spawn"}
  BY <1>1, <1>2, SMT DEF LoopInv, QuietBeforeReady
<1>5. \A c \in Client : Spawning(c)' = Spawning(c)
  BY <1>1, SpawnersStay, Zenon
<1> QED BY <1>3, <1>4, <1>5, LoopsStay, Zenon

LEMMA LoopMain ==
  ASSUME TypeOK, LoopInv, NEW label, Goto("main", label),
         label \in {"start", "startRunning", "startPool", "failed"},
         ~Ready, UNCHANGED <<client, spawned, conn, using>>
  PROVE  LoopInv'
<1>1. /\ pc \in [Task -> Pc \cup MainPc] /\ \A u \in Worker : u \in Task
      /\ "main" \in Task /\ "main" \notin Worker
  BY TaskAssumption, Zenon DEF TypeOK, Task, Worker
<1>2. \A u \in Task : pc'[u] = IF u = "main" THEN label ELSE pc[u]
  BY <1>1, Zenon DEF Goto
<1>3. /\ pc'["main"] = label /\ label # "new" /\ label # "ready"
      /\ label # "spawn"
  BY <1>1, <1>2, SMT
<1>4. \A u \in Worker : pc'[u] = pc[u]
  BY <1>1, <1>2, Zenon
<1>5. \A c \in Client : Spawning(c)' = Spawning(c)
  BY <1>1, <1>3, SpawnersStay, Zenon
<1>6. \A u \in Worker : pc'[u] \notin {"reconnect", "dial", "spawn"}
  BY <1>4, Zenon DEF LoopInv, QuietBeforeReady
<1> QED BY <1>3, <1>5, <1>6, LoopsStay, Zenon DEF Ready

LEMMA LoopNewConnects ==
  ASSUME TypeOK, LoopInv, NEW d \in Client, NewConnects(d) PROVE LoopInv'
<1>1. /\ pc \in [Task -> Pc \cup MainPc] /\ \A u \in Worker : u \in Task
      /\ "main" \in Task /\ "main" \notin Worker
      /\ conn \in [Client -> {"none", "up", "down"}]
  BY TaskAssumption, Zenon DEF TypeOK, Task, Worker
<1>2. /\ pc["main"] = "new" /\ Goto("main", "start") /\ client' = d
      /\ conn' = [conn EXCEPT ![d] = "up"] /\ spawned' = spawned
      /\ using' = using
  BY Zenon DEF NewConnects, clientVars, taskVars
<1>3. /\ pc'["main"] = "start" /\ \A u \in Worker : pc'[u] = pc[u]
  BY <1>1, <1>2, Zenon DEF Goto
<1>4. \A c \in Client : Spawning(c)' = Spawning(c)
  BY <1>1, <1>2, SpawnersStay, Zenon
<1>5. ~Ready /\ ~Ready' /\ \A c \in Client : conn[c] = "none"
  BY <1>2, <1>3, Zenon DEF Ready, LoopInv, QuietBeforeReady
<1>6. QuietBeforeReady'
  BY <1>3, <1>5, Zenon DEF QuietBeforeReady, LoopInv
<1>7. ASSUME NEW c \in Client PROVE LoopAt(c)'
  <2>1. LoopAt(c) /\ Spawning(c)' = Spawning(c) /\ spawned'[c] = spawned[c]
    BY <1>2, <1>4, Zenon DEF LoopInv
  <2>2. spawned[c] = 0 /\ Spawning(c) = {}
    BY <1>5, <2>1, Zenon DEF LoopAt
  <2>3. conn'[c] # "none" => c = d
    BY <1>1, <1>2, <1>5, Zenon
  <2>4. conn'[d] = "up"
    BY <1>1, <1>2, Zenon
  <2> QED BY <1>2, <1>5, <2>1, <2>2, <2>3, <2>4, SMT DEF LoopAt
<1> QED BY <1>6, <1>7, Zenon DEF LoopInv

LEMMA LoopStart == ASSUME TypeOK, LoopInv, StartLoop PROVE LoopInv'
<1>1. /\ pc \in [Task -> Pc \cup MainPc] /\ \A u \in Worker : u \in Task
      /\ "main" \in Task /\ "main" \notin Worker
  BY TaskAssumption, Zenon DEF TypeOK, Task, Worker
<1>2. /\ pc["main"] = "startPool" /\ Goto("main", "ready")
      /\ UNCHANGED <<conn, using, client>>
      /\ spawned' = [c \in Client |-> spawned[c] + IF client = c THEN 1 ELSE 0]
  BY Zenon DEF StartLoop, poolVars
<1>3. pc'["main"] = "ready" /\ ~Ready /\ Ready'
  BY <1>1, <1>2, SMT DEF Goto, Ready
<1>4. \A c \in Client : Spawning(c)' = Spawning(c)
  BY <1>1, <1>2, SpawnersStay, Zenon
<1>5. QuietBeforeReady'
  BY <1>3, Zenon DEF QuietBeforeReady, Ready
<1>6. ASSUME NEW c \in Client PROVE LoopAt(c)'
  <2>1. LoopAt(c) /\ spawned[c] = 0
    BY <1>3, Zenon DEF LoopInv, LoopAt
  <2>2. Spawning(c) = {}
    BY <1>1, <1>3, Zenon DEF LoopInv, QuietBeforeReady, Spawning
  <2>3. spawned'[c] = IF client = c THEN 1 ELSE 0
    BY <1>2, <2>1, SMT
  <2>4. client = c => conn[c] # "none"
    BY <1>3, <2>1, Zenon DEF LoopAt
  <2> QED BY <1>2, <1>3, <1>4, <2>1, <2>2, <2>3, <2>4, SMT DEF LoopAt
<1> QED BY <1>5, <1>6, Zenon DEF LoopInv

LEMMA LoopDial ==
  ASSUME TypeOK, LoopInv, NEW t \in Worker, NEW d \in Client, Dial(t, d)
  PROVE  LoopInv'
<1>1. /\ pc \in [Task -> Pc \cup MainPc] /\ \A u \in Worker : u \in Task
      /\ "main" \in Task /\ t # "main" /\ using \in [Task -> Client]
      /\ conn \in [Client -> {"none", "up", "down"}]
  BY TaskAssumption, Zenon DEF TypeOK, Task, Worker
<1>2. /\ pc[t] = "dial" /\ Goto(t, "spawn") /\ client' = d
      /\ conn[d] = "none" /\ conn' = [conn EXCEPT ![d] = "up"]
      /\ using' = [using EXCEPT ![t] = d] /\ spawned' = spawned
  BY Zenon DEF Dial
<1>3. /\ \A u \in Task : pc'[u] = IF u = t THEN "spawn" ELSE pc[u]
      /\ \A u \in Task : using'[u] = IF u = t THEN d ELSE using[u]
      /\ \A c \in Client : conn'[c] = IF c = d THEN "up" ELSE conn[c]
  BY <1>1, <1>2, Zenon DEF Goto
<1>4. pc'["main"] = pc["main"] /\ Ready /\ Ready'
  BY <1>1, <1>2, <1>3, SMT DEF LoopInv, QuietBeforeReady, Ready
<1>5. QuietBeforeReady'
  BY <1>4, SMT DEF QuietBeforeReady, Ready
<1>6. ASSUME NEW c \in Client PROVE LoopAt(c)'
  <2>1. LoopAt(c)
    BY Zenon DEF LoopInv
  <2>2. CASE c = d
    <3>1. spawned[c] = 0 /\ Spawning(c) = {}
      BY <1>2, <2>1, <2>2, Zenon DEF LoopAt
    <3>2. \A u \in Spawning(c)' : u = t
      BY <1>1, <1>3, <2>2, <3>1, SMT DEF Spawning
    <3>3. t \in Spawning(c)'
      BY <1>1, <1>3, <2>2, SMT DEF Spawning
    <3>4. spawned'[c] = 0 /\ conn'[c] = "up"
      BY <1>2, <1>3, <2>2, <3>1, Zenon
    <3> QED BY <1>4, <3>2, <3>3, <3>4, SMT DEF LoopAt
  <2>3. CASE c # d
    <3>1. Spawning(c)' = Spawning(c)
      BY <1>1, <1>2, <1>3, <2>3, SMT DEF Spawning
    <3>2. conn'[c] = conn[c] /\ spawned'[c] = spawned[c] /\ client' # c
      BY <1>2, <1>3, <2>3, Zenon
    <3> QED BY <1>4, <2>1, <3>1, <3>2, Zenon DEF LoopAt
  <2> QED BY <2>2, <2>3
<1> QED BY <1>5, <1>6, Zenon DEF LoopInv

LEMMA LoopSpawn ==
  ASSUME TypeOK, LoopInv, NEW t \in Worker, Spawn(t) PROVE LoopInv'
<1>1. /\ pc \in [Task -> Pc \cup MainPc] /\ \A u \in Worker : u \in Task
      /\ "main" \in Task /\ t # "main" /\ using \in [Task -> Client]
      /\ spawned \in [Client -> Nat]
  BY TaskAssumption, Zenon DEF TypeOK, Task, Worker
<1>2. /\ pc[t] = "spawn" /\ Goto(t, "idle")
      /\ spawned' = [spawned EXCEPT ![using[t]] = spawned[using[t]] + 1]
      /\ UNCHANGED <<conn, using, client>>
  BY Zenon DEF Spawn, poolVars
<1>3. \A u \in Task : pc'[u] = IF u = t THEN "idle" ELSE pc[u]
  BY <1>1, <1>2, Zenon DEF Goto
<1>4. pc'["main"] = pc["main"] /\ Ready /\ Ready'
  BY <1>1, <1>2, <1>3, SMT DEF LoopInv, QuietBeforeReady, Ready
<1>5. QuietBeforeReady'
  BY <1>4, SMT DEF QuietBeforeReady, Ready
<1>6. ASSUME NEW c \in Client PROVE LoopAt(c)'
  <2>1. LoopAt(c)
    BY Zenon DEF LoopInv
  <2>2. CASE c = using[t]
    <3>1. t \in Spawning(c)
      BY <1>2, <2>2, SMT DEF Spawning
    <3>2. spawned[c] = 0 /\ conn[c] # "none" /\ \A u \in Spawning(c) : u = t
      BY <2>1, <3>1, Zenon DEF LoopAt
    <3>3. Spawning(c)' = {}
      BY <1>1, <1>2, <1>3, <3>2, SMT DEF Spawning
    <3>4. spawned'[c] = 1
      BY <1>1, <1>2, <2>2, <3>2, SMT
    <3> QED BY <1>2, <1>4, <3>2, <3>3, <3>4, SMT DEF LoopAt
  <2>3. CASE c # using[t]
    <3>1. Spawning(c)' = Spawning(c)
      BY <1>1, <1>2, <1>3, <2>3, SMT DEF Spawning
    <3>2. spawned'[c] = spawned[c] /\ conn'[c] = conn[c] /\ client' = client
      BY <1>1, <1>2, <2>3, Zenon
    <3> QED BY <1>4, <2>1, <3>1, <3>2, Zenon DEF LoopAt
  <2> QED BY <2>2, <2>3
<1> QED BY <1>5, <1>6, Zenon DEF LoopInv

LEMMA LoopNext ==
  ASSUME TypeOK, LoopInv, [Next]_vars PROVE LoopInv'
<1> USE DEF lockVars, poolVars, clientVars, taskVars
<1>rest. ASSUME UNCHANGED <<client, spawned, using, pc>>,
                \A c \in Client : (conn'[c] = "none") <=> (conn[c] = "none")
         PROVE  LoopInv'
  <2>1. \A c \in Client : Spawning(c)' = Spawning(c)
    BY <1>rest, Zenon DEF Spawning
  <2>2. ~Ready => \A t \in Worker : pc'[t] \notin {"reconnect", "dial", "spawn"}
    BY <1>rest, Zenon DEF LoopInv, QuietBeforeReady
  <2> QED BY <1>rest, <2>1, <2>2, LoopsStay, SMT DEF Ready
<1>moves. ASSUME NEW t \in Worker, NEW label, Goto(t, label),
                 label \notin {"reconnect", "dial", "spawn"}, pc[t] # "spawn",
                 UNCHANGED <<client, spawned, using, conn>>
          PROVE  LoopInv'
  <2>1. label # "spawn" /\ ~(label \in {"reconnect", "dial"})
    BY <1>moves, SMT
  <2> QED BY <1>moves, <2>1, LoopWorker, SMT
<1>1. CASE NewSolo
  <2>1. Goto("main", "start") /\ UNCHANGED <<client, spawned, conn, using>>
    BY <1>1, Zenon DEF NewSolo
  <2>2. ~Ready
    BY <1>1, SMT DEF NewSolo, Ready
  <2> QED BY <2>1, <2>2, LoopMain, SMT
<1>2. CASE NewFails
  <2>1. Goto("main", "failed") /\ UNCHANGED <<client, spawned, conn, using>>
    BY <1>2, Zenon DEF NewFails
  <2>2. ~Ready
    BY <1>2, SMT DEF NewFails, Ready
  <2> QED BY <2>1, <2>2, LoopMain, SMT
<1>3. CASE Start
  <2>1. Goto("main", "startRunning") /\ UNCHANGED <<client, spawned, conn, using>>
    BY <1>3, Zenon DEF Start
  <2>2. ~Ready
    BY <1>3, SMT DEF Start, Ready
  <2> QED BY <2>1, <2>2, LoopMain, SMT
<1>4. CASE StartRunning
  <2>1. Goto("main", "startPool") /\ UNCHANGED <<client, spawned, conn, using>>
    BY <1>4, Zenon DEF StartRunning
  <2>2. ~Ready
    BY <1>4, SMT DEF StartRunning, Ready
  <2> QED BY <2>1, <2>2, LoopMain, SMT
<1>5. CASE StartLoop
  BY <1>5, LoopStart, Zenon
<1>6. ASSUME NEW c \in Client, NewConnects(c) PROVE LoopInv'
  BY <1>6, LoopNewConnects, Zenon
<1>7. ASSUME NEW t \in Worker, HandleTemplateEvent(t) PROVE LoopInv'
  <2>1. Goto(t, "generate") /\ UNCHANGED <<client, spawned, using, conn>>
    BY <1>7, Zenon DEF HandleTemplateEvent
  <2>2. pc[t] # "spawn"
    BY <1>7, SMT DEF HandleTemplateEvent, Called
  <2> QED BY <2>1, <2>2, <1>moves, SMT
<1>8. ASSUME NEW t \in Worker, Submit(t) PROVE LoopInv'
  <2>1. Goto(t, "submit") /\ UNCHANGED <<client, spawned, using, conn>>
    BY <1>8, Zenon DEF Submit
  <2>2. pc[t] # "spawn"
    BY <1>8, SMT DEF Submit, Called
  <2> QED BY <2>1, <2>2, <1>moves, SMT
<1>9. ASSUME NEW t \in Worker, Look(t) PROVE LoopInv'
  <2>1. Goto(t, "look") /\ UNCHANGED <<client, spawned, using, conn>>
    BY <1>9, Zenon DEF Look
  <2>2. pc[t] # "spawn"
    BY <1>9, SMT DEF Look, Called
  <2> QED BY <2>1, <2>2, <1>moves, SMT
<1>10. ASSUME NEW t \in Worker, Status(t) PROVE LoopInv'
  <2>1. Goto(t, "status") /\ UNCHANGED <<client, spawned, using, conn>>
    BY <1>10, Zenon DEF Status
  <2>2. pc[t] # "spawn"
    BY <1>10, SMT DEF Status, Called
  <2> QED BY <2>1, <2>2, <1>moves, SMT
<1>11. ASSUME NEW t \in Worker, GenerateTemplate(t) PROVE LoopInv'
  <2>1. Goto(t, "generated") /\ UNCHANGED <<client, spawned, using, conn>>
    BY <1>11, Zenon DEF GenerateTemplate
  <2>2. pc[t] # "spawn"
    BY <1>11, SMT DEF GenerateTemplate
  <2> QED BY <2>1, <2>2, <1>moves, SMT
<1>update. ASSUME NEW t \in Worker, UpdateBlockTemplate(t) PROVE LoopInv'
  <2>1. Goto(t, "update") /\ UNCHANGED <<client, spawned, using, conn>>
    BY <1>update, Zenon DEF UpdateBlockTemplate
  <2>2. pc[t] # "spawn"
    BY <1>update, SMT DEF UpdateBlockTemplate
  <2> QED BY <2>1, <2>2, <1>moves, SMT
<1>12. ASSUME NEW t \in Worker, GenerateFails(t) PROVE LoopInv'
  <2>1. Goto(t, "idle") /\ UNCHANGED <<client, spawned, using, conn>>
    BY <1>12, Zenon DEF GenerateFails
  <2>2. pc[t] # "spawn"
    BY <1>12, SMT DEF GenerateFails
  <2> QED BY <2>1, <2>2, <1>moves, SMT
<1>13. ASSUME NEW t \in Worker, FetchReturns(t) PROVE LoopInv'
  <2>1. Goto(t, "idle") /\ UNCHANGED <<client, spawned, using, conn>>
    BY <1>13, Zenon DEF FetchReturns
  <2>2. pc[t] # "spawn"
    BY <1>13, SMT DEF FetchReturns
  <2> QED BY <2>1, <2>2, <1>moves, SMT
<1>14. ASSUME NEW t \in Worker, CallFails(t) PROVE LoopInv'
  <2>1. Goto(t, "idle") /\ UNCHANGED <<client, spawned, using, conn>>
    BY <1>14, Zenon DEF CallFails
  <2>2. pc[t] # "spawn"
    BY <1>14, SMT DEF CallFails
  <2> QED BY <2>1, <2>2, <1>moves, SMT
<1>15. ASSUME NEW t \in Worker, SubmitReturns(t) PROVE LoopInv'
  <2>1. Goto(t, "idle") /\ UNCHANGED <<client, spawned, using, conn>>
    BY <1>15, Zenon DEF SubmitReturns
  <2>2. pc[t] # "spawn"
    BY <1>15, SMT DEF SubmitReturns
  <2> QED BY <2>1, <2>2, <1>moves, SMT
<1>16. ASSUME NEW t \in Worker, LookReturns(t) PROVE LoopInv'
  <2>1. Goto(t, "idle") /\ UNCHANGED <<client, spawned, using, conn>>
    BY <1>16, Zenon DEF LookReturns
  <2>2. pc[t] # "spawn"
    BY <1>16, SMT DEF LookReturns
  <2> QED BY <2>1, <2>2, <1>moves, SMT
<1>17. ASSUME NEW t \in Worker, StatusRunning(t) PROVE LoopInv'
  <2>1. Goto(t, "statusRunning") /\ UNCHANGED <<client, spawned, using, conn>>
    BY <1>17, Zenon DEF StatusRunning
  <2>2. pc[t] # "spawn"
    BY <1>17, SMT DEF StatusRunning
  <2> QED BY <2>1, <2>2, <1>moves, SMT
<1>18. ASSUME NEW t \in Worker, StatusReturns(t) PROVE LoopInv'
  <2>1. Goto(t, "idle") /\ UNCHANGED <<client, spawned, using, conn>>
    BY <1>18, Zenon DEF StatusReturns
  <2>2. pc[t] # "spawn"
    BY <1>18, SMT DEF StatusReturns
  <2> QED BY <2>1, <2>2, <1>moves, SMT
<1>19. ASSUME NEW t \in Worker, ReconnectRefused(t) PROVE LoopInv'
  <2>1. Goto(t, "idle") /\ UNCHANGED <<client, spawned, using, conn>>
    BY <1>19, Zenon DEF ReconnectRefused
  <2>2. pc[t] # "spawn"
    BY <1>19, SMT DEF ReconnectRefused
  <2> QED BY <2>1, <2>2, <1>moves, SMT
<1>20. ASSUME NEW t \in Worker, DialFails(t) PROVE LoopInv'
  <2>1. Goto(t, "idle") /\ UNCHANGED <<client, spawned, using, conn>>
    BY <1>20, Zenon DEF DialFails
  <2>2. pc[t] # "spawn"
    BY <1>20, SMT DEF DialFails
  <2> QED BY <2>1, <2>2, <1>moves, SMT
<1>21. ASSUME NEW t \in Worker, Reconnect(t), t \in Operator PROVE LoopInv'
  <2>1. Goto(t, "reconnect") /\ UNCHANGED <<client, spawned, using, conn>>
    BY <1>21, Zenon DEF Reconnect
  <2>2. pc[t] # "spawn" /\ Ready
    BY <1>21, TaskAssumption, SMT DEF Reconnect, Called
  <2> QED BY <2>1, <2>2, LoopWorker, SMT
<1>22. ASSUME NEW t \in Worker, DropClient(t) PROVE LoopInv'
  <2>1. Goto(t, "dial") /\ UNCHANGED <<spawned, using>> /\ client' = "none"
    BY <1>22, Zenon DEF DropClient
  <2>2. pc[t] = "reconnect"
    BY <1>22, Zenon DEF DropClient
  <2>3. Ready
    BY <2>2, SMT DEF LoopInv, QuietBeforeReady
  <2>4. ASSUME NEW c \in Client PROVE (conn'[c] = "none") <=> (conn[c] = "none")
    <3>1. \/ conn'[c] = conn[c]
          \/ c = client /\ conn'[c] = "down"
      BY <1>22, SMT DEF DropClient
    <3>2. c = client => conn[c] # "none"
      BY Zenon DEF LoopInv, LoopAt
    <3> QED BY <3>1, <3>2, SMT
  <2> QED BY <2>1, <2>2, <2>3, <2>4, LoopWorker, SMT
<1>23. ASSUME NEW t \in Worker, NEW c \in Client, Dial(t, c) PROVE LoopInv'
  BY <1>23, LoopDial, Zenon
<1>24. ASSUME NEW t \in Worker, Spawn(t) PROVE LoopInv'
  BY <1>24, LoopSpawn, Zenon
<1>25. ASSUME NEW t \in Worker, SetTemplate(t) PROVE LoopInv'
  <2>1. UNCHANGED <<client, spawned, conn>> /\ pc[t] = "update"
    BY <1>25, Zenon DEF SetTemplate
  <2>2. \/ Goto(t, "idle") /\ using' = using
        \/ Goto(t, "fetch") /\ using' = [using EXCEPT ![t] = client]
    BY <1>25, Zenon DEF SetTemplate, Send
  <2>3. \A u \in Task : u # t => using'[u] = using[u]
    BY <2>2, Zenon DEF TypeOK
  <2> QED BY <2>1, <2>2, <2>3, LoopWorker, SMT
<1>26. ASSUME NEW t \in Worker, SubmitPow(t) PROVE LoopInv'
  <2>1. UNCHANGED <<client, spawned, conn>> /\ pc[t] = "submit"
    BY <1>26, Zenon DEF SubmitPow
  <2>2. \/ Goto(t, "idle") /\ using' = using
        \/ Goto(t, "submitting") /\ using' = [using EXCEPT ![t] = client]
    BY <1>26, Zenon DEF SubmitPow, Send
  <2>3. \A u \in Task : u # t => using'[u] = using[u]
    BY <2>2, Zenon DEF TypeOK
  <2> QED BY <2>1, <2>2, <2>3, LoopWorker, SMT
<1>27. ASSUME NEW l \in Lock, Grant(l) PROVE LoopInv'
  BY <1>27, <1>rest, Zenon DEF Grant
<1>28. ASSUME NEW c \in Client, LoopTakes(c) PROVE LoopInv'
  BY <1>28, <1>rest, Zenon DEF LoopTakes
<1>29. ASSUME NEW c \in Client, LoopStops(c) PROVE LoopInv'
  <2>1. conn \in [Client -> {"none", "up", "down"}] /\ spawned \in [Client -> Nat]
        /\ stopped \in [Client -> Nat]
    BY Zenon DEF TypeOK
  <2>2. spawned[c] # 0
    BY <1>29, <2>1, SMT DEF LoopStops, Looping
  <2>3. conn[c] # "none"
    BY <2>2, Zenon DEF LoopInv, LoopAt
  <2>4. conn' = conn \/ conn' = [conn EXCEPT ![c] = "down"]
    BY <1>29, Zenon DEF LoopStops
  <2>5. \A d \in Client : (conn'[d] = "none") <=> (conn[d] = "none")
    BY <2>1, <2>3, <2>4, SMT
  <2> QED BY <1>29, <2>5, <1>rest, Zenon DEF LoopStops
<1>30. ASSUME NEW c \in Client, ConnBreaks(c) PROVE LoopInv'
  <2>1. /\ conn \in [Client -> {"none", "up", "down"}] /\ conn[c] = "up"
        /\ conn' = [conn EXCEPT ![c] = "down"]
    BY <1>30, Zenon DEF ConnBreaks, TypeOK
  <2>2. \A d \in Client : (conn'[d] = "none") <=> (conn[d] = "none")
    BY <2>1, SMT
  <2> QED BY <1>30, <2>2, <1>rest, Zenon DEF ConnBreaks
<1>31. CASE UNCHANGED vars
  BY <1>31, <1>rest, Zenon DEF vars
<1> QED
  BY <1>update, <1>1, <1>2, <1>3, <1>4, <1>5, <1>6, <1>7, <1>8, <1>9, <1>10, <1>11,
        <1>12, <1>13, <1>14, <1>15, <1>16, <1>17, <1>18, <1>19, <1>20,
        <1>21, <1>22, <1>23, <1>24, <1>25, <1>26, <1>27, <1>28, <1>29,
        <1>30, <1>31,
        Zenon
     DEF Next, Main, Call, Step

LEMMA LoopInit == Init => LoopInv
<1> SUFFICES ASSUME Init PROVE LoopInv
  OBVIOUS
<1>1. /\ conn = [c \in Client |-> "none"] /\ spawned = [c \in Client |-> 0]
      /\ client = "none"
      /\ pc = [t \in Task |-> IF t = "main" THEN "new" ELSE "idle"]
  BY Zenon DEF Init
<1>2. ~Ready /\ \A t \in Worker : pc[t] = "idle"
  BY <1>1, TaskAssumption, SMT DEF Ready, Task, Worker
<1>3. QuietBeforeReady
  BY <1>1, <1>2, SMT DEF QuietBeforeReady
<1>4. ASSUME NEW c \in Client PROVE LoopAt(c)
  <2>1. Spawning(c) = {} /\ spawned[c] = 0 /\ conn[c] = "none" /\ client # c
    BY <1>1, <1>2, ClientAssumption, SMT DEF Spawning
  <2> QED BY <1>2, <2>1, SMT DEF LoopAt
<1> QED BY <1>3, <1>4, Zenon DEF LoopInv

(***************************************************************************)
(* start and reconnect_pool, whoever else reconnects in between, spawn one *)
(* receive loop for every connection that is made.                         *)
(***************************************************************************)
THEOREM LoopsCorrect == Spec => []LoopPerClient
<1> DEFINE Inv == TypeOK /\ LoopInv
<1>1. Init => Inv
  BY TypeInit, LoopInit
<1>2. Inv /\ [Next]_vars => Inv'
  BY TypeNext, LoopNext
<1>3. Inv => LoopPerClient
  <2> SUFFICES ASSUME Inv, NEW c \in Client
               PROVE  /\ spawned[c] + Cardinality(Spawning(c)) <= 1
                      /\ conn[c] # "none" /\ Ready =>
                           spawned[c] + Cardinality(Spawning(c)) = 1
    BY Zenon DEF LoopPerClient
  <2>1. LoopAt(c)
    BY Zenon DEF LoopInv
  <2>2. CASE Spawning(c) = {}
    <3>1. Cardinality(Spawning(c)) = 0
      BY <2>2, FS_EmptySet, Zenon
    <3> QED BY <2>1, <2>2, <3>1, SMT DEF LoopAt
  <2>3. CASE Spawning(c) # {}
    <3>1. PICK t : Spawning(c) = {t}
      BY <2>1, <2>3, SMT DEF LoopAt
    <3>2. Cardinality(Spawning(c)) = 1
      BY <3>1, FS_Singleton, Zenon
    <3> QED BY <2>1, <2>3, <3>2, SMT DEF LoopAt
  <2> QED BY <2>2, <2>3
<1> QED BY <1>1, <1>2, <1>3, PTL DEF Spec

(***************************************************************************)
(* DatumServer uses the pool as a SequentialPool.  A step of the server is *)
(* one step of it, or none: set_template and reconnect take effect when    *)
(* they let go of the write guard.  What that rests on: between methods    *)
(* the board is the pool, and a method that is under way has changed only  *)
(* what is its own to change.                                              *)
(***************************************************************************)
Implements == [Sequential!Next]_(Sequential!vars)

BoardInv ==
  /\ board \in [client : Client \cup {"none"}, template : Nat, coinbase : Nat]
  /\ ~Updating => board = Pool
  /\ \A t \in Worker :
       /\ pc[t] = "fetch" => board.client = client /\ board.coinbase = coinbase
       /\ pc[t] = "dial" => /\ client = "none" /\ board.template = template
                            /\ board.coinbase = coinbase

\* A reader of the pool, or its writer, finds it between two methods.
LEMMA ReaderAlone ==
  ASSUME LockExclusive, GuardsHeld, BoardInv, NEW t, Reads(t, "pool")
  PROVE  ~Updating /\ board = Pool
<1>1. t \in readers["pool"] /\ "pool" \in Lock
  BY Zenon DEF Reads, Lock
<1>2. writer["pool"] = {}
  BY <1>1, SMT DEF LockExclusive
<1>3. ~Updating
  BY <1>2, SMT DEF Updating, GuardsHeld, Writes
<1> QED BY <1>3, Zenon DEF BoardInv

LEMMA WriterStarts ==
  ASSUME LockExclusive, GuardsHeld, BoardInv, NEW t \in Worker,
         Writes(t, "pool"), pc[t] \notin {"fetch", "dial"}
  PROVE  ~Updating /\ board = Pool
<1>1. ~Updating
  BY WriterAlone, SMT DEF Updating
<1> QED BY <1>1, Zenon DEF BoardInv

\* A method that ends leaves the pool to the next one.
LEMMA WriterEnds ==
  ASSUME TypeOK, LockExclusive, GuardsHeld, NEW t \in Worker,
         Writes(t, "pool"), NEW label, Goto(t, label),
         label \notin {"fetch", "dial"}
  PROVE  ~Updating'
<1>1. pc \in [Task -> Pc \cup MainPc] /\ \A u \in Worker : u \in Task
  BY Zenon DEF TypeOK, Task
<1>2. \A u \in Task : pc'[u] = IF u = t THEN label ELSE pc[u]
  BY <1>1, Zenon DEF Goto
<1>3. \A u \in Worker : pc[u] \in {"fetch", "dial"} => u = t
  BY WriterAlone, SMT
<1> QED BY <1>1, <1>2, <1>3, SMT DEF Updating

LEMMA NobodyReads ==
  ASSUME TypeOK, NEW t \in Task, NEW label, Goto(t, label),
         t \in Worker => pc[t] \notin {"look", "status"}
  PROVE  ~\E u \in Worker : Reading(u)
<1>1. pc \in [Task -> Pc \cup MainPc] /\ \A u \in Worker : u \in Task
  BY Zenon DEF TypeOK, Task
<1>2. \A u \in Task : u # t => pc'[u] = pc[u]
  BY <1>1, Zenon DEF Goto
<1>3. \A u \in Worker : Reading(u) => pc'[u] # pc[u] /\ pc[u] \in {"look", "status"}
  BY SMT DEF Reading
<1> QED BY <1>1, <1>2, <1>3, Zenon

LEMMA FreshStays ==
  ASSUME \A c \in Client : (conn'[c] = "none") <=> (conn[c] = "none")
  PROVE  Fresh' = Fresh
BY Zenon DEF Fresh

(***************************************************************************)
(* The steps that leave the pool alone.                                    *)
(***************************************************************************)
LEMMA BoardStays ==
  ASSUME BoardInv, Record, ~\E u \in Worker : Reading(u),
         UNCHANGED <<client, template, coinbase, failed>>, Fresh' = Fresh,
         \A u \in Worker :
           pc[u] \in {"fetch", "dial"} \/ pc'[u] \in {"fetch", "dial"} =>
             pc'[u] = pc[u]
  PROVE  BoardInv' /\ Implements
<1>1. Updating' <=> Updating
  BY SMT DEF Updating
<1>2. Pool' = Pool /\ Distrusted' = Distrusted
  BY Zenon DEF Pool, Distrusted
<1>3. UNCHANGED <<board, seen>>
  BY <1>1, <1>2, Zenon DEF BoardInv, Record
<1>4. BoardInv'
  BY <1>1, <1>2, <1>3, SMT DEF BoardInv
<1> QED BY <1>2, <1>3, <1>4, Zenon DEF Implements, Sequential!vars

LEMMA MoveStays ==
  ASSUME TypeOK, BoardInv, Record, NEW t \in Task, NEW label, Goto(t, label),
         t \in Worker => pc[t] \notin {"fetch", "dial", "look", "status"},
         label \notin {"fetch", "dial"},
         UNCHANGED <<client, template, coinbase, failed>>,
         \A c \in Client : (conn'[c] = "none") <=> (conn[c] = "none")
  PROVE  BoardInv' /\ Implements
<1>1. pc \in [Task -> Pc \cup MainPc] /\ \A u \in Worker : u \in Task
  BY Zenon DEF TypeOK, Task
<1>2. \A u \in Task : pc'[u] = IF u = t THEN label ELSE pc[u]
  BY <1>1, Zenon DEF Goto
<1>3. \A u \in Worker : pc[u] \in {"fetch", "dial"} \/ pc'[u] \in {"fetch", "dial"} =>
             pc'[u] = pc[u]
  BY <1>1, <1>2, SMT
<1>4. ~\E u \in Worker : Reading(u)
  BY NobodyReads, SMT
<1> QED BY <1>3, <1>4, FreshStays, BoardStays, Zenon

\* A step without a task.
LEMMA OthersStay ==
  ASSUME BoardInv, Record, UNCHANGED <<client, template, coinbase, failed, pc>>,
         \A c \in Client : (conn'[c] = "none") <=> (conn[c] = "none")
  PROVE  BoardInv' /\ Implements
<1>1. ~\E u \in Worker : Reading(u)
  BY SMT DEF Reading
<1> QED BY <1>1, FreshStays, BoardStays, Zenon

(***************************************************************************)
(* Reading the pool.                                                       *)
(***************************************************************************)
LEMMA LookStep ==
  ASSUME TypeOK, LockExclusive, GuardsHeld, BoardInv, Record, NEW t \in Worker,
         Reads(t, "pool"), NEW label, Goto(t, label),
         label \notin {"fetch", "dial"}, Reading(t),
         UNCHANGED <<client, template, coinbase, failed, conn>>
  PROVE  BoardInv' /\ Implements
<1>1. pc \in [Task -> Pc \cup MainPc] /\ \A u \in Worker : u \in Task
  BY Zenon DEF TypeOK, Task
<1>2. \A u \in Task : pc'[u] = IF u = t THEN label ELSE pc[u]
  BY <1>1, Zenon DEF Goto
<1>3. ~Updating /\ board = Pool
  BY ReaderAlone, Zenon
<1>4. ~Updating'
  BY <1>1, <1>2, <1>3, SMT DEF Updating
<1>5. Pool' = Pool /\ Distrusted' = Distrusted /\ Fresh' = Fresh
  BY Zenon DEF Pool, Distrusted, Fresh
<1>6. board' = board /\ seen' = board
  BY <1>3, <1>4, <1>5, Zenon DEF Record
<1>7. BoardInv'
  BY <1>3, <1>4, <1>5, <1>6, SMT DEF BoardInv, Updating
<1> QED BY <1>5, <1>6, <1>7, Zenon DEF Implements, Sequential!Next, Sequential!Look

(***************************************************************************)
(* set_template, from the template to the coinbase.                        *)
(***************************************************************************)
LEMMA SetTemplateServes ==
  ASSUME TypeOK, PoolInv, BoardInv, Record, NEW t \in Worker, SetTemplate(t)
  PROVE  BoardInv' /\ Implements
<1>1. LockExclusive /\ GuardsHeld
  BY Zenon DEF PoolInv
<1>2. /\ pc[t] = "update" /\ Writes(t, "pool") /\ template' = job[t]
      /\ UNCHANGED <<client, coinbase, failed, conn>>
  BY Zenon DEF SetTemplate
<1>3. /\ pc \in [Task -> Pc \cup MainPc] /\ t \in Task /\ job[t] \in Nat
      /\ client \in Client \cup {"none"} /\ coinbase \in Nat
      /\ \A u \in Worker : u \in Task
  BY Zenon DEF TypeOK, Task
<1>4. ~Updating /\ board = Pool
  BY <1>1, <1>2, WriterStarts, SMT
<1>5. Distrusted' = Distrusted /\ Fresh' = Fresh
  BY <1>2, Zenon DEF Distrusted, Fresh
<1>6. CASE client = "none"
  <2>1. Goto(t, "idle")
    BY <1>6, Zenon DEF SetTemplate
  <2>2. ~Updating'
    BY <1>1, <1>2, <2>1, WriterEnds, SMT
  <2>3. ~\E u \in Worker : Reading(u)
    BY <1>2, <1>3, <2>1, NobodyReads, SMT
  <2>4. board' = Pool' /\ seen' = seen
    BY <2>2, <2>3, Zenon DEF Record
  <2>5. /\ board' = [client |-> "none", template |-> job[t],
                     coinbase |-> board.coinbase]
        /\ board.client = "none"
    BY <1>2, <1>4, <1>6, <2>4, SMT DEF Pool
  <2>6. Sequential!SetTemplateSolo
    BY <1>3, <1>5, <2>4, <2>5, SMT DEF Sequential!SetTemplateSolo
  <2>7. BoardInv'
    BY <1>2, <1>3, <2>2, <2>4, SMT DEF BoardInv, Updating, Pool
  <2> QED BY <2>6, <2>7, Zenon DEF Implements, Sequential!Next
<1>7. CASE client # "none"
  <2>1. Goto(t, "fetch")
    BY <1>7, Zenon DEF SetTemplate
  <2>2. \A u \in Task : pc'[u] = IF u = t THEN "fetch" ELSE pc[u]
    BY <1>3, <2>1, Zenon DEF Goto
  <2>3. Updating' /\ \A u \in Worker : pc'[u] \in {"fetch", "dial"} => u = t
    BY <1>3, <1>4, <2>2, SMT DEF Updating
  <2>4. ~\E u \in Worker : Reading(u)
    BY <1>2, <1>3, <2>1, NobodyReads, SMT
  <2>5. UNCHANGED <<board, seen>>
    BY <2>3, <2>4, Zenon DEF Record
  <2>6. /\ board.client = client /\ board.coinbase = coinbase
    BY <1>4, SMT DEF Pool
  <2>7. BoardInv'
    BY <1>2, <1>3, <2>2, <2>3, <2>5, <2>6, SMT DEF BoardInv
  <2> QED BY <1>5, <2>5, <2>7, Zenon DEF Implements, Sequential!vars
<1> QED BY <1>6, <1>7

LEMMA FetchServes ==
  ASSUME TypeOK, PoolInv, ClientKept, BoardInv, Record, NEW t \in Worker,
         FetchReturns(t)
  PROVE  BoardInv' /\ Implements
<1> PICK d : d = using[t]
  BY Zenon
<1>1. LockExclusive /\ GuardsHeld /\ \A c \in Client : OwedAt(c)
  BY Zenon DEF PoolInv
<1>2. /\ pc[t] = "fetch" /\ owed[d] # <<>> /\ Head(owed[d]) # Pow
      /\ coinbase' = Head(owed[d]) /\ Goto(t, "idle")
      /\ UNCHANGED <<client, template, failed, conn>>
  BY Zenon DEF FetchReturns
<1>3. /\ pc \in [Task -> Pc \cup MainPc] /\ t \in Task /\ d \in Client
      /\ owed \in [Client -> Seq(Answer)] /\ template \in Nat
      /\ client \in Client \cup {"none"}
      /\ \A u \in Worker : u \in Task
  BY Zenon DEF TypeOK, Task
<1>4. Head(owed[d]) \in Nat
  <2>1. Head(owed[d]) \in Answer
    BY <1>2, <1>3, HeadTail, Zenon
  <2> QED BY <1>2, <2>1, Zenon DEF Answer
<1>5. client = d /\ client # "none"
  BY <1>2, <1>3, ClientAssumption, SMT DEF ClientKept
<1>6. ~failed[d] => Head(owed[d]) = template
  <2>1. owed[d] \in Seq(Answer)
    BY <1>3, Zenon
  <2>2. ~failed[d] => OneFetch(owed[d], template)
    BY <1>1, <1>2, <1>3, <2>1, TailOfFetches, Zenon DEF OwedAt
  <2> QED BY <1>2, <2>1, <2>2, TailOfFetches, Zenon
<1>7. Writes(t, "pool") /\ board.client = client /\ board.coinbase = coinbase
  BY <1>1, <1>2, SMT DEF GuardsHeld, BoardInv
<1>8. ~Updating'
  BY <1>1, <1>2, <1>7, WriterEnds, SMT
<1>9. ~\E u \in Worker : Reading(u)
  BY <1>2, <1>3, NobodyReads, SMT
<1>10. board' = Pool' /\ seen' = seen
  BY <1>8, <1>9, Zenon DEF Record
<1>11. board' = [client |-> d, template |-> template, coinbase |-> Head(owed[d])]
  BY <1>2, <1>5, <1>10, Zenon DEF Pool
<1>12. Distrusted' = Distrusted /\ Fresh' = Fresh
  BY <1>2, Zenon DEF Distrusted, Fresh
<1>13. d \notin Distrusted => Head(owed[d]) = template
  BY <1>3, <1>6, Zenon DEF Distrusted
<1>14. Sequential!SetTemplate
  BY <1>3, <1>4, <1>5, <1>7, <1>10, <1>11, <1>12, <1>13, SMT
     DEF Sequential!SetTemplate
<1>15. BoardInv'
  BY <1>2, <1>3, <1>4, <1>8, <1>10, SMT DEF BoardInv, Updating, Pool
<1> QED BY <1>14, <1>15, Zenon DEF Implements, Sequential!Next

\* A call that fails, of set_template or of submit_pow.
LEMMA CallFailsServes ==
  ASSUME TypeOK, PoolInv, ClientKept, BoardInv, Record, NEW t \in Worker,
         CallFails(t)
  PROVE  BoardInv' /\ Implements
<1> PICK d : d = using[t]
  BY Zenon
<1>1. LockExclusive /\ GuardsHeld
  BY Zenon DEF PoolInv
<1>2. /\ pc[t] \in {"fetch", "submitting"} /\ Goto(t, "idle")
      /\ failed' = [failed EXCEPT ![d] = TRUE]
      /\ UNCHANGED <<client, template, coinbase, conn>>
  BY Zenon DEF CallFails, poolVars
<1>3. /\ pc \in [Task -> Pc \cup MainPc] /\ t \in Task /\ d \in Client
      /\ failed \in [Client -> BOOLEAN] /\ template \in Nat /\ coinbase \in Nat
      /\ client \in Client \cup {"none"}
      /\ \A u \in Worker : u \in Task
  BY Zenon DEF TypeOK, Task
<1>4. client = d /\ client # "none"
  BY <1>2, <1>3, ClientAssumption, SMT DEF ClientKept
<1>5. Distrusted' = Distrusted \cup {d}
  <2>1. \A c \in Client : failed'[c] = IF c = d THEN TRUE ELSE failed[c]
    BY <1>2, <1>3, Zenon
  <2> QED BY <1>3, <2>1, Zenon DEF Distrusted
<1>6. Fresh' = Fresh
  BY <1>2, Zenon DEF Fresh
<1>7. ~\E u \in Worker : Reading(u)
  BY <1>2, <1>3, NobodyReads, SMT
<1>8. CASE pc[t] = "fetch"
  <2>1. Writes(t, "pool") /\ board.client = client /\ board.coinbase = coinbase
    BY <1>1, <1>8, SMT DEF GuardsHeld, BoardInv
  <2>2. ~Updating'
    BY <1>1, <1>2, <2>1, WriterEnds, SMT
  <2>3. board' = Pool' /\ seen' = seen
    BY <1>7, <2>2, Zenon DEF Record
  <2>4. board' = [client |-> d, template |-> template, coinbase |-> coinbase]
    BY <1>2, <1>4, <2>3, Zenon DEF Pool
  <2>5. Sequential!SetTemplateFails
    BY <1>3, <1>4, <1>5, <1>6, <2>1, <2>3, <2>4, SMT
       DEF Sequential!SetTemplateFails
  <2>6. BoardInv'
    BY <1>2, <1>3, <2>2, <2>3, SMT DEF BoardInv, Updating, Pool
  <2> QED BY <2>5, <2>6, Zenon DEF Implements, Sequential!Next
<1>9. CASE pc[t] = "submitting"
  <2>1. Reads(t, "pool")
    BY <1>1, <1>9, SMT DEF GuardsHeld
  <2>2. ~Updating /\ board = Pool
    BY <1>1, <2>1, ReaderAlone, Zenon
  <2>3. ~Updating'
    BY <1>2, <1>3, <2>2, SMT DEF Updating, Goto
  <2>4. board' = board /\ seen' = seen
    BY <1>2, <1>7, <2>2, <2>3, Zenon DEF Record, Pool
  <2>5. board.client = d
    BY <1>4, <2>2, Zenon DEF Pool
  <2>6. Sequential!SubmitFails
    BY <1>4, <1>5, <1>6, <2>4, <2>5, Zenon DEF Sequential!SubmitFails
  <2>7. BoardInv'
    BY <1>2, <2>2, <2>3, <2>4, SMT DEF BoardInv, Updating, Pool
  <2> QED BY <2>6, <2>7, Zenon DEF Implements, Sequential!Next
<1> QED BY <1>2, <1>8, <1>9, SMT

(***************************************************************************)
(* connect and reconnect.                                                  *)
(***************************************************************************)
LEMMA DropClientServes ==
  ASSUME TypeOK, PoolInv, LoopInv, BoardInv, Record, NEW t \in Worker,
         DropClient(t)
  PROVE  BoardInv' /\ Implements
<1>1. LockExclusive /\ GuardsHeld
  BY Zenon DEF PoolInv
<1>2. /\ pc[t] = "reconnect" /\ Writes(t, "pool") /\ client' = "none"
      /\ Goto(t, "dial") /\ UNCHANGED <<coinbase, template, failed>>
  BY Zenon DEF DropClient
<1>3. /\ pc \in [Task -> Pc \cup MainPc] /\ t \in Task
      /\ \A u \in Worker : u \in Task
  BY Zenon DEF TypeOK, Task
<1>4. ~Updating /\ board = Pool
  BY <1>1, <1>2, WriterStarts, SMT
<1>5. \A u \in Task : pc'[u] = IF u = t THEN "dial" ELSE pc[u]
  BY <1>2, <1>3, Zenon DEF Goto
<1>6. Updating' /\ \A u \in Worker : pc'[u] \in {"fetch", "dial"} => u = t
  BY <1>3, <1>4, <1>5, SMT DEF Updating
<1>7. ~\E u \in Worker : Reading(u)
  BY <1>2, <1>3, NobodyReads, SMT
<1>8. UNCHANGED <<board, seen>>
  BY <1>6, <1>7, Zenon DEF Record
<1>9. board.template = template /\ board.coinbase = coinbase
  BY <1>4, SMT DEF Pool
<1>10. BoardInv'
  BY <1>2, <1>3, <1>5, <1>6, <1>8, <1>9, SMT DEF BoardInv
<1>11. ASSUME NEW c \in Client PROVE (conn'[c] = "none") <=> (conn[c] = "none")
  <2>1. \/ conn'[c] = conn[c]
        \/ c = client /\ conn'[c] = "down"
    BY SMT DEF DropClient
  <2>2. c = client => conn[c] # "none"
    BY Zenon DEF LoopInv, LoopAt
  <2> QED BY <2>1, <2>2, SMT
<1>12. Fresh' = Fresh /\ Distrusted' = Distrusted
  BY <1>2, <1>11, FreshStays, Zenon DEF Distrusted
<1> QED BY <1>8, <1>10, <1>12, Zenon DEF Implements, Sequential!vars

LEMMA DialFailsServes ==
  ASSUME TypeOK, PoolInv, BoardInv, Record, NEW t \in Worker, DialFails(t)
  PROVE  BoardInv' /\ Implements
<1>1. LockExclusive /\ GuardsHeld
  BY Zenon DEF PoolInv
<1>2. /\ pc[t] = "dial" /\ Writes(t, "pool") /\ Goto(t, "idle")
      /\ UNCHANGED <<client, coinbase, template, failed, conn>>
  BY Zenon DEF DialFails, poolVars, clientVars
<1>3. t \in Task /\ template \in Nat /\ coinbase \in Nat
  BY Zenon DEF TypeOK, Task
<1>4. ~Updating'
  BY <1>1, <1>2, WriterEnds, SMT
<1>5. ~\E u \in Worker : Reading(u)
  BY <1>2, <1>3, NobodyReads, SMT
<1>6. board' = Pool' /\ seen' = seen
  BY <1>4, <1>5, Zenon DEF Record
<1>7. client = "none" /\ board.template = template /\ board.coinbase = coinbase
  BY <1>2, SMT DEF BoardInv
<1>8. board' = [client |-> "none", template |-> template, coinbase |-> coinbase]
  BY <1>2, <1>6, <1>7, Zenon DEF Pool
<1>9. Fresh' = Fresh /\ Distrusted' = Distrusted
  BY <1>2, Zenon DEF Fresh, Distrusted
<1>10. Sequential!ReconnectFails
  BY <1>6, <1>7, <1>8, <1>9, SMT DEF Sequential!ReconnectFails, BoardInv
<1>11. BoardInv'
  BY <1>2, <1>3, <1>4, <1>6, <1>8, SMT DEF BoardInv, Updating
<1> QED BY <1>10, <1>11, Zenon DEF Implements, Sequential!Next

\* What new and reconnect do with a new connection.
LEMMA ConnectServes ==
  ASSUME TypeOK, BoardInv, Record, ~Updating', ~\E u \in Worker : Reading(u),
         NEW c \in Client, conn[c] = "none", conn' = [conn EXCEPT ![c] = "up"],
         client' = c, UNCHANGED <<template, coinbase, failed>>,
         board.template = template, board.coinbase = coinbase
  PROVE  BoardInv' /\ Implements
<1>1. /\ template \in Nat /\ coinbase \in Nat
      /\ conn \in [Client -> {"none", "up", "down"}]
  BY Zenon DEF TypeOK
<1>2. \A d \in Client : conn'[d] = IF d = c THEN "up" ELSE conn[d]
  BY <1>1, Zenon
<1>3. c \in Fresh /\ Fresh' = Fresh \ {c}
  BY <1>2, SMT DEF Fresh
<1>4. Distrusted' = Distrusted
  BY Zenon DEF Distrusted
<1>5. board' = Pool' /\ seen' = seen
  BY Zenon DEF Record
<1>6. board' = [client |-> c, template |-> template, coinbase |-> coinbase]
  BY <1>5, Zenon DEF Pool
<1>7. Sequential!Connect(c)
  BY <1>3, <1>4, <1>5, <1>6, SMT DEF Sequential!Connect, BoardInv
<1>8. BoardInv'
  BY <1>1, <1>5, <1>6, SMT DEF BoardInv, Updating
<1> QED BY <1>7, <1>8, Zenon DEF Implements, Sequential!Next

LEMMA DialServes ==
  ASSUME TypeOK, PoolInv, BoardInv, Record, NEW t \in Worker, NEW c \in Client,
         Dial(t, c)
  PROVE  BoardInv' /\ Implements
<1>1. LockExclusive /\ GuardsHeld
  BY Zenon DEF PoolInv
<1>2. /\ pc[t] = "dial" /\ Writes(t, "pool") /\ Goto(t, "spawn")
      /\ conn[c] = "none" /\ conn' = [conn EXCEPT ![c] = "up"] /\ client' = c
      /\ UNCHANGED <<coinbase, template, failed>>
  BY Zenon DEF Dial
<1>3. ~Updating'
  BY <1>1, <1>2, WriterEnds, SMT
<1>4. t \in Task
  BY Zenon DEF Task
<1>5. ~\E u \in Worker : Reading(u)
  BY <1>2, <1>4, NobodyReads, SMT
<1>6. board.template = template /\ board.coinbase = coinbase
  BY <1>2, SMT DEF BoardInv
<1> QED BY <1>2, <1>3, <1>5, <1>6, ConnectServes, Zenon

LEMMA NewServes ==
  ASSUME TypeOK, IdleBeforeNew, BoardInv, Record, NEW c \in Client,
         NewConnects(c)
  PROVE  BoardInv' /\ Implements
<1>1. /\ pc["main"] = "new" /\ Goto("main", "start") /\ conn[c] = "none"
      /\ conn' = [conn EXCEPT ![c] = "up"] /\ client' = c
      /\ UNCHANGED <<coinbase, template, failed>>
  BY Zenon DEF NewConnects
<1>2. /\ pc \in [Task -> Pc \cup MainPc] /\ \A u \in Worker : u \in Task
      /\ "main" \in Task /\ "main" \notin Worker
  BY TaskAssumption, Zenon DEF TypeOK, Task, Worker
<1>3. \A u \in Worker : pc[u] = "idle" /\ pc'[u] = "idle"
  BY <1>1, <1>2, Zenon DEF IdleBeforeNew, Goto
<1>4. ~Updating /\ ~Updating' /\ ~\E u \in Worker : Reading(u)
  BY <1>3, SMT DEF Updating, Reading
<1>5. board.template = template /\ board.coinbase = coinbase
  BY <1>4, SMT DEF BoardInv, Pool
<1> QED BY <1>1, <1>4, <1>5, ConnectServes, Zenon

(***************************************************************************)
(* Every step.                                                             *)
(***************************************************************************)
HistoryInv == /\ TypeOK /\ PoolInv /\ ClientKept /\ IdleBeforeNew /\ LoopInv
              /\ BoardInv

LEMMA EveryStepSequential ==
  ASSUME HistoryInv, Next, Record PROVE BoardInv' /\ Implements
<1> USE DEF lockVars, poolVars, clientVars, taskVars
<1>inv. /\ TypeOK /\ PoolInv /\ ClientKept /\ IdleBeforeNew /\ LoopInv
        /\ BoardInv /\ LockExclusive /\ GuardsHeld
  BY Zenon DEF HistoryInv, PoolInv
<1>task. /\ "main" \in Task /\ "main" \notin Worker
         /\ \A t \in Worker : t \in Task
  BY TaskAssumption, Zenon DEF Task, Worker
<1> USE <1>inv
<1>1. CASE NewSolo
  <2>1. /\ Goto("main", "start")
        /\ UNCHANGED <<client, template, coinbase, failed, conn>>
    BY <1>1, Zenon DEF NewSolo
  <2> QED BY <1>task, <2>1, MoveStays, SMT
<1>2. CASE NewFails
  <2>1. /\ Goto("main", "failed")
        /\ UNCHANGED <<client, template, coinbase, failed, conn>>
    BY <1>2, Zenon DEF NewFails
  <2> QED BY <1>task, <2>1, MoveStays, SMT
<1>3. CASE Start
  <2>1. /\ Goto("main", "startRunning")
        /\ UNCHANGED <<client, template, coinbase, failed, conn>>
    BY <1>3, Zenon DEF Start
  <2> QED BY <1>task, <2>1, MoveStays, SMT
<1>4. CASE StartRunning
  <2>1. /\ Goto("main", "startPool")
        /\ UNCHANGED <<client, template, coinbase, failed, conn>>
    BY <1>4, Zenon DEF StartRunning
  <2> QED BY <1>task, <2>1, MoveStays, SMT
<1>5. CASE StartLoop
  <2>1. /\ Goto("main", "ready")
        /\ UNCHANGED <<client, template, coinbase, failed, conn>>
    BY <1>5, Zenon DEF StartLoop
  <2> QED BY <1>task, <2>1, MoveStays, SMT
<1>6. ASSUME NEW t \in Worker, HandleTemplateEvent(t) PROVE BoardInv' /\ Implements
  <2>1. /\ Goto(t, "generate")
        /\ UNCHANGED <<client, template, coinbase, failed, conn>>
    BY <1>6, Zenon DEF HandleTemplateEvent
  <2>2. pc[t] \notin {"fetch", "dial", "look", "status"}
    BY <1>6, SMT DEF HandleTemplateEvent, Called
  <2> QED BY <1>task, <2>1, <2>2, MoveStays, SMT
<1>7. ASSUME NEW t \in Worker, Submit(t) PROVE BoardInv' /\ Implements
  <2>1. /\ Goto(t, "submit")
        /\ UNCHANGED <<client, template, coinbase, failed, conn>>
    BY <1>7, Zenon DEF Submit
  <2>2. pc[t] \notin {"fetch", "dial", "look", "status"}
    BY <1>7, SMT DEF Submit, Called
  <2> QED BY <1>task, <2>1, <2>2, MoveStays, SMT
<1>8. ASSUME NEW t \in Worker, Look(t) PROVE BoardInv' /\ Implements
  <2>1. /\ Goto(t, "look")
        /\ UNCHANGED <<client, template, coinbase, failed, conn>>
    BY <1>8, Zenon DEF Look
  <2>2. pc[t] \notin {"fetch", "dial", "look", "status"}
    BY <1>8, SMT DEF Look, Called
  <2> QED BY <1>task, <2>1, <2>2, MoveStays, SMT
<1>9. ASSUME NEW t \in Worker, Status(t) PROVE BoardInv' /\ Implements
  <2>1. /\ Goto(t, "status")
        /\ UNCHANGED <<client, template, coinbase, failed, conn>>
    BY <1>9, Zenon DEF Status
  <2>2. pc[t] \notin {"fetch", "dial", "look", "status"}
    BY <1>9, SMT DEF Status, Called
  <2> QED BY <1>task, <2>1, <2>2, MoveStays, SMT
<1>10. ASSUME NEW t \in Worker, Reconnect(t) PROVE BoardInv' /\ Implements
  <2>1. /\ Goto(t, "reconnect")
        /\ UNCHANGED <<client, template, coinbase, failed, conn>>
    BY <1>10, Zenon DEF Reconnect
  <2>2. pc[t] \notin {"fetch", "dial", "look", "status"}
    BY <1>10, SMT DEF Reconnect, Called
  <2> QED BY <1>task, <2>1, <2>2, MoveStays, SMT
<1>11. ASSUME NEW t \in Worker, GenerateTemplate(t) PROVE BoardInv' /\ Implements
  <2>1. /\ Goto(t, "generated")
        /\ UNCHANGED <<client, template, coinbase, failed, conn>>
    BY <1>11, Zenon DEF GenerateTemplate
  <2>2. pc[t] \notin {"fetch", "dial", "look", "status"}
    BY <1>11, SMT DEF GenerateTemplate
  <2> QED BY <1>task, <2>1, <2>2, MoveStays, SMT
<1>update. ASSUME NEW t \in Worker, UpdateBlockTemplate(t) PROVE BoardInv' /\ Implements
  <2>1. /\ Goto(t, "update")
        /\ UNCHANGED <<client, template, coinbase, failed, conn>>
    BY <1>update, Zenon DEF UpdateBlockTemplate
  <2>2. pc[t] \notin {"fetch", "dial", "look", "status"}
    BY <1>update, SMT DEF UpdateBlockTemplate
  <2> QED BY <1>task, <2>1, <2>2, MoveStays, SMT
<1>12. ASSUME NEW t \in Worker, GenerateFails(t) PROVE BoardInv' /\ Implements
  <2>1. /\ Goto(t, "idle")
        /\ UNCHANGED <<client, template, coinbase, failed, conn>>
    BY <1>12, Zenon DEF GenerateFails
  <2>2. pc[t] \notin {"fetch", "dial", "look", "status"}
    BY <1>12, SMT DEF GenerateFails
  <2> QED BY <1>task, <2>1, <2>2, MoveStays, SMT
<1>13. ASSUME NEW t \in Worker, SubmitReturns(t) PROVE BoardInv' /\ Implements
  <2>1. /\ Goto(t, "idle")
        /\ UNCHANGED <<client, template, coinbase, failed, conn>>
    BY <1>13, Zenon DEF SubmitReturns
  <2>2. pc[t] \notin {"fetch", "dial", "look", "status"}
    BY <1>13, SMT DEF SubmitReturns
  <2> QED BY <1>task, <2>1, <2>2, MoveStays, SMT
<1>14. ASSUME NEW t \in Worker, StatusReturns(t) PROVE BoardInv' /\ Implements
  <2>1. /\ Goto(t, "idle")
        /\ UNCHANGED <<client, template, coinbase, failed, conn>>
    BY <1>14, Zenon DEF StatusReturns
  <2>2. pc[t] \notin {"fetch", "dial", "look", "status"}
    BY <1>14, SMT DEF StatusReturns
  <2> QED BY <1>task, <2>1, <2>2, MoveStays, SMT
<1>15. ASSUME NEW t \in Worker, ReconnectRefused(t) PROVE BoardInv' /\ Implements
  <2>1. /\ Goto(t, "idle")
        /\ UNCHANGED <<client, template, coinbase, failed, conn>>
    BY <1>15, Zenon DEF ReconnectRefused
  <2>2. pc[t] \notin {"fetch", "dial", "look", "status"}
    BY <1>15, SMT DEF ReconnectRefused
  <2> QED BY <1>task, <2>1, <2>2, MoveStays, SMT
<1>16. ASSUME NEW t \in Worker, Spawn(t) PROVE BoardInv' /\ Implements
  <2>1. /\ Goto(t, "idle")
        /\ UNCHANGED <<client, template, coinbase, failed, conn>>
    BY <1>16, Zenon DEF Spawn
  <2>2. pc[t] \notin {"fetch", "dial", "look", "status"}
    BY <1>16, SMT DEF Spawn
  <2> QED BY <1>task, <2>1, <2>2, MoveStays, SMT
<1>17. ASSUME NEW t \in Worker, SubmitPow(t) PROVE BoardInv' /\ Implements
  <2>1. /\ UNCHANGED <<client, template, coinbase, failed, conn>>
        /\ pc[t] \notin {"fetch", "dial", "look", "status"}
    BY <1>17, SMT DEF SubmitPow
  <2>2. Goto(t, "idle") \/ Goto(t, "submitting")
    BY <1>17, Zenon DEF SubmitPow
  <2> QED BY <1>task, <2>1, <2>2, MoveStays, SMT
<1>18. ASSUME NEW t \in Worker, LookReturns(t) PROVE BoardInv' /\ Implements
  <2>1. /\ Goto(t, "idle") /\ Reads(t, "pool") /\ pc[t] = "look"
        /\ UNCHANGED <<client, template, coinbase, failed, conn>>
    BY <1>18, Zenon DEF LookReturns
  <2>2. Reading(t)
    BY <1>task, <2>1, Zenon DEF Reading, Goto, TypeOK
  <2> QED BY <2>1, <2>2, LookStep, SMT
<1>19. ASSUME NEW t \in Worker, StatusRunning(t)
      PROVE  BoardInv' /\ Implements
  <2>1. /\ Goto(t, "statusRunning") /\ Reads(t, "pool") /\ pc[t] = "status"
        /\ UNCHANGED <<client, template, coinbase, failed, conn>>
    BY <1>19, Zenon DEF StatusRunning
  <2>2. Reading(t)
    BY <1>task, <2>1, Zenon DEF Reading, Goto, TypeOK
  <2> QED BY <2>1, <2>2, LookStep, SMT
<1>20. ASSUME NEW t \in Worker, SetTemplate(t) PROVE BoardInv' /\ Implements
  BY <1>20, SetTemplateServes, Zenon
<1>21. ASSUME NEW t \in Worker, FetchReturns(t) PROVE BoardInv' /\ Implements
  BY <1>21, FetchServes, Zenon
<1>22. ASSUME NEW t \in Worker, CallFails(t) PROVE BoardInv' /\ Implements
  BY <1>22, CallFailsServes, Zenon
<1>23. ASSUME NEW t \in Worker, DropClient(t) PROVE BoardInv' /\ Implements
  BY <1>23, DropClientServes, Zenon
<1>24. ASSUME NEW t \in Worker, DialFails(t) PROVE BoardInv' /\ Implements
  BY <1>24, DialFailsServes, Zenon
<1>25. ASSUME NEW t \in Worker, NEW c \in Client, Dial(t, c)
      PROVE  BoardInv' /\ Implements
  BY <1>25, DialServes, Zenon
<1>26. ASSUME NEW c \in Client, NewConnects(c) PROVE BoardInv' /\ Implements
  BY <1>26, NewServes, Zenon
<1>27. ASSUME NEW l \in Lock, Grant(l) PROVE BoardInv' /\ Implements
  BY <1>27, OthersStay, Zenon DEF Grant
<1>28. ASSUME NEW c \in Client, LoopTakes(c) PROVE BoardInv' /\ Implements
  BY <1>28, OthersStay, Zenon DEF LoopTakes
<1>29. ASSUME NEW c \in Client, LoopStops(c) PROVE BoardInv' /\ Implements
  <2>1. ASSUME NEW d \in Client PROVE (conn'[d] = "none") <=> (conn[d] = "none")
    <3>1. \/ conn'[d] = conn[d]
          \/ d = c /\ conn'[d] = "down"
      BY <1>29, SMT DEF LoopStops, TypeOK
    <3>2. conn[c] # "none"
      BY <1>29, SMT DEF LoopStops, Looping, LoopInv, LoopAt, TypeOK
    <3> QED BY <3>1, <3>2, SMT
  <2> QED BY <1>29, <2>1, OthersStay, Zenon DEF LoopStops
<1>30. ASSUME NEW c \in Client, ConnBreaks(c) PROVE BoardInv' /\ Implements
  <2>1. ASSUME NEW d \in Client PROVE (conn'[d] = "none") <=> (conn[d] = "none")
    BY <1>30, SMT DEF ConnBreaks, TypeOK
  <2> QED BY <1>30, <2>1, OthersStay, Zenon DEF ConnBreaks
<1> QED
  BY <1>update, <1>1, <1>2, <1>3, <1>4, <1>5, <1>6, <1>7, <1>8, <1>9, <1>10, <1>11,
     <1>12, <1>13, <1>14, <1>15, <1>16, <1>17, <1>18, <1>19, <1>20, <1>21,
     <1>22, <1>23, <1>24, <1>25, <1>26, <1>27, <1>28, <1>29, <1>30, Zenon
     DEF Next, Main, Call, Step

LEMMA HistoryStart == HistoryInit => HistoryInv /\ Sequential!Init
<1> SUFFICES ASSUME HistoryInit PROVE HistoryInv /\ Sequential!Init
  OBVIOUS
<1>1. /\ Init /\ board = Pool /\ seen = Pool
  BY Zenon DEF HistoryInit
<1>2. /\ client = "none" /\ template = 0 /\ coinbase = 0
      /\ conn = [c \in Client |-> "none"] /\ failed = [c \in Client |-> FALSE]
  BY <1>1, Zenon DEF Init
<1>3. board = [client |-> "none", template |-> 0, coinbase |-> 0]
  BY <1>1, <1>2, Zenon DEF Pool
<1>4. Fresh = Client /\ Distrusted = {}
  BY <1>2, SMT DEF Fresh, Distrusted
<1>5. Sequential!Init
  BY <1>1, <1>3, <1>4, Zenon DEF Sequential!Init
<1>6. ASSUME NEW t \in Worker PROVE pc[t] \notin {"fetch", "dial"}
  BY <1>1, SMT DEF Init, Task
<1>7. BoardInv
  BY <1>1, <1>3, <1>6, SMT DEF BoardInv
<1>8. HistoryInv
  BY <1>1, <1>7, TypeInit, PoolInit, KeptInit, LoopInit, Zenon DEF HistoryInv
<1> QED BY <1>5, <1>8

LEMMA HistoryStep ==
  ASSUME HistoryInv, [HistoryNext]_<<vars, historyVars>>
  PROVE  HistoryInv' /\ Implements
<1>1. [Next]_vars
  BY Zenon DEF HistoryNext
<1>2. (TypeOK /\ PoolInv /\ ClientKept /\ IdleBeforeNew /\ LoopInv)'
  BY <1>1, TypeNext, PoolNext, KeptNext, LoopNext, Zenon DEF HistoryInv, PoolInv
<1>3. BoardInv' /\ Implements
  <2>1. CASE HistoryNext
    BY <2>1, EveryStepSequential, Zenon DEF HistoryNext
  <2>2. CASE UNCHANGED <<vars, historyVars>>
    <3>1. /\ UNCHANGED <<client, template, coinbase, failed, conn, pc>>
          /\ UNCHANGED <<board, seen>>
      BY <2>2, Zenon DEF vars, historyVars, poolVars, clientVars, taskVars
    <3>2. Fresh' = Fresh /\ Distrusted' = Distrusted /\ Pool' = Pool
      BY <3>1, Zenon DEF Fresh, Distrusted, Pool
    <3>3. BoardInv'
      BY <3>1, <3>2, Zenon DEF HistoryInv, BoardInv, Updating
    <3> QED BY <3>1, <3>2, <3>3, Zenon DEF Implements, Sequential!vars
  <2> QED BY <2>1, <2>2
<1> QED BY <1>2, <1>3, Zenon DEF HistoryInv

(***************************************************************************)
(* Whatever interleaves, the pool changes as if its methods were executed  *)
(* one at a time: templates come with their coinbase as long as no call    *)
(* has failed, and no reader sees a template whose coinbase is still being *)
(* fetched, or a pool between its old client and its new one.              *)
(***************************************************************************)
THEOREM PoolSequential == HistorySpec => OneAtATime
<1>1. HistoryInit => HistoryInv /\ Sequential!Init
  BY HistoryStart
<1>2. HistoryInv /\ [HistoryNext]_<<vars, historyVars>> => HistoryInv' /\ Implements
  BY HistoryStep
<1> QED
  BY <1>1, <1>2, PTL DEF HistorySpec, Implements, OneAtATime, Sequential!Spec
==============================================================================
