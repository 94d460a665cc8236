----------------------------- MODULE DatumServer -----------------------------
(***************************************************************************)
(* DatumServer (src/server.rs) and the DatumPool it shares (src/pool.rs):  *)
(* startup, the node's events, the requests of other modules (src/api.rs), *)
(* and the operator's commands (src/module.rs).                            *)
(*                                                                         *)
(* A connection is what DatumClient leaves of it: requests are written and *)
(* their answers come in the order of the requests, without a name.  Who   *)
(* reads next takes the oldest answer, be it a caller or a receive loop; a *)
(* call may also end with an error, its answer read or not.                *)
(***************************************************************************)
EXTENDS Naturals, Sequences, FiniteSets

CONSTANTS
  Handler,    \* tasks that handle the node's events
  Requester,  \* tasks that handle other modules' requests
  Operator,   \* tasks that run the operator's commands
  Client,     \* the DatumProtocolClients, one for each connection made
  Pow,        \* the answer to a submitted proof of work
  MaxCalls    \* bound: events, requests or commands of one task

ASSUME TaskAssumption ==
  /\ Handler \cap Requester = {} /\ Handler \cap Operator = {}
  /\ Requester \cap Operator = {}
  /\ "main" \notin Handler \cup Requester \cup Operator
ASSUME ClientAssumption == Client # {} /\ "none" \notin Client
ASSUME AnswerAssumption == Pow \notin Nat
ASSUME ServerBounds     == MaxCalls \in Nat

Worker == Handler \cup Requester \cup Operator
Task   == Worker \cup {"main"}

\* The pool's RwLock, and that of running.
Lock == {"pool", "running"}

\* A task that waits for a lock.
Waiter == [task : Task, mode : {"read", "write"}]

\* Templates are numbered as they are generated, from 1 on.  What a connection
\* owes: the answer to a fetch is the number of the template
\* whose value it was asked for.
Answer == Nat \cup {Pow}

VARIABLES
  waiting, readers, writer,       \* the locks: FIFO queue, and who has them
  client, coinbase, template,     \* DatumPool
  configured, running,
  conn,                           \* the TCP connection of a client
  spawned, stopped,               \* its receive loops
  owed,                           \* answers to come, oldest first
  failed,                         \* history: a call on the client has failed
  paired,                         \* history: the coinbase was fetched for the
                                  \* template, and no call had failed before
  pc, using, job, calls,          \* tasks
  made                            \* templates generated

lockVars   == <<waiting, readers, writer>>
poolVars   == <<client, coinbase, template>>
clientVars == <<conn, spawned, stopped, owed, failed>>
taskVars   == <<pc, using, job, calls>>
vars == <<lockVars, poolVars, configured, running, clientVars, paired,
          taskVars, made>>

Init ==
  /\ waiting = [l \in Lock |-> <<>>]
  /\ readers = [l \in Lock |-> {}]
  /\ writer = [l \in Lock |-> {}]
  /\ client = "none"
  /\ coinbase = 0
  /\ template = 0
  /\ configured \in BOOLEAN
  /\ running = FALSE
  /\ conn = [c \in Client |-> "none"]
  /\ spawned = [c \in Client |-> 0]
  /\ stopped = [c \in Client |-> 0]
  /\ owed = [c \in Client |-> <<>>]
  /\ failed = [c \in Client |-> FALSE]
  /\ paired = FALSE
  /\ pc = [t \in Task |-> IF t = "main" THEN "new" ELSE "idle"]
  /\ using = [t \in Task |-> CHOOSE c \in Client : TRUE]
  /\ job = [t \in Task |-> 0]
  /\ calls = [t \in Task |-> 0]
  /\ made = 0

(***************************************************************************)
(* tokio's RwLock grants requests in their order: a reader that comes      *)
(* after a waiting writer waits behind it.                                 *)
(***************************************************************************)
Ask(t, l, mode) ==
  waiting' = [waiting EXCEPT ![l] = Append(@, [task |-> t, mode |-> mode])]

Grant(l) ==
  /\ waiting[l] # <<>>
  /\ writer[l] = {}
  /\ LET r == Head(waiting[l]) IN
       IF r.mode = "read"
         THEN /\ readers' = [readers EXCEPT ![l] = @ \cup {r.task}]
              /\ UNCHANGED writer
         ELSE /\ readers[l] = {}
              /\ writer' = [writer EXCEPT ![l] = {r.task}]
              /\ UNCHANGED readers
  /\ waiting' = [waiting EXCEPT ![l] = Tail(@)]
  /\ UNCHANGED <<poolVars, configured, running, clientVars, paired, taskVars,
                 made>>

Reads(t, l)  == t \in readers[l]
Writes(t, l) == t \in writer[l]

\* The guards a task holds are dropped.
ReleaseAll(t) ==
  /\ readers' = [l \in Lock |-> readers[l] \ {t}]
  /\ writer' = [l \in Lock |-> writer[l] \ {t}]
  /\ UNCHANGED waiting

Goto(t, label) == pc' = [pc EXCEPT ![t] = label]

(***************************************************************************)
(* main: DatumServer::new connects to the pool if there is one, and        *)
(* registers the API; start spawns the receive loop.                       *)
(***************************************************************************)
NewConnects(c) ==
  /\ pc["main"] = "new"
  /\ configured
  /\ conn[c] = "none"
  /\ conn' = [conn EXCEPT ![c] = "up"]
  /\ client' = c
  /\ Goto("main", "start")
  /\ UNCHANGED <<lockVars, coinbase, template, configured, running, spawned,
                 stopped, owed, failed, paired, using, job, calls, made>>

NewSolo ==
  /\ pc["main"] = "new"
  /\ ~configured
  /\ Goto("main", "start")
  /\ UNCHANGED <<lockVars, poolVars, configured, running, clientVars, paired,
                 using, job, calls, made>>

NewFails ==
  /\ pc["main"] = "new"
  /\ Goto("main", "failed")
  /\ UNCHANGED <<lockVars, poolVars, configured, running, clientVars, paired,
                 using, job, calls, made>>

Start ==
  /\ pc["main"] = "start"
  /\ Ask("main", "running", "write")
  /\ Goto("main", "startRunning")
  /\ UNCHANGED <<readers, writer, poolVars, configured, running, clientVars,
                 paired, using, job, calls, made>>

StartRunning ==
  /\ pc["main"] = "startRunning"
  /\ Writes("main", "running")
  /\ running' = TRUE
  /\ Ask("main", "pool", "read")
  /\ Goto("main", "startPool")
  /\ UNCHANGED <<readers, writer, poolVars, configured, clientVars, paired,
                 using, job, calls, made>>

StartLoop ==
  /\ pc["main"] = "startPool"
  /\ Reads("main", "pool")
  /\ spawned' = [c \in Client |-> spawned[c] + IF client = c THEN 1 ELSE 0]
  /\ ReleaseAll("main")
  /\ Goto("main", "ready")
  /\ UNCHANGED <<poolVars, configured, running, conn, stopped, owed, failed,
                 paired, using, job, calls, made>>

\* A bug: the module is handed to the node before it has started.
ReadyBeforeStart == pc["main"] \notin {"new", "failed"}

\* main hands the module, with its events and commands, to the node.
Ready == pc["main"] = "ready"

\* The API is registered in new.
Registered == pc["main"] \notin {"new", "failed"}

\* Task t takes up an event, a request or a command.
Called(t) ==
  /\ pc[t] = "idle"
  /\ IF t \in Requester THEN Registered ELSE Ready
  /\ calls[t] < MaxCalls
  /\ calls' = [calls EXCEPT ![t] = @ + 1]

(***************************************************************************)
(* handle_event.  A template is generated, with the node's data of that    *)
(* moment; then update_block_template asks for the pool's lock and sets    *)
(* it, with its coinbase, under one write guard.  Of two events the later  *)
(* may ask first.  (NewBlock is logged and changes nothing.)               *)
(***************************************************************************)
HandleTemplateEvent(t) ==
  /\ Called(t)
  /\ Goto(t, "generate")
  /\ UNCHANGED <<lockVars, poolVars, configured, running, clientVars, paired,
                 using, job, made>>

GenerateTemplate(t) ==
  /\ pc[t] = "generate"
  /\ made' = made + 1
  /\ job' = [job EXCEPT ![t] = made + 1]
  /\ Goto(t, "generated")
  /\ UNCHANGED <<lockVars, poolVars, configured, running, clientVars, paired,
                 using, calls>>

GenerateFails(t) ==
  /\ pc[t] = "generate"
  /\ Goto(t, "idle")
  /\ UNCHANGED <<lockVars, poolVars, configured, running, clientVars, paired,
                 using, job, calls, made>>

UpdateBlockTemplate(t) ==
  /\ pc[t] = "generated"
  /\ Ask(t, "pool", "write")
  /\ Goto(t, "update")
  /\ UNCHANGED <<readers, writer, poolVars, configured, running, clientVars,
                 paired, using, job, calls, made>>

\* A request is written; on a broken connection it is lost.
Send(t, c, answer) ==
  /\ using' = [using EXCEPT ![t] = c]
  /\ owed' = IF conn[c] = "up" THEN [owed EXCEPT ![c] = Append(@, answer)]
                               ELSE owed

\* A bug: the guard is dropped for the duration of the fetch.
SetTemplateUnguarded(t) ==
  /\ pc[t] = "update"
  /\ Writes(t, "pool")
  /\ template' = job[t]
  /\ paired' = FALSE
  /\ ReleaseAll(t)
  /\ IF client = "none"
       THEN Goto(t, "idle") /\ UNCHANGED <<using, owed>>
       ELSE Goto(t, "fetch") /\ Send(t, client, job[t])
  /\ UNCHANGED <<client, coinbase, configured, running, conn, spawned, stopped,
                 failed, job, calls, made>>

SetTemplate(t) ==
  /\ pc[t] = "update"
  /\ Writes(t, "pool")
  /\ template' = job[t]
  /\ paired' = FALSE
  /\ IF client = "none"
       THEN Goto(t, "idle") /\ ReleaseAll(t) /\ UNCHANGED <<using, owed>>
       ELSE Goto(t, "fetch") /\ Send(t, client, job[t]) /\ UNCHANGED lockVars
  /\ UNCHANGED <<client, coinbase, configured, running, conn, spawned, stopped,
                 failed, job, calls, made>>

\* A bug: the command of the answer is not looked at.
FetchReturnsAny(t) ==
  LET c == using[t] IN
  /\ pc[t] = "fetch"
  /\ owed[c] # <<>>
  /\ coinbase' = Head(owed[c])
  /\ owed' = [owed EXCEPT ![c] = Tail(@)]
  /\ paired' = ~failed[c]
  /\ ReleaseAll(t)
  /\ Goto(t, "idle")
  /\ UNCHANGED <<client, template, configured, running, conn, spawned, stopped,
                 failed, using, job, calls, made>>

FetchReturns(t) ==
  LET c == using[t] IN
  /\ pc[t] = "fetch"
  /\ owed[c] # <<>>
  /\ Head(owed[c]) # Pow
  /\ coinbase' = Head(owed[c])
  /\ owed' = [owed EXCEPT ![c] = Tail(@)]
  /\ paired' = ~failed[c]
  /\ ReleaseAll(t)
  /\ Goto(t, "idle")
  /\ UNCHANGED <<client, template, configured, running, conn, spawned, stopped,
                 failed, using, job, calls, made>>

\* A fetch or submission fails: what it read, if it read anything, was not an
\* answer it can use.
CallFails(t) ==
  LET c == using[t] IN
  /\ pc[t] \in {"fetch", "submitting"}
  /\ failed' = [failed EXCEPT ![c] = TRUE]
  /\ \/ UNCHANGED owed
     \/ owed[c] # <<>> /\ owed' = [owed EXCEPT ![c] = Tail(@)]
  /\ ReleaseAll(t)
  /\ Goto(t, "idle")
  /\ UNCHANGED <<poolVars, configured, running, conn, spawned, stopped, paired,
                 using, job, calls, made>>

(***************************************************************************)
(* Under a read guard: submissions, and requests that look at the pool.    *)
(***************************************************************************)
Submit(t) ==
  /\ Called(t)
  /\ Ask(t, "pool", "read")
  /\ Goto(t, "submit")
  /\ UNCHANGED <<readers, writer, poolVars, configured, running, clientVars,
                 paired, using, job, made>>

\* A bug: the client is cloned, and the guard dropped before the call.
SubmitUnguarded(t) ==
  /\ pc[t] = "submit"
  /\ Reads(t, "pool")
  /\ ReleaseAll(t)
  /\ IF client = "none"
       THEN Goto(t, "idle") /\ UNCHANGED <<using, owed>>
       ELSE Goto(t, "submitting") /\ Send(t, client, Pow)
  /\ UNCHANGED <<poolVars, configured, running, conn, spawned, stopped, failed,
                 paired, job, calls, made>>

SubmitPow(t) ==
  /\ pc[t] = "submit"
  /\ Reads(t, "pool")
  /\ IF client = "none"
       THEN Goto(t, "idle") /\ ReleaseAll(t) /\ UNCHANGED <<using, owed>>
       ELSE Goto(t, "submitting") /\ Send(t, client, Pow) /\ UNCHANGED lockVars
  /\ UNCHANGED <<poolVars, configured, running, conn, spawned, stopped, failed,
                 paired, job, calls, made>>

SubmitReturns(t) ==
  LET c == using[t] IN
  /\ pc[t] = "submitting"
  /\ owed[c] # <<>>
  /\ Head(owed[c]) = Pow
  /\ owed' = [owed EXCEPT ![c] = Tail(@)]
  /\ ReleaseAll(t)
  /\ Goto(t, "idle")
  /\ UNCHANGED <<poolVars, configured, running, conn, spawned, stopped, failed,
                 paired, using, job, calls, made>>

Look(t) ==
  /\ Called(t)
  /\ Ask(t, "pool", "read")
  /\ Goto(t, "look")
  /\ UNCHANGED <<readers, writer, poolVars, configured, running, clientVars,
                 paired, using, job, made>>

\* A bug: the pool is read without waiting for its lock.
LookReturnsAtOnce(t) ==
  /\ pc[t] = "look"
  /\ ReleaseAll(t)
  /\ Goto(t, "idle")
  /\ UNCHANGED <<poolVars, configured, running, clientVars, paired, using, job,
                 calls, made>>

LookReturns(t) ==
  /\ pc[t] = "look"
  /\ Reads(t, "pool")
  /\ ReleaseAll(t)
  /\ Goto(t, "idle")
  /\ UNCHANGED <<poolVars, configured, running, clientVars, paired, using, job,
                 calls, made>>

\* get_status asks for running's lock with the pool's.
Status(t) ==
  /\ Called(t)
  /\ Ask(t, "pool", "read")
  /\ Goto(t, "status")
  /\ UNCHANGED <<readers, writer, poolVars, configured, running, clientVars,
                 paired, using, job, made>>

StatusRunning(t) ==
  /\ pc[t] = "status"
  /\ Reads(t, "pool")
  /\ Ask(t, "running", "read")
  /\ Goto(t, "statusRunning")
  /\ UNCHANGED <<readers, writer, poolVars, configured, running, clientVars,
                 paired, using, job, calls, made>>

StatusReturns(t) ==
  /\ pc[t] = "statusRunning"
  /\ Reads(t, "running")
  /\ ReleaseAll(t)
  /\ Goto(t, "idle")
  /\ UNCHANGED <<poolVars, configured, running, clientVars, paired, using, job,
                 calls, made>>

(***************************************************************************)
(* reconnect_pool.  The pool's client is dropped first; its connection is  *)
(* closed with it unless a receive loop, or the task that is about to      *)
(* spawn it, still has the client.                                         *)
(***************************************************************************)
Reconnect(t) ==
  /\ Called(t)
  /\ Ask(t, "pool", "write")
  /\ Goto(t, "reconnect")
  /\ UNCHANGED <<readers, writer, poolVars, configured, running, clientVars,
                 paired, using, job, made>>

Looping(c) == spawned[c] > stopped[c]

Spawning(c) == {t \in Worker : pc[t] = "spawn" /\ using[t] = c}

ReconnectRefused(t) ==
  /\ pc[t] = "reconnect"
  /\ Writes(t, "pool")
  /\ ~configured
  /\ ReleaseAll(t)
  /\ Goto(t, "idle")
  /\ UNCHANGED <<poolVars, configured, running, clientVars, paired, using, job,
                 calls, made>>

DropClient(t) ==
  /\ pc[t] = "reconnect"
  /\ Writes(t, "pool")
  /\ configured
  /\ client' = "none"
  /\ conn' = [c \in Client |->
                IF c = client /\ ~Looping(c) /\ Spawning(c) = {}
                  THEN "down" ELSE conn[c]]
  /\ Goto(t, "dial")
  /\ UNCHANGED <<lockVars, coinbase, template, configured, running, spawned,
                 stopped, owed, failed, paired, using, job, calls, made>>

\* connect succeeds; the guard is dropped before the loop is spawned.
Dial(t, c) ==
  /\ pc[t] = "dial"
  /\ Writes(t, "pool")
  /\ conn[c] = "none"
  /\ conn' = [conn EXCEPT ![c] = "up"]
  /\ client' = c
  /\ using' = [using EXCEPT ![t] = c]
  /\ ReleaseAll(t)
  /\ Goto(t, "spawn")
  /\ UNCHANGED <<coinbase, template, configured, running, spawned, stopped,
                 owed, failed, paired, job, calls, made>>

DialFails(t) ==
  /\ pc[t] = "dial"
  /\ Writes(t, "pool")
  /\ ReleaseAll(t)
  /\ Goto(t, "idle")
  /\ UNCHANGED <<poolVars, configured, running, clientVars, paired, using, job,
                 calls, made>>

\* A bug: the client is looked up again once the guard has been dropped.
SpawnForPool(t) ==
  /\ pc[t] = "spawn"
  /\ spawned' = [c \in Client |-> spawned[c] + IF client = c THEN 1 ELSE 0]
  /\ Goto(t, "idle")
  /\ UNCHANGED <<lockVars, poolVars, configured, running, conn, stopped, owed,
                 failed, paired, using, job, calls, made>>

Spawn(t) ==
  /\ pc[t] = "spawn"
  /\ spawned' = [spawned EXCEPT ![using[t]] = @ + 1]
  /\ Goto(t, "idle")
  /\ UNCHANGED <<lockVars, poolVars, configured, running, conn, stopped, owed,
                 failed, paired, using, job, calls, made>>

(***************************************************************************)
(* The receive loop of client c, and its connection.                       *)
(***************************************************************************)
LoopTakes(c) ==
  /\ Looping(c)
  /\ owed[c] # <<>>
  /\ owed' = [owed EXCEPT ![c] = Tail(@)]
  /\ UNCHANGED <<lockVars, poolVars, configured, running, conn, spawned,
                 stopped, failed, paired, taskVars, made>>

\* receive_message fails; the client goes with its last holder.
LoopStops(c) ==
  /\ Looping(c)
  /\ stopped' = [stopped EXCEPT ![c] = @ + 1]
  /\ conn' = IF client # c /\ spawned[c] = stopped[c] + 1
               THEN [conn EXCEPT ![c] = "down"] ELSE conn
  /\ UNCHANGED <<lockVars, poolVars, configured, running, spawned, owed,
                 failed, paired, taskVars, made>>

ConnBreaks(c) ==
  /\ conn[c] = "up"
  /\ conn' = [conn EXCEPT ![c] = "down"]
  /\ \/ UNCHANGED owed
     \/ owed[c] # <<>> /\ owed' = [owed EXCEPT ![c] = <<>>]
  /\ UNCHANGED <<lockVars, poolVars, configured, running, spawned, stopped,
                 failed, paired, taskVars, made>>

(***************************************************************************)
(* The behaviours.  Tasks are scheduled and locks granted.  That a call    *)
(* of the client and a dial return is an assumption (see DatumClient).     *)
(***************************************************************************)
Main ==
  \/ \E c \in Client : NewConnects(c)
  \/ NewSolo \/ NewFails \/ Start \/ StartRunning \/ StartLoop

Step(t) ==
  \/ GenerateTemplate(t) \/ GenerateFails(t)
  \/ UpdateBlockTemplate(t) \/ SetTemplate(t)
  \/ FetchReturns(t) \/ CallFails(t) \/ SubmitPow(t) \/ SubmitReturns(t)
  \/ LookReturns(t) \/ StatusRunning(t) \/ StatusReturns(t)
  \/ ReconnectRefused(t) \/ DropClient(t) \/ DialFails(t) \/ Spawn(t)
  \/ \E c \in Client : Dial(t, c)

Call(t) ==
  \/ t \in Handler /\ HandleTemplateEvent(t)
  \/ t \in Requester \cup Operator /\ (Submit(t) \/ Look(t))
  \/ t \in Operator /\ (Status(t) \/ Reconnect(t))

Next ==
  \/ Main
  \/ \E t \in Worker : Call(t) \/ Step(t)
  \/ \E l \in Lock : Grant(l)
  \/ \E c \in Client : LoopTakes(c) \/ LoopStops(c) \/ ConnBreaks(c)

Spec == Init /\ [][Next]_vars

Fairness ==
  /\ WF_vars(Main)
  /\ \A t \in Worker : WF_vars(Step(t))
  /\ \A l \in Lock : WF_vars(Grant(l))

FairSpec == Spec /\ Fairness

(***************************************************************************)
(* Properties.                                                             *)
(***************************************************************************)
Pc == {"idle", "generate", "generated", "update", "fetch", "submit",
       "submitting", "look", "status", "statusRunning", "reconnect", "dial",
       "spawn"}
MainPc == {"new", "start", "startRunning", "startPool", "ready", "failed"}

\* Every variable has its type.
TypeOK ==
  /\ waiting \in [Lock -> Seq(Waiter)]
  /\ readers \in [Lock -> SUBSET Task]
  /\ writer \in [Lock -> SUBSET Task]
  /\ client \in Client \cup {"none"}
  /\ coinbase \in Nat
  /\ template \in Nat
  /\ configured \in BOOLEAN /\ running \in BOOLEAN /\ paired \in BOOLEAN
  /\ conn \in [Client -> {"none", "up", "down"}]
  /\ spawned \in [Client -> Nat] /\ stopped \in [Client -> Nat]
  /\ owed \in [Client -> Seq(Answer)]
  /\ failed \in [Client -> BOOLEAN]
  /\ pc \in [Task -> Pc \cup MainPc]
  /\ using \in [Task -> Client]
  /\ job \in [Task -> Nat]
  /\ calls \in [Task -> 0 .. MaxCalls]
  /\ made \in Nat

(***************************************************************************)
(* Answers have no names, and receive loops take some of them away.  Still *)
(* a fetch that succeeds has the answer for the template that is set, as   *)
(* long as no earlier call on the connection failed: set_template keeps    *)
(* its write guard from the template to the coinbase.                      *)
(***************************************************************************)
CoinbaseOfTemplate == paired => coinbase = template

(***************************************************************************)
(* reconnect never takes a client away from a call that is using it.       *)
(* (Nothing is called before new has connected.)                           *)
(***************************************************************************)
ClientKept ==
  \A t \in Worker : pc[t] \in {"fetch", "submitting"} => using[t] = client

(***************************************************************************)
(* start and reconnect_pool together spawn one receive loop for each       *)
(* connection: two would share its messages, none would leave them unread. *)
(***************************************************************************)
LoopPerClient ==
  \A c \in Client :
    /\ spawned[c] + Cardinality(Spawning(c)) <= 1
    /\ conn[c] # "none" /\ Ready => spawned[c] + Cardinality(Spawning(c)) = 1

(***************************************************************************)
(* The two locks are taken in one order by get_status and in the other by  *)
(* start, and a reader waits behind a writer that waits for a reader.      *)
(* Still no tasks wait for each other in a circle: in any group of tasks   *)
(* there is one that nobody in the group keeps waiting.                    *)
(***************************************************************************)
KeepsWaiting(u, t) ==
  \E l \in Lock : \E i \in DOMAIN waiting[l] :
    /\ waiting[l][i].task = t
    /\ \/ Writes(u, l)
       \/ Reads(u, l) /\ waiting[l][i].mode = "write"
       \/ \E j \in 1 .. i - 1 : waiting[l][j].task = u

NoDeadlock ==
  \A group \in SUBSET Task : group # {} =>
    \E t \in group : \A u \in group : ~KeepsWaiting(u, t)

(***************************************************************************)
(* Startup ends, and whoever is called returns.                            *)
(***************************************************************************)
EveryTaskReturns ==
  /\ <>(pc["main"] \in {"ready", "failed"})
  /\ \A t \in Worker : pc[t] # "idle" ~> pc[t] = "idle"

(***************************************************************************)
(* What the sources say: the coinbase is coordinated with the template ... *)
(***************************************************************************)
CoinbaseCoordinated ==
  writer["pool"] = {} /\ coinbase # 0 => coinbase = template

\* ... and a connection that is lost is attempted again.
LostConnectionRetried ==
  \A c \in Client : client = c /\ conn[c] = "down" ~> client # c
==============================================================================
