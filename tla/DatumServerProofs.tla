-------------------------- MODULE DatumServerProofs --------------------------
(***************************************************************************)
(* Theorems about DatumServer, for any tasks, connections and bounds.      *)
(***************************************************************************)
EXTENDS DatumServer, SequenceTheorems, WellFoundedInduction, TLAPS

USE TaskAssumption, ClientAssumption, AnswerAssumption, ServerBounds

LEMMA HeadTail ==
  ASSUME NEW S, NEW s \in Seq(S), s # <<>>
  PROVE  /\ Head(s) \in S /\ Tail(s) \in Seq(S)
         /\ Len(s) \in Nat \ {0} /\ Len(Tail(s)) = Len(s) - 1
         /\ Head(s) = s[1]
         /\ \A i \in 1 .. Len(Tail(s)) : Tail(s)[i] = s[i + 1]
BY SMT

LEMMA Appended ==
  ASSUME NEW S, NEW s \in Seq(S), NEW e \in S
  PROVE  /\ Append(s, e) \in Seq(S)
         /\ Len(Append(s, e)) = Len(s) + 1 /\ Len(s) \in Nat
         /\ Append(s, e)[Len(s) + 1] = e
         /\ \A i \in 1 .. Len(s) : Append(s, e)[i] = s[i]
BY SMT

LEMMA AskType ==
  ASSUME waiting \in [Lock -> Seq(Waiter)], NEW t \in Task, NEW l \in Lock,
         NEW mode \in {"read", "write"}, Ask(t, l, mode)
  PROVE  waiting' \in [Lock -> Seq(Waiter)]
<1> DEFINE r == [task |-> t, mode |-> mode]
<1>1. r \in Waiter
  BY SMT DEF Waiter
<1>2. waiting' = [waiting EXCEPT ![l] = Append(waiting[l], r)]
  BY Zenon DEF Ask
<1> HIDE DEF r
<1>3. Append(waiting[l], r) \in Seq(Waiter)
  BY <1>1, Appended, Zenon
<1> QED BY <1>2, <1>3, Zenon

LEMMA ReleaseType ==
  ASSUME readers \in [Lock -> SUBSET Task], writer \in [Lock -> SUBSET Task],
         NEW t, ReleaseAll(t)
  PROVE  /\ readers' \in [Lock -> SUBSET Task]
         /\ writer' \in [Lock -> SUBSET Task]
         /\ waiting' = waiting
BY SMT DEF ReleaseAll

LEMMA TypeInit == Init => TypeOK
<1> SUFFICES ASSUME Init PROVE TypeOK
  OBVIOUS
<1>1. (CHOOSE c \in Client : TRUE) \in Client
  BY Zenon
<1>2. using \in [Task -> Client]
  BY <1>1, Zenon DEF Init
<1>3. 0 \in Nat
  BY SMT
<1>4. job \in [Task -> Nat]
  BY <1>3, Zenon DEF Init
<1>5. pc \in [Task -> Pc \cup MainPc]
  BY SMT DEF Init, Pc, MainPc
<1>6. configured \in BOOLEAN /\ running \in BOOLEAN /\ paired \in BOOLEAN
  BY Zenon DEF Init
<1>7. failed \in [Client -> BOOLEAN]
  BY Zenon DEF Init
<1> QED BY <1>2, <1>3, <1>4, <1>5, <1>6, <1>7, SMT DEF Init, TypeOK

LEMMA TypeNext == TypeOK /\ [Next]_vars => TypeOK'
<1> SUFFICES ASSUME TypeOK, [Next]_vars PROVE TypeOK'
  OBVIOUS
<1>waiting. waiting \in [Lock -> Seq(Waiter)]
  BY Zenon DEF TypeOK
<1>readers. readers \in [Lock -> SUBSET Task]
  BY Zenon DEF TypeOK
<1>writer. writer \in [Lock -> SUBSET Task]
  BY Zenon DEF TypeOK
<1>client. client \in Client \cup {"none"}
  BY Zenon DEF TypeOK
<1>coinbase. coinbase \in Nat
  BY Zenon DEF TypeOK
<1>template. template \in Nat
  BY Zenon DEF TypeOK
<1>configured. configured \in BOOLEAN
  BY Zenon DEF TypeOK
<1>running. running \in BOOLEAN
  BY Zenon DEF TypeOK
<1>paired. paired \in BOOLEAN
  BY Zenon DEF TypeOK
<1>conn. conn \in [Client -> {"none", "up", "down"}]
  BY Zenon DEF TypeOK
<1>spawned. spawned \in [Client -> Nat]
  BY Zenon DEF TypeOK
<1>stopped. stopped \in [Client -> Nat]
  BY Zenon DEF TypeOK
<1>owed. owed \in [Client -> Seq(Answer)]
  BY Zenon DEF TypeOK
<1>failed. failed \in [Client -> BOOLEAN]
  BY Zenon DEF TypeOK
<1>pc. pc \in [Task -> Pc \cup MainPc]
  BY Zenon DEF TypeOK
<1>using. using \in [Task -> Client]
  BY Zenon DEF TypeOK
<1>job. job \in [Task -> Nat]
  BY Zenon DEF TypeOK
<1>calls. calls \in [Task -> 0 .. MaxCalls]
  BY Zenon DEF TypeOK
<1>made. made \in Nat
  BY Zenon DEF TypeOK
<1> USE DEF lockVars, poolVars, clientVars, taskVars
<1>1. ASSUME NEW c \in Client, NewConnects(c) PROVE TypeOK'
  <2>client. client' \in Client \cup {"none"}
    BY <1>1, <1>client, SMT DEF NewConnects
  <2>conn. conn' \in [Client -> {"none", "up", "down"}]
    BY <1>1, <1>conn, SMT DEF NewConnects
  <2>pc. pc' \in [Task -> Pc \cup MainPc]
    BY <1>1, <1>pc, SMT DEF NewConnects, Goto, Called, Task, Pc, MainPc
  <2> QED BY <1>1, <2>client, <2>conn, <2>pc, Zenon DEF TypeOK, NewConnects
<1>2. ASSUME NewSolo PROVE TypeOK'
  <2>pc. pc' \in [Task -> Pc \cup MainPc]
    BY <1>2, <1>pc, SMT DEF NewSolo, Goto, Called, Task, Pc, MainPc
  <2> QED BY <1>2, <2>pc, Zenon DEF TypeOK, NewSolo
<1>3. ASSUME NewFails PROVE TypeOK'
  <2>pc. pc' \in [Task -> Pc \cup MainPc]
    BY <1>3, <1>pc, SMT DEF NewFails, Goto, Called, Task, Pc, MainPc
  <2> QED BY <1>3, <2>pc, Zenon DEF TypeOK, NewFails
<1>4. ASSUME Start PROVE TypeOK'
  <2>waiting. waiting' \in [Lock -> Seq(Waiter)]
    BY <1>4, <1>waiting, AskType, Zenon DEF Start, Lock, Task
  <2>pc. pc' \in [Task -> Pc \cup MainPc]
    BY <1>4, <1>pc, SMT DEF Start, Goto, Called, Task, Pc, MainPc
  <2> QED BY <1>4, <2>waiting, <2>pc, Zenon DEF TypeOK, Start
<1>5. ASSUME StartRunning PROVE TypeOK'
  <2>waiting. waiting' \in [Lock -> Seq(Waiter)]
    BY <1>5, <1>waiting, AskType, Zenon DEF StartRunning, Lock, Task
  <2>running. running' \in BOOLEAN
    BY <1>5, <1>running, SMT DEF StartRunning
  <2>pc. pc' \in [Task -> Pc \cup MainPc]
    BY <1>5, <1>pc, SMT DEF StartRunning, Goto, Called, Task, Pc, MainPc
  <2> QED BY <1>5, <2>waiting, <2>running, <2>pc, Zenon DEF TypeOK, StartRunning
<1>6. ASSUME StartLoop PROVE TypeOK'
  <2>waiting. waiting' \in [Lock -> Seq(Waiter)]
    BY <1>6, <1>readers, <1>writer, <1>waiting, ReleaseType, Zenon DEF StartLoop
  <2>readers. readers' \in [Lock -> SUBSET Task]
    BY <1>6, <1>readers, <1>writer, <1>waiting, ReleaseType, Zenon DEF StartLoop
  <2>writer. writer' \in [Lock -> SUBSET Task]
    BY <1>6, <1>readers, <1>writer, <1>waiting, ReleaseType, Zenon DEF StartLoop
  <2>spawned. spawned' \in [Client -> Nat]
    BY <1>6, <1>spawned, <1>using, SMT DEF StartLoop, Task
  <2>pc. pc' \in [Task -> Pc \cup MainPc]
    BY <1>6, <1>pc, SMT DEF StartLoop, Goto, Called, Task, Pc, MainPc
  <2> QED BY <1>6, <2>waiting, <2>readers, <2>writer, <2>spawned, <2>pc, Zenon
        DEF TypeOK, StartLoop
<1>7. ASSUME NEW t \in Worker, HandleTemplateEvent(t) PROVE TypeOK'
  <2>pc. pc' \in [Task -> Pc \cup MainPc]
    BY <1>7, <1>pc, SMT DEF HandleTemplateEvent, Goto, Called, Task, Pc, MainPc
  <2>calls. calls' \in [Task -> 0 .. MaxCalls]
    BY <1>7, <1>calls, SMT DEF HandleTemplateEvent, Called, Task
  <2> QED BY <1>7, <2>pc, <2>calls, Zenon DEF TypeOK, HandleTemplateEvent
<1>8. ASSUME NEW t \in Worker, Submit(t) PROVE TypeOK'
  <2>waiting. waiting' \in [Lock -> Seq(Waiter)]
    BY <1>8, <1>waiting, AskType, Zenon DEF Submit, Lock, Task
  <2>pc. pc' \in [Task -> Pc \cup MainPc]
    BY <1>8, <1>pc, SMT DEF Submit, Goto, Called, Task, Pc, MainPc
  <2>calls. calls' \in [Task -> 0 .. MaxCalls]
    BY <1>8, <1>calls, SMT DEF Submit, Called, Task
  <2> QED BY <1>8, <2>waiting, <2>pc, <2>calls, Zenon DEF TypeOK, Submit
<1>9. ASSUME NEW t \in Worker, Look(t) PROVE TypeOK'
  <2>waiting. waiting' \in [Lock -> Seq(Waiter)]
    BY <1>9, <1>waiting, AskType, Zenon DEF Look, Lock, Task
  <2>pc. pc' \in [Task -> Pc \cup MainPc]
    BY <1>9, <1>pc, SMT DEF Look, Goto, Called, Task, Pc, MainPc
  <2>calls. calls' \in [Task -> 0 .. MaxCalls]
    BY <1>9, <1>calls, SMT DEF Look, Called, Task
  <2> QED BY <1>9, <2>waiting, <2>pc, <2>calls, Zenon DEF TypeOK, Look
<1>10. ASSUME NEW t \in Worker, Status(t) PROVE TypeOK'
  <2>waiting. waiting' \in [Lock -> Seq(Waiter)]
    BY <1>10, <1>waiting, AskType, Zenon DEF Status, Lock, Task
  <2>pc. pc' \in [Task -> Pc \cup MainPc]
    BY <1>10, <1>pc, SMT DEF Status, Goto, Called, Task, Pc, MainPc
  <2>calls. calls' \in [Task -> 0 .. MaxCalls]
    BY <1>10, <1>calls, SMT DEF Status, Called, Task
  <2> QED BY <1>10, <2>waiting, <2>pc, <2>calls, Zenon DEF TypeOK, Status
<1>11. ASSUME NEW t \in Worker, Reconnect(t) PROVE TypeOK'
  <2>waiting. waiting' \in [Lock -> Seq(Waiter)]
    BY <1>11, <1>waiting, AskType, Zenon DEF Reconnect, Lock, Task
  <2>pc. pc' \in [Task -> Pc \cup MainPc]
    BY <1>11, <1>pc, SMT DEF Reconnect, Goto, Called, Task, Pc, MainPc
  <2>calls. calls' \in [Task -> 0 .. MaxCalls]
    BY <1>11, <1>calls, SMT DEF Reconnect, Called, Task
  <2> QED BY <1>11, <2>waiting, <2>pc, <2>calls, Zenon DEF TypeOK, Reconnect
<1>12. ASSUME NEW t \in Worker, GenerateTemplate(t) PROVE TypeOK'
  <2>pc. pc' \in [Task -> Pc \cup MainPc]
    BY <1>12, <1>pc, SMT DEF GenerateTemplate, Goto, Called, Task, Pc, MainPc
  <2>job. job' \in [Task -> Nat]
    BY <1>12, <1>job, <1>made, SMT DEF GenerateTemplate, Task
  <2>made. made' \in Nat
    BY <1>12, <1>made, SMT DEF GenerateTemplate
  <2> QED BY <1>12, <2>pc, <2>job, <2>made, Zenon DEF TypeOK, GenerateTemplate
<1>update. ASSUME NEW t \in Worker, UpdateBlockTemplate(t) PROVE TypeOK'
  <2>waiting. waiting' \in [Lock -> Seq(Waiter)]
    BY <1>update, <1>waiting, AskType, Zenon DEF UpdateBlockTemplate, Lock, Task
  <2>pc. pc' \in [Task -> Pc \cup MainPc]
    BY <1>update, <1>pc, SMT DEF UpdateBlockTemplate, Goto, Task, Pc, MainPc
  <2> QED BY <1>update, <2>waiting, <2>pc, Zenon DEF TypeOK, UpdateBlockTemplate
<1>13. ASSUME NEW t \in Worker, GenerateFails(t) PROVE TypeOK'
  <2>pc. pc' \in [Task -> Pc \cup MainPc]
    BY <1>13, <1>pc, SMT DEF GenerateFails, Goto, Called, Task, Pc, MainPc
  <2> QED BY <1>13, <2>pc, Zenon DEF TypeOK, GenerateFails
<1>14. ASSUME NEW t \in Worker, SetTemplate(t) PROVE TypeOK'
  <2>waiting. waiting' \in [Lock -> Seq(Waiter)]
    BY <1>14, <1>readers, <1>writer, <1>waiting, ReleaseType, Zenon DEF
          SetTemplate
  <2>readers. readers' \in [Lock -> SUBSET Task]
    BY <1>14, <1>readers, <1>writer, <1>waiting, ReleaseType, Zenon DEF
          SetTemplate
  <2>writer. writer' \in [Lock -> SUBSET Task]
    BY <1>14, <1>readers, <1>writer, <1>waiting, ReleaseType, Zenon DEF
          SetTemplate
  <2>template. template' \in Nat
    BY <1>14, <1>job, SMT DEF SetTemplate, Task
  <2>paired. paired' \in BOOLEAN
    BY <1>14, Zenon DEF SetTemplate
  <2>owed. owed' \in [Client -> Seq(Answer)]
    <3>1. job[t] \in Answer
      BY <1>job, SMT DEF Answer, Task
    <3>2. client \in Client => Append(owed[client], job[t]) \in Seq(Answer)
      BY <3>1, <1>owed, Appended, Zenon
    <3>3. \/ owed' = owed
          \/ /\ client \in Client
             /\ owed' = [owed EXCEPT ![client] = Append(owed[client], job[t])]
      BY <1>14, <1>client, Zenon DEF SetTemplate, Send
    <3> QED BY <3>2, <3>3, <1>owed, Zenon
  <2>pc. pc' \in [Task -> Pc \cup MainPc]
    BY <1>14, <1>pc, SMT DEF SetTemplate, Goto, Called, Task, Pc, MainPc
  <2>using. using' \in [Task -> Client]
    BY <1>14, <1>using, <1>client, Zenon DEF SetTemplate, Send, Task
  <2> QED BY <1>14, <2>waiting, <2>readers, <2>writer, <2>template, <2>paired,
        <2>owed, <2>pc, <2>using, Zenon DEF TypeOK, SetTemplate
<1>15. ASSUME NEW t \in Worker, FetchReturns(t) PROVE TypeOK'
  <2>waiting. waiting' \in [Lock -> Seq(Waiter)]
    BY <1>15, <1>readers, <1>writer, <1>waiting, ReleaseType, Zenon DEF
          FetchReturns
  <2>readers. readers' \in [Lock -> SUBSET Task]
    BY <1>15, <1>readers, <1>writer, <1>waiting, ReleaseType, Zenon DEF
          FetchReturns
  <2>writer. writer' \in [Lock -> SUBSET Task]
    BY <1>15, <1>readers, <1>writer, <1>waiting, ReleaseType, Zenon DEF
          FetchReturns
  <2>coinbase. coinbase' \in Nat
    <3>1. Head(owed[using[t]]) \in Answer
      BY <1>15, <1>owed, <1>using, HeadTail, Zenon DEF FetchReturns, Task
    <3> QED BY <1>15, <3>1, Zenon DEF FetchReturns, Answer
  <2>paired. paired' \in BOOLEAN
    BY <1>15, <1>failed, <1>using, SMT DEF FetchReturns, Task
  <2>owed. owed' \in [Client -> Seq(Answer)]
    <3> DEFINE c == using[t]
    <3>1. c \in Client
      BY <1>using, Zenon DEF Task
    <3>2. owed[c] # <<>> => Tail(owed[c]) \in Seq(Answer)
      BY <3>1, <1>owed, HeadTail, Zenon
    <3>3. \/ owed' = owed
          \/ owed[c] # <<>> /\ owed' = [owed EXCEPT ![c] = Tail(owed[c])]
      BY <1>15, Zenon DEF FetchReturns
    <3> QED BY <3>1, <3>2, <3>3, <1>owed, Zenon
  <2>pc. pc' \in [Task -> Pc \cup MainPc]
    BY <1>15, <1>pc, SMT DEF FetchReturns, Goto, Called, Task, Pc, MainPc
  <2> QED BY <1>15, <2>waiting, <2>readers, <2>writer, <2>coinbase, <2>paired,
        <2>owed, <2>pc, Zenon DEF TypeOK, FetchReturns
<1>16. ASSUME NEW t \in Worker, CallFails(t) PROVE TypeOK'
  <2>waiting. waiting' \in [Lock -> Seq(Waiter)]
    BY <1>16, <1>readers, <1>writer, <1>waiting, ReleaseType, Zenon DEF CallFails
  <2>readers. readers' \in [Lock -> SUBSET Task]
    BY <1>16, <1>readers, <1>writer, <1>waiting, ReleaseType, Zenon DEF CallFails
  <2>writer. writer' \in [Lock -> SUBSET Task]
    BY <1>16, <1>readers, <1>writer, <1>waiting, ReleaseType, Zenon DEF CallFails
  <2>owed. owed' \in [Client -> Seq(Answer)]
    <3> DEFINE c == using[t]
    <3>1. c \in Client
      BY <1>using, Zenon DEF Task
    <3>2. owed[c] # <<>> => Tail(owed[c]) \in Seq(Answer)
      BY <3>1, <1>owed, HeadTail, Zenon
    <3>3. \/ owed' = owed
          \/ owed[c] # <<>> /\ owed' = [owed EXCEPT ![c] = Tail(owed[c])]
      BY <1>16, Zenon DEF CallFails
    <3> QED BY <3>1, <3>2, <3>3, <1>owed, Zenon
  <2>failed. failed' \in [Client -> BOOLEAN]
    BY <1>16, <1>failed, Zenon DEF CallFails
  <2>pc. pc' \in [Task -> Pc \cup MainPc]
    BY <1>16, <1>pc, SMT DEF CallFails, Goto, Called, Task, Pc, MainPc
  <2> QED BY <1>16, <2>waiting, <2>readers, <2>writer, <2>owed, <2>failed,
        <2>pc, Zenon DEF TypeOK, CallFails
<1>17. ASSUME NEW t \in Worker, SubmitPow(t) PROVE TypeOK'
  <2>waiting. waiting' \in [Lock -> Seq(Waiter)]
    BY <1>17, <1>readers, <1>writer, <1>waiting, ReleaseType, Zenon DEF SubmitPow
  <2>readers. readers' \in [Lock -> SUBSET Task]
    BY <1>17, <1>readers, <1>writer, <1>waiting, ReleaseType, Zenon DEF SubmitPow
  <2>writer. writer' \in [Lock -> SUBSET Task]
    BY <1>17, <1>readers, <1>writer, <1>waiting, ReleaseType, Zenon DEF SubmitPow
  <2>owed. owed' \in [Client -> Seq(Answer)]
    <3>1. Pow \in Answer
      BY <1>job, SMT DEF Answer, Task
    <3>2. client \in Client => Append(owed[client], Pow) \in Seq(Answer)
      BY <3>1, <1>owed, Appended, Zenon
    <3>3. \/ owed' = owed
          \/ /\ client \in Client
             /\ owed' = [owed EXCEPT ![client] = Append(owed[client], Pow)]
      BY <1>17, <1>client, Zenon DEF SubmitPow, Send
    <3> QED BY <3>2, <3>3, <1>owed, Zenon
  <2>pc. pc' \in [Task -> Pc \cup MainPc]
    BY <1>17, <1>pc, SMT DEF SubmitPow, Goto, Called, Task, Pc, MainPc
  <2>using. using' \in [Task -> Client]
    BY <1>17, <1>using, <1>client, Zenon DEF SubmitPow, Send, Task
  <2> QED BY <1>17, <2>waiting, <2>readers, <2>writer, <2>owed, <2>pc,
        <2>using, Zenon DEF TypeOK, SubmitPow
<1>18. ASSUME NEW t \in Worker, SubmitReturns(t) PROVE TypeOK'
  <2>waiting. waiting' \in [Lock -> Seq(Waiter)]
    BY <1>18, <1>readers, <1>writer, <1>waiting, ReleaseType, Zenon DEF
          SubmitReturns
  <2>readers. readers' \in [Lock -> SUBSET Task]
    BY <1>18, <1>readers, <1>writer, <1>waiting, ReleaseType, Zenon DEF
          SubmitReturns
  <2>writer. writer' \in [Lock -> SUBSET Task]
    BY <1>18, <1>readers, <1>writer, <1>waiting, ReleaseType, Zenon DEF
          SubmitReturns
  <2>owed. owed' \in [Client -> Seq(Answer)]
    <3> DEFINE c == using[t]
    <3>1. c \in Client
      BY <1>using, Zenon DEF Task
    <3>2. owed[c] # <<>> => Tail(owed[c]) \in Seq(Answer)
      BY <3>1, <1>owed, HeadTail, Zenon
    <3>3. \/ owed' = owed
          \/ owed[c] # <<>> /\ owed' = [owed EXCEPT ![c] = Tail(owed[c])]
      BY <1>18, Zenon DEF SubmitReturns
    <3> QED BY <3>1, <3>2, <3>3, <1>owed, Zenon
  <2>pc. pc' \in [Task -> Pc \cup MainPc]
    BY <1>18, <1>pc, SMT DEF SubmitReturns, Goto, Called, Task, Pc, MainPc
  <2> QED BY <1>18, <2>waiting, <2>readers, <2>writer, <2>owed, <2>pc, Zenon
        DEF TypeOK, SubmitReturns
<1>19. ASSUME NEW t \in Worker, LookReturns(t) PROVE TypeOK'
  <2>waiting. waiting' \in [Lock -> Seq(Waiter)]
    BY <1>19, <1>readers, <1>writer, <1>waiting, ReleaseType, Zenon DEF
          LookReturns
  <2>readers. readers' \in [Lock -> SUBSET Task]
    BY <1>19, <1>readers, <1>writer, <1>waiting, ReleaseType, Zenon DEF
          LookReturns
  <2>writer. writer' \in [Lock -> SUBSET Task]
    BY <1>19, <1>readers, <1>writer, <1>waiting, ReleaseType, Zenon DEF
          LookReturns
  <2>pc. pc' \in [Task -> Pc \cup MainPc]
    BY <1>19, <1>pc, SMT DEF LookReturns, Goto, Called, Task, Pc, MainPc
  <2> QED BY <1>19, <2>waiting, <2>readers, <2>writer, <2>pc, Zenon DEF TypeOK,
        LookReturns
<1>20. ASSUME NEW t \in Worker, StatusRunning(t) PROVE TypeOK'
  <2>waiting. waiting' \in [Lock -> Seq(Waiter)]
    BY <1>20, <1>waiting, AskType, Zenon DEF StatusRunning, Lock, Task
  <2>pc. pc' \in [Task -> Pc \cup MainPc]
    BY <1>20, <1>pc, SMT DEF StatusRunning, Goto, Called, Task, Pc, MainPc
  <2> QED BY <1>20, <2>waiting, <2>pc, Zenon DEF TypeOK, StatusRunning
<1>21. ASSUME NEW t \in Worker, StatusReturns(t) PROVE TypeOK'
  <2>waiting. waiting' \in [Lock -> Seq(Waiter)]
    BY <1>21, <1>readers, <1>writer, <1>waiting, ReleaseType, Zenon DEF
          StatusReturns
  <2>readers. readers' \in [Lock -> SUBSET Task]
    BY <1>21, <1>readers, <1>writer, <1>waiting, ReleaseType, Zenon DEF
          StatusReturns
  <2>writer. writer' \in [Lock -> SUBSET Task]
    BY <1>21, <1>readers, <1>writer, <1>waiting, ReleaseType, Zenon DEF
          StatusReturns
  <2>pc. pc' \in [Task -> Pc \cup MainPc]
    BY <1>21, <1>pc, SMT DEF StatusReturns, Goto, Called, Task, Pc, MainPc
  <2> QED BY <1>21, <2>waiting, <2>readers, <2>writer, <2>pc, Zenon DEF TypeOK,
        StatusReturns
<1>22. ASSUME NEW t \in Worker, ReconnectRefused(t) PROVE TypeOK'
  <2>waiting. waiting' \in [Lock -> Seq(Waiter)]
    BY <1>22, <1>readers, <1>writer, <1>waiting, ReleaseType, Zenon DEF
          ReconnectRefused
  <2>readers. readers' \in [Lock -> SUBSET Task]
    BY <1>22, <1>readers, <1>writer, <1>waiting, ReleaseType, Zenon DEF
          ReconnectRefused
  <2>writer. writer' \in [Lock -> SUBSET Task]
    BY <1>22, <1>readers, <1>writer, <1>waiting, ReleaseType, Zenon DEF
          ReconnectRefused
  <2>pc. pc' \in [Task -> Pc \cup MainPc]
    BY <1>22, <1>pc, SMT DEF ReconnectRefused, Goto, Called, Task, Pc, MainPc
  <2> QED BY <1>22, <2>waiting, <2>readers, <2>writer, <2>pc, Zenon DEF TypeOK,
        ReconnectRefused
<1>23. ASSUME NEW t \in Worker, DropClient(t) PROVE TypeOK'
  <2>client. client' \in Client \cup {"none"}
    BY <1>23, <1>client, SMT DEF DropClient
  <2>conn. conn' \in [Client -> {"none", "up", "down"}]
    BY <1>23, <1>conn, SMT DEF DropClient
  <2>pc. pc' \in [Task -> Pc \cup MainPc]
    BY <1>23, <1>pc, SMT DEF DropClient, Goto, Called, Task, Pc, MainPc
  <2> QED BY <1>23, <2>client, <2>conn, <2>pc, Zenon DEF TypeOK, DropClient
<1>24. ASSUME NEW t \in Worker, DialFails(t) PROVE TypeOK'
  <2>waiting. waiting' \in [Lock -> Seq(Waiter)]
    BY <1>24, <1>readers, <1>writer, <1>waiting, ReleaseType, Zenon DEF DialFails
  <2>readers. readers' \in [Lock -> SUBSET Task]
    BY <1>24, <1>readers, <1>writer, <1>waiting, ReleaseType, Zenon DEF DialFails
  <2>writer. writer' \in [Lock -> SUBSET Task]
    BY <1>24, <1>readers, <1>writer, <1>waiting, ReleaseType, Zenon DEF DialFails
  <2>pc. pc' \in [Task -> Pc \cup MainPc]
    BY <1>24, <1>pc, SMT DEF DialFails, Goto, Called, Task, Pc, MainPc
  <2> QED BY <1>24, <2>waiting, <2>readers, <2>writer, <2>pc, Zenon DEF TypeOK,
        DialFails
<1>25. ASSUME NEW t \in Worker, Spawn(t) PROVE TypeOK'
  <2>spawned. spawned' \in [Client -> Nat]
    <3>1. using[t] \in Client
      BY <1>using, Zenon DEF Task
    <3> QED BY <1>25, <3>1, <1>spawned, SMT DEF Spawn
  <2>pc. pc' \in [Task -> Pc \cup MainPc]
    BY <1>25, <1>pc, SMT DEF Spawn, Goto, Called, Task, Pc, MainPc
  <2> QED BY <1>25, <2>spawned, <2>pc, Zenon DEF TypeOK, Spawn
<1>26. ASSUME NEW t \in Worker, NEW c \in Client, Dial(t, c) PROVE TypeOK'
  <2>waiting. waiting' \in [Lock -> Seq(Waiter)]
    BY <1>26, <1>readers, <1>writer, <1>waiting, ReleaseType, Zenon DEF Dial
  <2>readers. readers' \in [Lock -> SUBSET Task]
    BY <1>26, <1>readers, <1>writer, <1>waiting, ReleaseType, Zenon DEF Dial
  <2>writer. writer' \in [Lock -> SUBSET Task]
    BY <1>26, <1>readers, <1>writer, <1>waiting, ReleaseType, Zenon DEF Dial
  <2>client. client' \in Client \cup {"none"}
    BY <1>26, <1>client, SMT DEF Dial
  <2>conn. conn' \in [Client -> {"none", "up", "down"}]
    BY <1>26, <1>conn, SMT DEF Dial
  <2>pc. pc' \in [Task -> Pc \cup MainPc]
    BY <1>26, <1>pc, SMT DEF Dial, Goto, Called, Task, Pc, MainPc
  <2>using. using' \in [Task -> Client]
    BY <1>26, <1>using, <1>client, SMT DEF Dial, Send, Task
  <2> QED BY <1>26, <2>waiting, <2>readers, <2>writer, <2>client, <2>conn,
        <2>pc, <2>using, Zenon DEF TypeOK, Dial
<1>27. ASSUME NEW l \in Lock, Grant(l) PROVE TypeOK'
  <2>waiting. waiting' \in [Lock -> Seq(Waiter)]
    BY <1>27, <1>waiting, HeadTail, SMT DEF Grant
  <2>readers. readers' \in [Lock -> SUBSET Task]
    <3>1. Head(waiting[l]) \in Waiter
      BY <1>27, <1>waiting, HeadTail, Zenon DEF Grant
    <3> DEFINE u == Head(waiting[l]).task
    <3>2. u \in Task
      BY <3>1, SMT DEF Waiter
    <3>3. readers' = readers \/ readers' = [readers EXCEPT ![l] = readers[l] \cup {u}]
      BY <1>27, Zenon DEF Grant
    <3> HIDE DEF u
    <3> QED BY <3>2, <3>3, <1>readers, SMT
  <2>writer. writer' \in [Lock -> SUBSET Task]
    <3>1. Head(waiting[l]) \in Waiter
      BY <1>27, <1>waiting, HeadTail, Zenon DEF Grant
    <3> DEFINE u == Head(waiting[l]).task
    <3>2. u \in Task
      BY <3>1, SMT DEF Waiter
    <3>3. writer' = writer \/ writer' = [writer EXCEPT ![l] = {u}]
      BY <1>27, Zenon DEF Grant
    <3> HIDE DEF u
    <3> QED BY <3>2, <3>3, <1>writer, SMT
  <2> QED BY <1>27, <2>waiting, <2>readers, <2>writer, Zenon DEF TypeOK, Grant
<1>28. ASSUME NEW c \in Client, LoopTakes(c) PROVE TypeOK'
  <2>owed. owed' \in [Client -> Seq(Answer)]
    BY <1>28, <1>owed, <1>using, HeadTail, SMT DEF LoopTakes
  <2> QED BY <1>28, <2>owed, Zenon DEF TypeOK, LoopTakes
<1>29. ASSUME NEW c \in Client, LoopStops(c) PROVE TypeOK'
  <2>conn. conn' \in [Client -> {"none", "up", "down"}]
    BY <1>29, <1>conn, SMT DEF LoopStops
  <2>stopped. stopped' \in [Client -> Nat]
    BY <1>29, <1>stopped, SMT DEF LoopStops
  <2> QED BY <1>29, <2>conn, <2>stopped, Zenon DEF TypeOK, LoopStops
<1>30. ASSUME NEW c \in Client, ConnBreaks(c) PROVE TypeOK'
  <2>conn. conn' \in [Client -> {"none", "up", "down"}]
    BY <1>30, <1>conn, SMT DEF ConnBreaks
  <2>owed. owed' \in [Client -> Seq(Answer)]
    <3>1. <<>> \in Seq(Answer)
      BY SMT
    <3> QED BY <1>30, <3>1, <1>owed, Zenon DEF ConnBreaks
  <2> QED BY <1>30, <2>conn, <2>owed, Zenon DEF TypeOK, ConnBreaks
<1>31. CASE UNCHANGED vars
  BY <1>31, Zenon DEF TypeOK, vars
<1> QED
  BY <1>update, <1>1, <1>2, <1>3, <1>4, <1>5, <1>6, <1>7, <1>8, <1>9, <1>10, <1>11,
        <1>12, <1>13, <1>14, <1>15, <1>16, <1>17, <1>18, <1>19, <1>20, <1>21,
        <1>22, <1>23, <1>24, <1>25, <1>26, <1>27, <1>28, <1>29, <1>30, <1>31,
        Zenon
     DEF Next, Main, Call, Step

\* Every variable of DatumServer keeps its type.
THEOREM ServerTypeCorrect == Spec => []TypeOK
<1>1. Init => TypeOK
  BY TypeInit
<1>2. TypeOK /\ [Next]_vars => TypeOK'
  BY TypeNext
<1> QED BY <1>1, <1>2, PTL DEF Spec

(***************************************************************************)
(* No deadlock.  What a task waits for and what it may have meanwhile      *)
(* depends on its label only.                                              *)
(***************************************************************************)
Has(t, l) == Reads(t, l) \/ Writes(t, l)

Wants(label, l) ==
  \/ /\ l = "pool"
     /\ label \in {"update", "submit", "look", "status", "reconnect", "startPool"}
  \/ l = "running" /\ label \in {"startRunning", "statusRunning"}

MayHave(label, l) ==
  \/ /\ l = "pool"
     /\ label \in {"update", "fetch", "submit", "submitting", "look", "status",
                   "statusRunning", "reconnect", "dial", "startPool"}
  \/ l = "running" /\ label \in {"startRunning", "startPool", "statusRunning"}

Queued(t, l) == \E i \in DOMAIN waiting[l] : waiting[l][i].task = t

OneRequest ==
  \A l \in Lock : \A i, j \in DOMAIN waiting[l] :
    waiting[l][i].task = waiting[l][j].task => i = j

RequestsOfLabels ==
  \A t \in Task, l \in Lock :
    /\ Queued(t, l) => Wants(pc[t], l) /\ ~Has(t, l)
    /\ Has(t, l) => MayHave(pc[t], l)

\* Nobody asks for both locks before start has released them.
StatusWhenReady ==
  /\ pc["main"] \in MainPc
  /\ \A t \in Worker : /\ pc[t] \in Pc
                       /\ pc[t] \in {"status", "statusRunning"} => Ready

WaitInv == StatusWhenReady /\ OneRequest /\ RequestsOfLabels

LEMMA Waiting ==
  ASSUME TypeOK, NEW l \in Lock
  PROVE  /\ waiting[l] \in Seq(Waiter)
         /\ DOMAIN waiting[l] = 1 .. Len(waiting[l]) /\ Len(waiting[l]) \in Nat
         /\ \A i \in DOMAIN waiting[l] : waiting[l][i] \in Waiter
<1>1. waiting[l] \in Seq(Waiter)
  BY Zenon DEF TypeOK
<1> QED BY <1>1, SMT

LEMMA AskQueues ==
  ASSUME TypeOK, OneRequest, NEW t \in Task, NEW l \in Lock,
         NEW mode \in {"read", "write"}, Ask(t, l, mode), ~Queued(t, l)
  PROVE  /\ OneRequest'
         /\ \A u, k : k \in Lock /\ Queued(u, k)' =>
              Queued(u, k) \/ (u = t /\ k = l)
<1> DEFINE r == [task |-> t, mode |-> mode]
<1>1. r \in Waiter /\ r.task = t
  BY SMT DEF Waiter
<1>2. /\ waiting' = [waiting EXCEPT ![l] = Append(waiting[l], r)]
      /\ waiting \in [Lock -> Seq(Waiter)]
  BY Zenon DEF Ask, TypeOK
<1> HIDE DEF r
<1>3. /\ waiting'[l] = Append(waiting[l], r)
      /\ \A k \in Lock : k # l => waiting'[k] = waiting[k]
  BY <1>2, Zenon
<1> DEFINE n == Len(waiting[l])
<1>4. /\ n \in Nat /\ DOMAIN waiting[l] = 1 .. n
      /\ DOMAIN waiting'[l] = 1 .. n + 1
      /\ waiting'[l][n + 1] = r
      /\ \A i \in 1 .. n : waiting'[l][i] = waiting[l][i]
  <2>1. waiting[l] \in Seq(Waiter)
    BY <1>2, Zenon
  <2> QED BY <2>1, <1>1, <1>3, SMT
<1>5. \A i \in 1 .. n : waiting[l][i].task # t
  BY <1>4, Zenon DEF Queued
<1> HIDE DEF n
<1>6. \A i, j \in DOMAIN waiting'[l] :
        waiting'[l][i].task = waiting'[l][j].task => i = j
  <2> SUFFICES ASSUME NEW i \in 1 .. n + 1, NEW j \in 1 .. n + 1,
                      waiting'[l][i].task = waiting'[l][j].task
               PROVE  i = j
    BY <1>4, Zenon
  <2>1. CASE i \in 1 .. n /\ j \in 1 .. n
    BY <2>1, <1>4, Zenon DEF OneRequest
  <2>2. CASE i = n + 1 /\ j \in 1 .. n
    BY <2>2, <1>1, <1>4, <1>5, Zenon
  <2>3. CASE i \in 1 .. n /\ j = n + 1
    BY <2>3, <1>1, <1>4, <1>5, Zenon
  <2> QED BY <1>4, <2>1, <2>2, <2>3, SMT
<1>7. OneRequest'
  BY <1>3, <1>6, Zenon DEF OneRequest
<1>8. ASSUME NEW u, NEW k \in Lock, Queued(u, k)'
      PROVE  Queued(u, k) \/ (u = t /\ k = l)
  <2>1. CASE k # l
    BY <2>1, <1>3, <1>8, Zenon DEF Queued
  <2>2. CASE k = l
    <3>1. PICK i \in 1 .. n + 1 : waiting'[l][i].task = u
      BY <2>2, <1>4, <1>8, Zenon DEF Queued
    <3>2. CASE i \in 1 .. n
      BY <2>2, <3>1, <3>2, <1>4, Zenon DEF Queued
    <3>3. CASE i = n + 1
      BY <2>2, <3>1, <3>3, <1>1, <1>4, Zenon
    <3> QED BY <1>4, <3>2, <3>3, SMT
  <2> QED BY <2>1, <2>2
<1> QED BY <1>7, <1>8, Zenon

\* Task t goes on to label, having asked for nothing it has not got.
LEMMA WaitMoves ==
  ASSUME TypeOK, WaitInv, NEW t \in Task, NEW label, Goto(t, label),
         \A l \in Lock : Wants(pc[t], l) => Has(t, l),
         \A l \in Lock, u \in Task :
           Queued(u, l)' => Queued(u, l) \/ (u = t /\ Wants(label, l) /\ ~Has(t, l)'),
         \A l \in Lock, u \in Task : Has(u, l)' => Has(u, l),
         \A l \in Lock : Has(t, l)' => MayHave(label, l)
  PROVE  RequestsOfLabels'
<1> SUFFICES ASSUME NEW u \in Task, NEW l \in Lock
             PROVE  /\ Queued(u, l)' => Wants(pc'[u], l) /\ ~Has(u, l)'
                    /\ Has(u, l)' => MayHave(pc'[u], l)
  BY Zenon DEF RequestsOfLabels
<1>1. /\ pc' = [pc EXCEPT ![t] = label] /\ pc \in [Task -> Pc \cup MainPc]
      /\ Queued(u, l) => Wants(pc[u], l) /\ ~Has(u, l)
      /\ Has(u, l) => MayHave(pc[u], l)
  BY Zenon DEF Goto, TypeOK, WaitInv, RequestsOfLabels
<1>2. CASE u = t
  <2>1. pc'[u] = label
    BY <1>1, <1>2, Zenon
  <2>2. ~Queued(u, l)
    BY <1>1, <1>2, Zenon
  <2> QED BY <2>1, <2>2, <1>2, Zenon
<1>3. CASE u # t
  <2>1. pc'[u] = pc[u]
    BY <1>1, <1>3, Zenon
  <2> QED BY <2>1, <1>1, <1>3, Zenon
<1> QED BY <1>2, <1>3, Zenon

LEMMA NotQueued ==
  ASSUME WaitInv, NEW t \in Task, \A l \in Lock : Wants(pc[t], l) => Has(t, l)
  PROVE  \A l \in Lock : ~Queued(t, l)
BY Zenon DEF WaitInv, RequestsOfLabels

LEMMA WaitGoto ==
  ASSUME TypeOK, WaitInv, NEW t \in Task, NEW label, Goto(t, label),
         UNCHANGED lockVars,
         \A l \in Lock : Wants(pc[t], l) => Has(t, l),
         \A l \in Lock : MayHave(pc[t], l) => MayHave(label, l)
  PROVE  OneRequest' /\ RequestsOfLabels'
<1>1. UNCHANGED <<waiting, readers, writer>>
  BY Zenon DEF lockVars
<1>2. OneRequest'
  BY <1>1, Zenon DEF WaitInv, OneRequest
<1>3. \A l \in Lock, u \in Task :
        (Queued(u, l)' => Queued(u, l)) /\ (Has(u, l)' => Has(u, l))
  BY <1>1, Zenon DEF Queued, Has, Reads, Writes
<1>4. \A l \in Lock : Has(t, l)' => MayHave(label, l)
  BY <1>3, Zenon DEF WaitInv, RequestsOfLabels
<1> QED BY <1>2, <1>3, <1>4, WaitMoves, Zenon

LEMMA WaitAsk ==
  ASSUME TypeOK, WaitInv, NEW t \in Task, NEW label, Goto(t, label),
         NEW k \in Lock, NEW mode \in {"read", "write"}, Ask(t, k, mode),
         UNCHANGED <<readers, writer>>,
         \A l \in Lock : Wants(pc[t], l) => Has(t, l),
         ~MayHave(pc[t], k), Wants(label, k),
         \A l \in Lock : MayHave(pc[t], l) => MayHave(label, l)
  PROVE  OneRequest' /\ RequestsOfLabels'
<1>1. \A l \in Lock, u \in Task : Has(u, l)' <=> Has(u, l)
  BY Zenon DEF Has, Reads, Writes
<1>2. \A l \in Lock : ~Queued(t, l)
  BY NotQueued, Zenon
<1>3. ~Has(t, k)
  BY Zenon DEF WaitInv, RequestsOfLabels
<1>4. \A l \in Lock : Has(t, l)' => MayHave(label, l)
  BY <1>1, Zenon DEF WaitInv, RequestsOfLabels
<1>5. /\ OneRequest'
      /\ \A u, l : l \in Lock /\ Queued(u, l)' =>
           Queued(u, l) \/ (u = t /\ l = k)
  <2>1. OneRequest /\ ~Queued(t, k)
    BY <1>2, Zenon DEF WaitInv
  <2>2. Ask(t, k, mode)
    OBVIOUS
  <2>3. OneRequest'
    BY <2>1, <2>2, AskQueues, Zenon
  <2>4. \A u, l : l \in Lock /\ Queued(u, l)' =>
          Queued(u, l) \/ (u = t /\ l = k)
    BY <2>1, <2>2, AskQueues, Zenon
  <2> QED BY <2>3, <2>4
<1>6. \A l \in Lock, u \in Task :
        Queued(u, l)' => Queued(u, l) \/ (u = t /\ Wants(label, l) /\ ~Has(t, l)')
  BY <1>1, <1>3, <1>5, Zenon
<1> QED BY <1>1, <1>4, <1>5, <1>6, WaitMoves, Zenon

LEMMA WaitRelease ==
  ASSUME TypeOK, WaitInv, NEW t \in Task, NEW label, Goto(t, label),
         ReleaseAll(t),
         \A l \in Lock : Wants(pc[t], l) => Has(t, l)
  PROVE  OneRequest' /\ RequestsOfLabels'
<1>1. /\ waiting' = waiting
      /\ \A l \in Lock : /\ readers'[l] = readers[l] \ {t}
                         /\ writer'[l] = writer[l] \ {t}
  BY Zenon DEF ReleaseAll
<1>2. OneRequest'
  BY <1>1, Zenon DEF WaitInv, OneRequest
<1>3. \A l \in Lock, u \in Task : Queued(u, l)' => Queued(u, l)
  BY <1>1, Zenon DEF Queued
<1>4. \A l \in Lock, u \in Task : Has(u, l)' => Has(u, l) /\ u # t
  BY <1>1, SMT DEF Has, Reads, Writes
<1> QED BY <1>2, <1>3, <1>4, WaitMoves, Zenon

LEMMA WaitGrant ==
  ASSUME TypeOK, WaitInv, NEW l \in Lock, Grant(l)
  PROVE  OneRequest' /\ RequestsOfLabels'
<1>1. /\ waiting[l] \in Seq(Waiter) /\ waiting[l] # <<>>
      /\ waiting' = [waiting EXCEPT ![l] = Tail(waiting[l])]
      /\ waiting \in [Lock -> Seq(Waiter)]
      /\ readers \in [Lock -> SUBSET Task] /\ writer \in [Lock -> SUBSET Task]
  BY Zenon DEF TypeOK, Grant
<1> DEFINE r == Head(waiting[l])
           n == Len(waiting[l])
<1>2. /\ r \in Waiter /\ r = waiting[l][1] /\ n \in Nat \ {0}
      /\ DOMAIN waiting[l] = 1 .. n /\ DOMAIN waiting'[l] = 1 .. n - 1
      /\ \A i \in 1 .. n - 1 : waiting'[l][i] = waiting[l][i + 1]
  <2>1. waiting'[l] = Tail(waiting[l])
    BY <1>1, Zenon
  <2> QED BY <1>1, <2>1, SMT
<1>3. \A k \in Lock : k # l => waiting'[k] = waiting[k]
  BY <1>1, Zenon
<1>one. \A i, j \in 1 .. n :
          waiting[l][i].task = waiting[l][j].task => i = j
  BY <1>2, Zenon DEF WaitInv, OneRequest
<1>4. /\ r.task \in Task
      /\ \A i \in 2 .. n : waiting[l][i].task # r.task
  <2>1. r.task \in Task
    BY <1>2, SMT DEF Waiter
  <2>2. \A i \in 2 .. n : i # 1 /\ i \in 1 .. n /\ 1 \in 1 .. n
    BY <1>2, SMT
  <2> QED BY <1>2, <2>1, <2>2, <1>one, Zenon
<1>5. \/ /\ readers' = [readers EXCEPT ![l] = readers[l] \cup {r.task}]
         /\ writer' = writer
      \/ /\ readers' = readers
         /\ writer' = [writer EXCEPT ![l] = {r.task}]
         /\ writer[l] = {}
  BY Zenon DEF Grant
<1>6. pc' = pc
  BY Zenon DEF Grant, taskVars
<1> HIDE DEF r, n
<1>7. \A k \in Lock, u \in Task :
        Has(u, k)' => Has(u, k) \/ (k = l /\ u = r.task)
  BY <1>1, <1>5, SMT DEF Has, Reads, Writes
<1>8. \A k \in Lock, u \in Task :
        Queued(u, k)' => Queued(u, k) /\ ~(k = l /\ u = r.task)
  <2> SUFFICES ASSUME NEW k \in Lock, NEW u \in Task, Queued(u, k)'
               PROVE  Queued(u, k) /\ ~(k = l /\ u = r.task)
    OBVIOUS
  <2>1. CASE k # l
    BY <2>1, <1>3, Zenon DEF Queued
  <2>2. CASE k = l
    <3>1. PICK i \in 1 .. n - 1 : waiting'[l][i].task = u
      BY <2>2, <1>2, Zenon DEF Queued
    <3>2. i + 1 \in 2 .. n /\ i + 1 \in 1 .. n
      BY <1>2, SMT
    <3>3. waiting[l][i + 1].task = u
      BY <3>1, <1>2, Zenon
    <3> QED BY <2>2, <3>2, <3>3, <1>2, <1>4, Zenon DEF Queued
  <2> QED BY <2>1, <2>2
<1>9. OneRequest'
  <2>1. ASSUME NEW i \in 1 .. n - 1, NEW j \in 1 .. n - 1,
               waiting'[l][i].task = waiting'[l][j].task
        PROVE  i = j
    <3>1. i + 1 \in 1 .. n /\ j + 1 \in 1 .. n
      BY <1>2, SMT
    <3>2. i + 1 = j + 1
      BY <2>1, <3>1, <1>2, <1>one, Zenon
    <3> QED BY <3>2, SMT
  <2> QED BY <2>1, <1>2, <1>3, Zenon DEF WaitInv, OneRequest
<1>10. Queued(r.task, l)
  <2>1. 1 \in 1 .. n
    BY <1>2, SMT
  <2> QED BY <2>1, <1>2, Zenon DEF Queued
<1>11. MayHave(pc[r.task], l)
  <2>1. Wants(pc[r.task], l)
    BY <1>4, <1>10, Zenon DEF WaitInv, RequestsOfLabels
  <2> QED BY <2>1, SMT DEF Wants, MayHave
<1> QED BY <1>4, <1>6, <1>7, <1>8, <1>9, <1>11, Zenon DEF WaitInv, RequestsOfLabels

LEMMA ReadyStays ==
  ASSUME TypeOK, StatusWhenReady, NEW t \in Worker, NEW label \in Pc,
         Goto(t, label), label \in {"status", "statusRunning"} => Ready
  PROVE  StatusWhenReady'
<1>1. /\ pc' = [pc EXCEPT ![t] = label] /\ pc \in [Task -> Pc \cup MainPc]
      /\ t \in Task /\ "main" \in Task /\ t # "main"
      /\ \A u \in Worker : u \in Task
  BY Zenon DEF Goto, TypeOK, Task, Worker
<1>2. pc'["main"] = pc["main"] /\ pc'[t] = label
  BY <1>1, Zenon
<1>3. \A u \in Worker : u # t => pc'[u] = pc[u]
  BY <1>1, Zenon
<1> QED BY <1>2, <1>3, Zenon DEF StatusWhenReady, Ready

LEMMA MainMoves ==
  ASSUME TypeOK, StatusWhenReady, NEW label \in MainPc, Goto("main", label),
         pc["main"] # "ready"
  PROVE  StatusWhenReady'
<1>1. /\ pc' = [pc EXCEPT !["main"] = label] /\ pc \in [Task -> Pc \cup MainPc]
      /\ "main" \in Task /\ "main" \notin Worker
      /\ \A u \in Worker : u \in Task
  BY Zenon DEF Goto, TypeOK, Task, Worker
<1>2. pc'["main"] = label /\ \A u \in Worker : pc'[u] = pc[u]
  BY <1>1, Zenon
<1> QED BY <1>2, Zenon DEF StatusWhenReady, Ready

\* What is granted, and what is not, leaves the label of its task alone.
LEMMA StatusKept ==
  ASSUME StatusWhenReady, pc' = pc PROVE StatusWhenReady'
BY Zenon DEF StatusWhenReady, Ready

LEMMA WaitNext == TypeOK /\ WaitInv /\ [Next]_vars => WaitInv'
<1> SUFFICES ASSUME TypeOK, WaitInv, [Next]_vars PROVE WaitInv'
  OBVIOUS
<1> USE DEF lockVars, poolVars, clientVars, taskVars
<1>type. /\ StatusWhenReady /\ "main" \in Task /\ "pool" \in Lock /\ "running" \in Lock
         /\ \A t \in Worker : t \in Task
         /\ \A l \in Lock : l = "pool" \/ l = "running"
  BY Zenon DEF WaitInv, Task, Worker, Lock
<1>rest. ASSUME UNCHANGED <<lockVars, pc>> PROVE WaitInv'
  BY <1>rest, Zenon DEF WaitInv, StatusWhenReady, Ready, OneRequest,
     RequestsOfLabels, Queued, Has, Reads, Writes
<1>1. ASSUME NEW t \in Worker, HandleTemplateEvent(t) PROVE WaitInv'
  <2>1. /\ pc[t] = "idle" /\ Goto(t, "generate")
        /\ UNCHANGED lockVars
    BY <1>1, Zenon DEF HandleTemplateEvent, Called
  <2>2. \A l \in Lock : Wants(pc[t], l) => Has(t, l)
    BY <2>1, SMT DEF Wants, Has, Lock
  <2>3. \A l \in Lock : MayHave(pc[t], l) => MayHave("generate", l)
    BY <2>1, SMT DEF MayHave, Lock
  <2>5. OneRequest' /\ RequestsOfLabels'
    BY <2>1, <2>2, <2>3, <1>type, WaitGoto, Zenon
  <2>6. StatusWhenReady'
    BY <2>1, <1>type, ReadyStays, SMT DEF Pc
  <2> QED BY <2>5, <2>6, Zenon DEF WaitInv
<1>2. ASSUME NEW t \in Worker, GenerateFails(t) PROVE WaitInv'
  <2>1. /\ pc[t] = "generate" /\ Goto(t, "idle")
        /\ UNCHANGED lockVars
    BY <1>2, Zenon DEF GenerateFails
  <2>2. \A l \in Lock : Wants(pc[t], l) => Has(t, l)
    BY <2>1, SMT DEF Wants, Has, Lock
  <2>3. \A l \in Lock : MayHave(pc[t], l) => MayHave("idle", l)
    BY <2>1, SMT DEF MayHave, Lock
  <2>5. OneRequest' /\ RequestsOfLabels'
    BY <2>1, <2>2, <2>3, <1>type, WaitGoto, Zenon
  <2>6. StatusWhenReady'
    BY <2>1, <1>type, ReadyStays, SMT DEF Pc
  <2> QED BY <2>5, <2>6, Zenon DEF WaitInv
<1>3. ASSUME NEW t \in Worker, DropClient(t) PROVE WaitInv'
  <2>1. /\ pc[t] = "reconnect" /\ Goto(t, "dial")
        /\ UNCHANGED lockVars
        /\ Writes(t, "pool")
    BY <1>3, Zenon DEF DropClient
  <2>2. \A l \in Lock : Wants(pc[t], l) => Has(t, l)
    BY <2>1, SMT DEF Wants, Has, Lock
  <2>3. \A l \in Lock : MayHave(pc[t], l) => MayHave("dial", l)
    BY <2>1, SMT DEF MayHave, Lock
  <2>5. OneRequest' /\ RequestsOfLabels'
    BY <2>1, <2>2, <2>3, <1>type, WaitGoto, Zenon
  <2>6. StatusWhenReady'
    BY <2>1, <1>type, ReadyStays, SMT DEF Pc
  <2> QED BY <2>5, <2>6, Zenon DEF WaitInv
<1>4. ASSUME NEW t \in Worker, Spawn(t) PROVE WaitInv'
  <2>1. /\ pc[t] = "spawn" /\ Goto(t, "idle")
        /\ UNCHANGED lockVars
    BY <1>4, Zenon DEF Spawn
  <2>2. \A l \in Lock : Wants(pc[t], l) => Has(t, l)
    BY <2>1, SMT DEF Wants, Has, Lock
  <2>3. \A l \in Lock : MayHave(pc[t], l) => MayHave("idle", l)
    BY <2>1, SMT DEF MayHave, Lock
  <2>5. OneRequest' /\ RequestsOfLabels'
    BY <2>1, <2>2, <2>3, <1>type, WaitGoto, Zenon
  <2>6. StatusWhenReady'
    BY <2>1, <1>type, ReadyStays, SMT DEF Pc
  <2> QED BY <2>5, <2>6, Zenon DEF WaitInv
<1>5. ASSUME NEW t \in Worker, Submit(t) PROVE WaitInv'
  <2>1. /\ pc[t] = "idle" /\ Goto(t, "submit")
        /\ Ask(t, "pool", "read") /\ UNCHANGED <<readers, writer>>
    BY <1>5, Zenon DEF Submit, Called
  <2>2. \A l \in Lock : Wants(pc[t], l) => Has(t, l)
    BY <2>1, SMT DEF Wants, Has, Lock
  <2>3. \A l \in Lock : MayHave(pc[t], l) => MayHave("submit", l)
    BY <2>1, SMT DEF MayHave, Lock
  <2>4. ~MayHave(pc[t], "pool") /\ Wants("submit", "pool")
    BY <2>1, SMT DEF MayHave, Wants
  <2>5. OneRequest' /\ RequestsOfLabels'
    BY <2>1, <2>2, <2>3, <2>4, <1>type, WaitAsk, Zenon
  <2>6. StatusWhenReady'
    BY <2>1, <1>type, ReadyStays, SMT DEF Pc
  <2> QED BY <2>5, <2>6, Zenon DEF WaitInv
<1>6. ASSUME NEW t \in Worker, Look(t) PROVE WaitInv'
  <2>1. /\ pc[t] = "idle" /\ Goto(t, "look")
        /\ Ask(t, "pool", "read") /\ UNCHANGED <<readers, writer>>
    BY <1>6, Zenon DEF Look, Called
  <2>2. \A l \in Lock : Wants(pc[t], l) => Has(t, l)
    BY <2>1, SMT DEF Wants, Has, Lock
  <2>3. \A l \in Lock : MayHave(pc[t], l) => MayHave("look", l)
    BY <2>1, SMT DEF MayHave, Lock
  <2>4. ~MayHave(pc[t], "pool") /\ Wants("look", "pool")
    BY <2>1, SMT DEF MayHave, Wants
  <2>5. OneRequest' /\ RequestsOfLabels'
    BY <2>1, <2>2, <2>3, <2>4, <1>type, WaitAsk, Zenon
  <2>6. StatusWhenReady'
    BY <2>1, <1>type, ReadyStays, SMT DEF Pc
  <2> QED BY <2>5, <2>6, Zenon DEF WaitInv
<1>7. ASSUME NEW t \in Worker, Reconnect(t) PROVE WaitInv'
  <2>1. /\ pc[t] = "idle" /\ Goto(t, "reconnect")
        /\ Ask(t, "pool", "write") /\ UNCHANGED <<readers, writer>>
    BY <1>7, Zenon DEF Reconnect, Called
  <2>2. \A l \in Lock : Wants(pc[t], l) => Has(t, l)
    BY <2>1, SMT DEF Wants, Has, Lock
  <2>3. \A l \in Lock : MayHave(pc[t], l) => MayHave("reconnect", l)
    BY <2>1, SMT DEF MayHave, Lock
  <2>4. ~MayHave(pc[t], "pool") /\ Wants("reconnect", "pool")
    BY <2>1, SMT DEF MayHave, Wants
  <2>5. OneRequest' /\ RequestsOfLabels'
    BY <2>1, <2>2, <2>3, <2>4, <1>type, WaitAsk, Zenon
  <2>6. StatusWhenReady'
    BY <2>1, <1>type, ReadyStays, SMT DEF Pc
  <2> QED BY <2>5, <2>6, Zenon DEF WaitInv
<1>8. ASSUME NEW t \in Worker, GenerateTemplate(t) PROVE WaitInv'
  <2>1. /\ pc[t] = "generate" /\ Goto(t, "generated")
        /\ UNCHANGED lockVars
    BY <1>8, Zenon DEF GenerateTemplate
  <2>2. \A l \in Lock : Wants(pc[t], l) => Has(t, l)
    BY <2>1, SMT DEF Wants, Has, Lock
  <2>3. \A l \in Lock : MayHave(pc[t], l) => MayHave("generated", l)
    BY <2>1, SMT DEF MayHave, Lock
  <2>5. OneRequest' /\ RequestsOfLabels'
    BY <2>1, <2>2, <2>3, <1>type, WaitGoto, Zenon
  <2>6. StatusWhenReady'
    BY <2>1, <1>type, ReadyStays, SMT DEF Pc
  <2> QED BY <2>5, <2>6, Zenon DEF WaitInv
<1>update. ASSUME NEW t \in Worker, UpdateBlockTemplate(t) PROVE WaitInv'
  <2>1. /\ pc[t] = "generated" /\ Goto(t, "update")
        /\ Ask(t, "pool", "write") /\ UNCHANGED <<readers, writer>>
    BY <1>update, Zenon DEF UpdateBlockTemplate
  <2>2. \A l \in Lock : Wants(pc[t], l) => Has(t, l)
    BY <2>1, SMT DEF Wants, Has, Lock
  <2>3. \A l \in Lock : MayHave(pc[t], l) => MayHave("update", l)
    BY <2>1, SMT DEF MayHave, Lock
  <2>4. ~MayHave(pc[t], "pool") /\ Wants("update", "pool")
    BY <2>1, SMT DEF MayHave, Wants
  <2>5. OneRequest' /\ RequestsOfLabels'
    BY <2>1, <2>2, <2>3, <2>4, <1>type, WaitAsk, Zenon
  <2>6. StatusWhenReady'
    BY <2>1, <1>type, ReadyStays, SMT DEF Pc
  <2> QED BY <2>5, <2>6, Zenon DEF WaitInv
<1>9. ASSUME NEW t \in Worker, StatusRunning(t) PROVE WaitInv'
  <2>1. /\ pc[t] = "status" /\ Goto(t, "statusRunning")
        /\ Ask(t, "running", "read") /\ UNCHANGED <<readers, writer>>
        /\ Reads(t, "pool")
    BY <1>9, Zenon DEF StatusRunning
  <2>2. \A l \in Lock : Wants(pc[t], l) => Has(t, l)
    BY <2>1, SMT DEF Wants, Has, Lock
  <2>3. \A l \in Lock : MayHave(pc[t], l) => MayHave("statusRunning", l)
    BY <2>1, SMT DEF MayHave, Lock
  <2>4. ~MayHave(pc[t], "running") /\ Wants("statusRunning", "running")
    BY <2>1, SMT DEF MayHave, Wants
  <2>5. OneRequest' /\ RequestsOfLabels'
    BY <2>1, <2>2, <2>3, <2>4, <1>type, WaitAsk, Zenon
  <2>6. Ready
    BY <2>1, <1>type, Zenon DEF StatusWhenReady
  <2>7. StatusWhenReady'
    BY <2>1, <2>6, <1>type, ReadyStays, SMT DEF Pc
  <2> QED BY <2>5, <2>7, Zenon DEF WaitInv
<1>10. ASSUME NEW t \in Worker, FetchReturns(t) PROVE WaitInv'
  <2>1. /\ pc[t] = "fetch" /\ Goto(t, "idle")
        /\ ReleaseAll(t)
    BY <1>10, Zenon DEF FetchReturns
  <2>2. \A l \in Lock : Wants(pc[t], l) => Has(t, l)
    BY <2>1, SMT DEF Wants, Has, Lock
  <2>5. OneRequest' /\ RequestsOfLabels'
    BY <2>1, <2>2, <1>type, WaitRelease, Zenon
  <2>6. StatusWhenReady'
    BY <2>1, <1>type, ReadyStays, SMT DEF Pc
  <2> QED BY <2>5, <2>6, Zenon DEF WaitInv
<1>11. ASSUME NEW t \in Worker, CallFails(t) PROVE WaitInv'
  <2>1. /\ (pc[t] = "fetch" \/ pc[t] = "submitting") /\ Goto(t, "idle")
        /\ ReleaseAll(t)
    BY <1>11, Zenon DEF CallFails
  <2>2. \A l \in Lock : Wants(pc[t], l) => Has(t, l)
    BY <2>1, SMT DEF Wants, Has, Lock
  <2>5. OneRequest' /\ RequestsOfLabels'
    BY <2>1, <2>2, <1>type, WaitRelease, Zenon
  <2>6. StatusWhenReady'
    BY <2>1, <1>type, ReadyStays, SMT DEF Pc
  <2> QED BY <2>5, <2>6, Zenon DEF WaitInv
<1>12. ASSUME NEW t \in Worker, SubmitReturns(t) PROVE WaitInv'
  <2>1. /\ pc[t] = "submitting" /\ Goto(t, "idle")
        /\ ReleaseAll(t)
    BY <1>12, Zenon DEF SubmitReturns
  <2>2. \A l \in Lock : Wants(pc[t], l) => Has(t, l)
    BY <2>1, SMT DEF Wants, Has, Lock
  <2>5. OneRequest' /\ RequestsOfLabels'
    BY <2>1, <2>2, <1>type, WaitRelease, Zenon
  <2>6. StatusWhenReady'
    BY <2>1, <1>type, ReadyStays, SMT DEF Pc
  <2> QED BY <2>5, <2>6, Zenon DEF WaitInv
<1>13. ASSUME NEW t \in Worker, LookReturns(t) PROVE WaitInv'
  <2>1. /\ pc[t] = "look" /\ Goto(t, "idle")
        /\ ReleaseAll(t)
        /\ Reads(t, "pool")
    BY <1>13, Zenon DEF LookReturns
  <2>2. \A l \in Lock : Wants(pc[t], l) => Has(t, l)
    BY <2>1, SMT DEF Wants, Has, Lock
  <2>5. OneRequest' /\ RequestsOfLabels'
    BY <2>1, <2>2, <1>type, WaitRelease, Zenon
  <2>6. StatusWhenReady'
    BY <2>1, <1>type, ReadyStays, SMT DEF Pc
  <2> QED BY <2>5, <2>6, Zenon DEF WaitInv
<1>14. ASSUME NEW t \in Worker, StatusReturns(t) PROVE WaitInv'
  <2>1. /\ pc[t] = "statusRunning" /\ Goto(t, "idle")
        /\ ReleaseAll(t)
        /\ Reads(t, "running")
    BY <1>14, Zenon DEF StatusReturns
  <2>2. \A l \in Lock : Wants(pc[t], l) => Has(t, l)
    BY <2>1, SMT DEF Wants, Has, Lock
  <2>5. OneRequest' /\ RequestsOfLabels'
    BY <2>1, <2>2, <1>type, WaitRelease, Zenon
  <2>6. StatusWhenReady'
    BY <2>1, <1>type, ReadyStays, SMT DEF Pc
  <2> QED BY <2>5, <2>6, Zenon DEF WaitInv
<1>15. ASSUME NEW t \in Worker, ReconnectRefused(t) PROVE WaitInv'
  <2>1. /\ pc[t] = "reconnect" /\ Goto(t, "idle")
        /\ ReleaseAll(t)
        /\ Writes(t, "pool")
    BY <1>15, Zenon DEF ReconnectRefused
  <2>2. \A l \in Lock : Wants(pc[t], l) => Has(t, l)
    BY <2>1, SMT DEF Wants, Has, Lock
  <2>5. OneRequest' /\ RequestsOfLabels'
    BY <2>1, <2>2, <1>type, WaitRelease, Zenon
  <2>6. StatusWhenReady'
    BY <2>1, <1>type, ReadyStays, SMT DEF Pc
  <2> QED BY <2>5, <2>6, Zenon DEF WaitInv
<1>16. ASSUME NEW t \in Worker, DialFails(t) PROVE WaitInv'
  <2>1. /\ pc[t] = "dial" /\ Goto(t, "idle")
        /\ ReleaseAll(t)
    BY <1>16, Zenon DEF DialFails
  <2>2. \A l \in Lock : Wants(pc[t], l) => Has(t, l)
    BY <2>1, SMT DEF Wants, Has, Lock
  <2>5. OneRequest' /\ RequestsOfLabels'
    BY <2>1, <2>2, <1>type, WaitRelease, Zenon
  <2>6. StatusWhenReady'
    BY <2>1, <1>type, ReadyStays, SMT DEF Pc
  <2> QED BY <2>5, <2>6, Zenon DEF WaitInv
<1>17. ASSUME NEW t \in Worker, NEW c \in Client, Dial(t, c) PROVE WaitInv'
  <2>1. /\ pc[t] = "dial" /\ Goto(t, "spawn")
        /\ ReleaseAll(t)
    BY <1>17, Zenon DEF Dial
  <2>2. \A l \in Lock : Wants(pc[t], l) => Has(t, l)
    BY <2>1, SMT DEF Wants, Has, Lock
  <2>5. OneRequest' /\ RequestsOfLabels'
    BY <2>1, <2>2, <1>type, WaitRelease, Zenon
  <2>6. StatusWhenReady'
    BY <2>1, <1>type, ReadyStays, SMT DEF Pc
  <2> QED BY <2>5, <2>6, Zenon DEF WaitInv
<1>18. ASSUME NEW t \in Operator, Status(t) PROVE WaitInv'
  <2>0. t \in Worker /\ t \notin Requester
    BY SMT DEF Worker
  <2>1. /\ pc[t] = "idle" /\ Goto(t, "status")
        /\ Ask(t, "pool", "read") /\ UNCHANGED <<readers, writer>>
        /\ Ready
    BY <1>18, <2>0, Zenon DEF Status, Called
  <2>2. \A l \in Lock : Wants(pc[t], l) => Has(t, l)
    BY <2>1, SMT DEF Wants, Has, Lock
  <2>3. \A l \in Lock : MayHave(pc[t], l) => MayHave("status", l)
    BY <2>1, SMT DEF MayHave, Lock
  <2>4. ~MayHave(pc[t], "pool") /\ Wants("status", "pool")
    BY <2>1, SMT DEF MayHave, Wants
  <2>5. OneRequest' /\ RequestsOfLabels'
    BY <2>0, <2>1, <2>2, <2>3, <2>4, <1>type, WaitAsk, Zenon
  <2>6. StatusWhenReady'
    BY <2>0, <2>1, <1>type, ReadyStays, SMT DEF Pc
  <2> QED BY <2>5, <2>6, Zenon DEF WaitInv
<1>19. ASSUME NEW t \in Worker, SetTemplate(t) PROVE WaitInv'
  <2>1. /\ pc[t] = "update" /\ Writes(t, "pool")
        /\ \/ Goto(t, "idle") /\ ReleaseAll(t)
           \/ Goto(t, "fetch") /\ UNCHANGED lockVars
    BY <1>19, Zenon DEF SetTemplate
  <2>2. \A l \in Lock : Wants(pc[t], l) => Has(t, l)
    BY <2>1, SMT DEF Wants, Has, Lock
  <2>3. \A l \in Lock : MayHave(pc[t], l) => MayHave("fetch", l)
    BY <2>1, SMT DEF MayHave, Lock
  <2>4. OneRequest' /\ RequestsOfLabels'
    BY <2>1, <2>2, <2>3, <1>type, WaitRelease, WaitGoto, Zenon
  <2>5. StatusWhenReady'
    BY <2>1, <1>type, ReadyStays, SMT DEF Pc
  <2> QED BY <2>4, <2>5, Zenon DEF WaitInv
<1>20. ASSUME NEW t \in Worker, SubmitPow(t) PROVE WaitInv'
  <2>1. /\ pc[t] = "submit" /\ Reads(t, "pool")
        /\ \/ Goto(t, "idle") /\ ReleaseAll(t)
           \/ Goto(t, "submitting") /\ UNCHANGED lockVars
    BY <1>20, Zenon DEF SubmitPow
  <2>2. \A l \in Lock : Wants(pc[t], l) => Has(t, l)
    BY <2>1, SMT DEF Wants, Has, Lock
  <2>3. \A l \in Lock : MayHave(pc[t], l) => MayHave("submitting", l)
    BY <2>1, SMT DEF MayHave, Lock
  <2>4. OneRequest' /\ RequestsOfLabels'
    BY <2>1, <2>2, <2>3, <1>type, WaitRelease, WaitGoto, Zenon
  <2>5. StatusWhenReady'
    BY <2>1, <1>type, ReadyStays, SMT DEF Pc
  <2> QED BY <2>4, <2>5, Zenon DEF WaitInv
<1>21. CASE NewSolo
  <2>1. /\ pc["main"] = "new" /\ Goto("main", "start")
        /\ UNCHANGED lockVars
    BY <1>21, Zenon DEF NewSolo
  <2>2. \A l \in Lock : Wants(pc["main"], l) => Has("main", l)
    BY <2>1, SMT DEF Wants, Has, Lock
  <2>3. \A l \in Lock : MayHave(pc["main"], l) => MayHave("start", l)
    BY <2>1, SMT DEF MayHave, Lock
  <2>5. OneRequest' /\ RequestsOfLabels'
    BY <2>1, <2>2, <2>3, <1>type, WaitGoto, Zenon
  <2>6. StatusWhenReady'
    BY <2>1, <1>type, MainMoves, SMT DEF MainPc
  <2> QED BY <2>5, <2>6, Zenon DEF WaitInv
<1>22. CASE NewFails
  <2>1. /\ pc["main"] = "new" /\ Goto("main", "failed")
        /\ UNCHANGED lockVars
    BY <1>22, Zenon DEF NewFails
  <2>2. \A l \in Lock : Wants(pc["main"], l) => Has("main", l)
    BY <2>1, SMT DEF Wants, Has, Lock
  <2>3. \A l \in Lock : MayHave(pc["main"], l) => MayHave("failed", l)
    BY <2>1, SMT DEF MayHave, Lock
  <2>5. OneRequest' /\ RequestsOfLabels'
    BY <2>1, <2>2, <2>3, <1>type, WaitGoto, Zenon
  <2>6. StatusWhenReady'
    BY <2>1, <1>type, MainMoves, SMT DEF MainPc
  <2> QED BY <2>5, <2>6, Zenon DEF WaitInv
<1>23. CASE Start
  <2>1. /\ pc["main"] = "start" /\ Goto("main", "startRunning")
        /\ Ask("main", "running", "write") /\ UNCHANGED <<readers, writer>>
    BY <1>23, Zenon DEF Start
  <2>2. \A l \in Lock : Wants(pc["main"], l) => Has("main", l)
    BY <2>1, SMT DEF Wants, Has, Lock
  <2>3. \A l \in Lock : MayHave(pc["main"], l) => MayHave("startRunning", l)
    BY <2>1, SMT DEF MayHave, Lock
  <2>4. ~MayHave(pc["main"], "running") /\ Wants("startRunning", "running")
    BY <2>1, SMT DEF MayHave, Wants
  <2>5. OneRequest' /\ RequestsOfLabels'
    BY <2>1, <2>2, <2>3, <2>4, <1>type, WaitAsk, Zenon
  <2>6. StatusWhenReady'
    BY <2>1, <1>type, MainMoves, SMT DEF MainPc
  <2> QED BY <2>5, <2>6, Zenon DEF WaitInv
<1>24. CASE StartRunning
  <2>1. /\ pc["main"] = "startRunning" /\ Goto("main", "startPool")
        /\ Ask("main", "pool", "read") /\ UNCHANGED <<readers, writer>>
        /\ Writes("main", "running")
    BY <1>24, Zenon DEF StartRunning
  <2>2. \A l \in Lock : Wants(pc["main"], l) => Has("main", l)
    BY <2>1, SMT DEF Wants, Has, Lock
  <2>3. \A l \in Lock : MayHave(pc["main"], l) => MayHave("startPool", l)
    BY <2>1, SMT DEF MayHave, Lock
  <2>4. ~MayHave(pc["main"], "pool") /\ Wants("startPool", "pool")
    BY <2>1, SMT DEF MayHave, Wants
  <2>5. OneRequest' /\ RequestsOfLabels'
    BY <2>1, <2>2, <2>3, <2>4, <1>type, WaitAsk, Zenon
  <2>6. StatusWhenReady'
    BY <2>1, <1>type, MainMoves, SMT DEF MainPc
  <2> QED BY <2>5, <2>6, Zenon DEF WaitInv
<1>25. CASE StartLoop
  <2>1. /\ pc["main"] = "startPool" /\ Goto("main", "ready")
        /\ ReleaseAll("main")
        /\ Reads("main", "pool")
    BY <1>25, Zenon DEF StartLoop
  <2>2. \A l \in Lock : Wants(pc["main"], l) => Has("main", l)
    BY <2>1, SMT DEF Wants, Has, Lock
  <2>5. OneRequest' /\ RequestsOfLabels'
    BY <2>1, <2>2, <1>type, WaitRelease, Zenon
  <2>6. StatusWhenReady'
    BY <2>1, <1>type, MainMoves, SMT DEF MainPc
  <2> QED BY <2>5, <2>6, Zenon DEF WaitInv
<1>26. ASSUME NEW c \in Client, NewConnects(c) PROVE WaitInv'
  <2>1. /\ pc["main"] = "new" /\ Goto("main", "start")
        /\ UNCHANGED lockVars
    BY <1>26, Zenon DEF NewConnects
  <2>2. \A l \in Lock : Wants(pc["main"], l) => Has("main", l)
    BY <2>1, SMT DEF Wants, Has, Lock
  <2>3. \A l \in Lock : MayHave(pc["main"], l) => MayHave("start", l)
    BY <2>1, SMT DEF MayHave, Lock
  <2>5. OneRequest' /\ RequestsOfLabels'
    BY <2>1, <2>2, <2>3, <1>type, WaitGoto, Zenon
  <2>6. StatusWhenReady'
    BY <2>1, <1>type, MainMoves, SMT DEF MainPc
  <2> QED BY <2>5, <2>6, Zenon DEF WaitInv
<1>27. ASSUME NEW l \in Lock, Grant(l) PROVE WaitInv'
  <2>1. pc' = pc
    BY <1>27, Zenon DEF Grant
  <2> QED BY <2>1, <1>27, <1>type, WaitGrant, StatusKept, Zenon DEF WaitInv
<1>28. ASSUME NEW c \in Client, LoopTakes(c) PROVE WaitInv'
  BY <1>28, <1>rest, Zenon DEF LoopTakes
<1>29. ASSUME NEW c \in Client, LoopStops(c) PROVE WaitInv'
  BY <1>29, <1>rest, Zenon DEF LoopStops
<1>30. ASSUME NEW c \in Client, ConnBreaks(c) PROVE WaitInv'
  BY <1>30, <1>rest, Zenon DEF ConnBreaks
<1>31. CASE UNCHANGED vars
  BY <1>31, <1>rest, Zenon DEF vars
<1> QED
  BY <1>update, <1>1, <1>2, <1>3, <1>4, <1>5, <1>6, <1>7, <1>8, <1>9, <1>10, <1>11,
     <1>12, <1>13, <1>14, <1>15, <1>16, <1>17, <1>18, <1>19, <1>20, <1>21,
     <1>22, <1>23, <1>24, <1>25, <1>26, <1>27, <1>28, <1>29, <1>30, <1>31, Zenon
     DEF Next, Main, Call, Step

LEMMA WaitStart == Init => WaitInv
<1> SUFFICES ASSUME Init PROVE WaitInv
  OBVIOUS
<1>1. \A l \in Lock : waiting[l] = <<>> /\ readers[l] = {} /\ writer[l] = {}
  BY Zenon DEF Init
<1>2. OneRequest /\ RequestsOfLabels
  <2>1. DOMAIN <<>> = {}
    BY SMT
  <2> QED BY <1>1, <2>1, Zenon DEF OneRequest, RequestsOfLabels, Queued, Has,
             Reads, Writes
<1>3. /\ "main" \in Task /\ "main" \notin Worker
      /\ pc = [t \in Task |-> IF t = "main" THEN "new" ELSE "idle"]
      /\ \A t \in Worker : t \in Task
  BY Zenon DEF Init, Task, Worker
<1>4. pc["main"] = "new" /\ \A t \in Worker : pc[t] = "idle"
  BY <1>3, Zenon
<1> QED BY <1>2, <1>4, SMT DEF WaitInv, StatusWhenReady, Pc, MainPc

\* A set of naturals has a least element.
LEMMA Least ==
  ASSUME NEW I \in SUBSET Nat, I # {}
  PROVE  \E i \in I : \A j \in I : i <= j
<1>1. IsWellFoundedOn(OpToRel(<, Nat), Nat)
  BY NatLessThanWellFounded
<1>2. PICK i \in I : \A j \in I : ~(<<j, i>> \in OpToRel(<, Nat))
  BY <1>1, WFMin, Zenon
<1>3. \A j \in I : ~(j < i)
  BY <1>2, Zenon DEF OpToRel
<1> QED BY <1>3, SMT

\* Of the tasks of a group that wait for l, one is the first in the queue.
LEMMA FirstOfGroup ==
  ASSUME TypeOK, NEW l \in Lock, NEW group, NEW u \in group, Queued(u, l)
  PROVE  \E t \in group : \E i \in DOMAIN waiting[l] :
           /\ waiting[l][i].task = t
           /\ \A j \in 1 .. i - 1 : waiting[l][j].task \notin group
<1> DEFINE I == {i \in DOMAIN waiting[l] : waiting[l][i].task \in group}
<1>1. DOMAIN waiting[l] = 1 .. Len(waiting[l]) /\ Len(waiting[l]) \in Nat
  BY Waiting, Zenon
<1>2. I \in SUBSET Nat
  BY <1>1, SMT
<1>3. I # {}
  BY Zenon DEF Queued
<1>4. PICK i \in I : \A j \in I : i <= j
  BY <1>2, <1>3, Least, Zenon
<1>5. \A j \in 1 .. i - 1 : j \in DOMAIN waiting[l] /\ ~(i <= j)
  BY <1>1, SMT
<1> QED BY <1>4, <1>5, Zenon

\* Who waits for one lock and has another is get_status, or start before any
\* get_status.
LEMMA FreeOfCircles == TypeOK /\ WaitInv => NoDeadlock
<1> SUFFICES ASSUME TypeOK, WaitInv, NEW group \in SUBSET Task, group # {},
                    \A t \in group : \E u \in group : KeepsWaiting(u, t)
             PROVE  FALSE
  BY Zenon DEF NoDeadlock
<1>1. \A t \in group : \E l \in Lock : Queued(t, l)
  BY Zenon DEF KeepsWaiting, Queued
<1>2. \A t \in group, l \in Lock :
        /\ t \in Task
        /\ Queued(t, l) => Wants(pc[t], l) /\ ~Has(t, l)
        /\ Has(t, l) => MayHave(pc[t], l)
  BY Zenon DEF WaitInv, RequestsOfLabels
<1>3. \A t \in Task : t # "main" => t \in Worker
  BY Zenon DEF Task
<1>4. \A t \in group : ~Queued(t, "running")
  <2> SUFFICES ASSUME NEW u \in group, Queued(u, "running") PROVE FALSE
    OBVIOUS
  <2>1. "running" \in Lock
    BY Zenon DEF Lock
  <2>2. PICK t \in group : \E i \in DOMAIN waiting["running"] :
          /\ waiting["running"][i].task = t
          /\ \A j \in 1 .. i - 1 : waiting["running"][j].task \notin group
    BY <2>1, FirstOfGroup, Zenon
  <2>3. PICK i \in DOMAIN waiting["running"] :
          /\ waiting["running"][i].task = t
          /\ \A j \in 1 .. i - 1 : waiting["running"][j].task \notin group
    BY <2>2
  <2>4. Queued(t, "running")
    BY <2>3, Zenon DEF Queued
  <2>5. pc[t] \in {"startRunning", "statusRunning"}
    BY <2>1, <2>4, <1>2, SMT DEF Wants
  <2>6. ~Queued(t, "pool")
    BY <2>5, <1>2, SMT DEF Wants, Lock
  <2>7. PICK v \in group : Has(v, "running")
    <3>1. PICK v \in group : KeepsWaiting(v, t)
      OBVIOUS
    <3>2. PICK l \in Lock : \E k \in DOMAIN waiting[l] :
            /\ waiting[l][k].task = t
            /\ Has(v, l) \/ \E j \in 1 .. k - 1 : waiting[l][j].task = v
      BY <3>1, Zenon DEF KeepsWaiting, Has
    <3>3. l = "running"
      BY <3>2, <2>6, Zenon DEF Queued, Lock
    <3>4. PICK k \in DOMAIN waiting["running"] :
            /\ waiting["running"][k].task = t
            /\ \/ Has(v, "running")
               \/ \E j \in 1 .. k - 1 : waiting["running"][j].task = v
      BY <3>2, <3>3, Zenon
    <3>5. k = i
      BY <2>1, <2>3, <3>4, Zenon DEF WaitInv, OneRequest
    <3> QED BY <3>4, <3>5, <2>3, Zenon
  <2>8. PICK l \in Lock : Queued(v, l)
    BY <1>1
  <2>9. pc[v] = "startPool"
    BY <2>1, <2>7, <2>8, <1>2, SMT DEF Wants, MayHave, Lock
  <2>10. v = "main" /\ pc["main"] = "startPool"
    BY <2>9, <1>2, <1>3, SMT DEF WaitInv, StatusWhenReady, Pc
  <2>11. t \in Worker
    BY <2>5, <2>10, <1>2, <1>3, SMT
  <2> QED BY <2>5, <2>10, <2>11, SMT DEF WaitInv, StatusWhenReady, Ready, Pc
<1>5. \A t \in group : Queued(t, "pool")
  BY <1>1, <1>4, Zenon DEF Lock
<1>6. "pool" \in Lock
  BY Zenon DEF Lock
<1>7. PICK t \in group : \E i \in DOMAIN waiting["pool"] :
        /\ waiting["pool"][i].task = t
        /\ \A j \in 1 .. i - 1 : waiting["pool"][j].task \notin group
  BY <1>5, <1>6, FirstOfGroup, Zenon
<1>8. PICK i \in DOMAIN waiting["pool"] :
        /\ waiting["pool"][i].task = t
        /\ \A j \in 1 .. i - 1 : waiting["pool"][j].task \notin group
  BY <1>7
<1>9. PICK v \in group : KeepsWaiting(v, t)
  OBVIOUS
<1>10. PICK l \in Lock : \E k \in DOMAIN waiting[l] :
         /\ waiting[l][k].task = t
         /\ Has(v, l) \/ \E j \in 1 .. k - 1 : waiting[l][j].task = v
  BY <1>9, Zenon DEF KeepsWaiting, Has
<1>11. l = "pool"
  BY <1>10, <1>4, Zenon DEF Queued, Lock
<1>12. PICK k \in DOMAIN waiting["pool"] :
         /\ waiting["pool"][k].task = t
         /\ Has(v, "pool") \/ \E j \in 1 .. k - 1 : waiting["pool"][j].task = v
  BY <1>10, <1>11, Zenon
<1>13. k = i
  BY <1>6, <1>8, <1>12, Zenon DEF WaitInv, OneRequest
<1>14. ~Has(v, "pool")
  BY <1>2, <1>5, <1>6, Zenon
<1> QED BY <1>8, <1>12, <1>13, <1>14, Zenon

(***************************************************************************)
(* No group of tasks waits for each other in a circle, whatever events,    *)
(* requests and commands come, and in whatever order the locks are asked   *)
(* for.                                                                    *)
(***************************************************************************)
THEOREM DeadlockFree == Spec => []NoDeadlock
<1>1. Init => WaitInv
  BY WaitStart
<1>2. TypeOK /\ WaitInv /\ [Next]_vars => WaitInv'
  BY WaitNext
<1>3. TypeOK /\ WaitInv => NoDeadlock
  BY FreeOfCircles
<1> QED BY <1>1, <1>2, <1>3, ServerTypeCorrect, PTL DEF Spec
==============================================================================
