---------------------------- MODULE BrokerProofs ----------------------------
(***************************************************************************)
(* The broker keeps its lines and its gate for any number of clients,      *)
(* calls and arms, on either build: keying is never late, a gated handle   *)
(* falls silent under the arm, and no release runs on closed lines.        *)
(***************************************************************************)
EXTENDS Broker, SequenceTheorems, TLAPS

\* `Free` stands for no client; calls and arms are counted.
Counts == Free \notin Clients /\ MaxCalls \in Nat /\ MaxArms \in Nat

-----------------------------------------------------------------------------
(* The inductive invariant.                                                *)

Busy == worker.at \in {"dispatch", "task", "reply"}

\* What the gate let through: a frame of a gated handle was queued before the arm that
\* is held was taken.
GateInv ==
    /\ \A i \in DOMAIN queue :
          queue[i].arm <= arms /\ (armed /\ queue[i].work = "wire" => queue[i].arm < arms)
    /\ worker.at = "dispatch" =>
          worker.job.arm <= arms /\ (armed => worker.job.arm < arms)

\* A job that has not been answered: its call has not returned, and nothing that would
\* let it return has happened.
Open(j) ==
    /\ j.call <= calls[j.client]
    /\ j.call \notin told[j.client]
    /\ j.call = calls[j.client] => slot[j.client] = "empty" /\ wait[j.client] # "release"

Same(j, k) == j.client = k.client /\ j.call = k.call

\* The jobs in hand are open, and no two of them are for one call.
OpenInv ==
    /\ \A c \in Clients : told[c] \subseteq 1..calls[c] /\ (slot[c] # "empty" => wait[c] = "reply")
    /\ \A i \in DOMAIN queue : Open(queue[i])
    /\ \A i, k \in DOMAIN queue : Same(queue[i], queue[k]) => i = k
    /\ Busy => worker.job \in Job /\ Open(worker.job)
    /\ Busy => \A i \in DOMAIN queue : ~Same(queue[i], worker.job)

\* Who awaits something has made a call.
Called == \A c \in Clients : wait[c] # "idle" => calls[c] > 0

BrokerInv == TypeOK /\ Called /\ NoReleaseAfterClose /\ GateInv /\ OpenInv

-----------------------------------------------------------------------------
(* What is in a queue.                                                     *)

\* Sender::send puts a job behind the others.
LEMMA Appended ==
    ASSUME NEW S, NEW s \in Seq(S), NEW x \in S
    PROVE  /\ Append(s, x) \in Seq(S)
           /\ DOMAIN Append(s, x) = 1..Len(s) + 1
           /\ \A i \in DOMAIN s : Append(s, x)[i] = s[i]
           /\ Append(s, x)[Len(s) + 1] = x
           /\ DOMAIN s = 1..Len(s) /\ Len(s) \in Nat
  BY AppendProperties, LenProperties

\* Receiver::recv takes the oldest job and leaves the others as they were.
LEMMA Taken ==
    ASSUME NEW S, NEW s \in Seq(S), s # <<>>
    PROVE  /\ Head(s) \in S /\ 1 \in DOMAIN s /\ Head(s) = s[1]
           /\ Tail(s) \in Seq(S)
           /\ \A i \in DOMAIN Tail(s) : i + 1 \in DOMAIN s /\ Tail(s)[i] = s[i + 1] /\ i \in Nat /\ i > 0
  BY HeadTailProperties, EmptySeq, LenProperties

\* A job in the queue is a job.
LEMMA QueuedAreJobs ==
    ASSUME Counts, TypeOK
    PROVE  \A i \in DOMAIN queue :
              /\ queue[i] \in Job /\ i \in Nat
              /\ queue[i].client \in Clients /\ queue[i].call \in Nat /\ queue[i].arm \in Nat
  <1>1. \A i \in 1..Len(queue) : queue[i] \in Job
    BY ElementOfSeq, Zenon DEF TypeOK
  <1>2. DOMAIN queue = 1..Len(queue) /\ Len(queue) \in Nat
    BY LenProperties, Zenon DEF TypeOK
  <1>3. \A j \in Job : j.client \in Clients /\ j.call \in Nat /\ j.arm \in Nat
    BY DEF Job, Counts
  <1> QED
    BY <1>1, <1>2, <1>3

-----------------------------------------------------------------------------
(* Types.                                                                  *)

\* A call that returns is one that was made.
LEMMA ReturnTypes ==
    ASSUME TypeOK, NEW c \in Clients, NEW n \in 1..MaxCalls, Return(c, n)
    PROVE  told' \in [Clients -> SUBSET (1..MaxCalls)]
  <1>1. told[c] \cup {n} \in SUBSET (1..MaxCalls)
    BY Zenon DEF TypeOK
  <1>2. told' = [told EXCEPT ![c] = told[c] \cup {n}]
    BY Zenon DEF Return
  <1> QED
    BY <1>1, <1>2, Zenon DEF TypeOK

\* Sender::send queues a well-formed job, or returns at once.
LEMMA EnqueueTypes ==
    ASSUME Counts, TypeOK, NEW c \in Clients, NEW work \in Work, MayCall(c), Enqueue(c, work)
    PROVE  /\ queue' \in Seq(Job)
           /\ calls' \in [Clients -> 0..MaxCalls]
           /\ wait' \in [Clients -> {"idle", "release", "reply"}]
           /\ slot' \in [Clients -> {"empty", "value", "dropped"}]
           /\ told' \in [Clients -> SUBSET (1..MaxCalls)]
  <1> DEFINE j == [client |-> c, call |-> calls[c] + 1, work |-> work, arm |-> arms]
  <1>1. calls[c] + 1 \in 1..MaxCalls /\ arms \in 0..MaxArms
    BY DEF Counts, TypeOK, MayCall
  <1>2. j \in Job
    BY <1>1, Zenon DEF Job
  <1>3. calls' \in [Clients -> 0..MaxCalls]
    BY <1>1 DEF Counts, TypeOK, Enqueue
  <1>4. CASE ReceiverDropped
    <2>1. told' \in [Clients -> SUBSET (1..MaxCalls)]
      BY <1>1, <1>4, ReturnTypes, Zenon DEF Enqueue
    <2> QED
      BY <1>3, <1>4, <2>1, Zenon DEF TypeOK, Enqueue
  <1>5. CASE ~ReceiverDropped
    <2>1. queue' = Append(queue, j)
      BY <1>5, Zenon DEF Enqueue
    <2>2. queue' \in Seq(Job)
      BY <1>2, <2>1, Appended, Zenon DEF TypeOK
    <2> QED
      BY <1>3, <1>5, <2>2, Zenon DEF TypeOK, Enqueue
  <1> QED
    BY <1>4, <1>5, Zenon

\* The broker's state stays within its types.
LEMMA TypeStep ==
    ASSUME Counts, TypeOK, Called, Next
    PROVE  TypeOK'
  <1>1. ASSUME NEW c \in Listeners, Submit(c) PROVE TypeOK'
    <2>1. c \in Clients /\ calls[c] + 1 \in 1..MaxCalls
      BY <1>1 DEF Clients, Counts, TypeOK, Submit, MayCall
    <2>2. CASE armed
      <3>1. told' \in [Clients -> SUBSET (1..MaxCalls)]
        BY <1>1, <2>1, <2>2, ReturnTypes, Zenon DEF Submit
      <3>2. calls' = [calls EXCEPT ![c] = calls[c] + 1]
        BY <1>1, <2>2, Zenon DEF Submit
      <3>3. calls[c] + 1 \in 0..MaxCalls
        BY <2>1 DEF Counts
      <3>4. calls' \in [Clients -> 0..MaxCalls]
        BY <2>1, <3>2, <3>3, Zenon DEF TypeOK
      <3> QED
        BY <1>1, <2>2, <3>1, <3>4, Zenon DEF TypeOK, Submit
    <2>3. CASE ~armed
      <3>1. Enqueue(c, "wire") /\ MayCall(c)
        BY <1>1, <2>3, Zenon DEF Submit
      <3> QED
        BY <1>1, <2>1, <3>1, EnqueueTypes, ZenonT(40) DEF TypeOK, Submit, Work
    <2> QED
      BY <2>2, <2>3, Zenon
  <1>2. ASSUME NEW c \in Operators, SubmitTask(c) PROVE TypeOK'
    <2>1. c \in Clients /\ Enqueue(c, "assert") /\ MayCall(c)
      BY <1>2, Zenon DEF Clients, SubmitTask
    <2> QED
      BY <1>2, <2>1, EnqueueTypes, ZenonT(40) DEF TypeOK, SubmitTask, Work
  <1>3. ASSUME NEW c \in Operators, TryNow(c) PROVE TypeOK'
    BY <1>3 DEF TypeOK, TryNow, MayCall, Clients, Counts
  <1>4. ASSUME NEW c \in Operators, RunRelease(c) PROVE TypeOK'
    <2>1. c \in Clients /\ calls[c] \in 1..MaxCalls
      BY <1>4 DEF Clients, TypeOK, Called, RunRelease, Counts
    <2>3. told' \in [Clients -> SUBSET (1..MaxCalls)]
      BY <1>4, <2>1, ReturnTypes, Zenon DEF RunRelease
    <2>2. line' \in BOOLEAN
      BY <1>4, Zenon DEF TypeOK, RunRelease
    <2> QED
      BY <1>4, <2>1, <2>2, <2>3, Zenon DEF TypeOK, RunRelease
  <1>5. ASSUME NEW c \in Operators, FallBack(c) PROVE TypeOK'
    <2>1. c \in Clients /\ Enqueue(c, "release") /\ MayCall(c)
      BY <1>5, Zenon DEF Clients, FallBack
    <2> QED
      BY <1>5, <2>1, EnqueueTypes, Zenon DEF TypeOK, FallBack, Work
  <1>6. ASSUME NEW c \in Clients, TakeReply(c) PROVE TypeOK'
    <2>1. calls[c] \in 1..MaxCalls
      BY <1>6 DEF TypeOK, Called, TakeReply, Counts
    <2>2. told' \in [Clients -> SUBSET (1..MaxCalls)]
      BY <1>6, <2>1, ReturnTypes, Zenon DEF TakeReply
    <2> QED
      BY <1>6, <2>2, Zenon DEF TypeOK, TakeReply
  <1>7. ASSUME NEW c \in Clients, GiveUp(c) PROVE TypeOK'
    BY <1>7, Zenon DEF TypeOK, GiveUp
  <1>8. ASSUME NEW c \in Clients, HangUp(c) PROVE TypeOK'
    BY <1>8, ZenonT(40) DEF TypeOK, HangUp
  <1>9. CASE Recv
    <2>1. Head(queue) \in Job /\ Tail(queue) \in Seq(Job)
      BY <1>9, Taken, Zenon DEF TypeOK, Recv
    <2> QED
      BY <1>9, <2>1, Zenon DEF TypeOK, Recv
  <1>10. CASE Dispatch
    BY <1>10, Zenon DEF TypeOK, Dispatch
  <1>11. CASE RunTask
    <2>1. line' \in BOOLEAN
      BY <1>11, Zenon DEF TypeOK, RunTask
    <2> QED
      BY <1>11, <2>1, Zenon DEF TypeOK, RunTask
  <1>12. CASE Reply
    BY <1>12, Zenon DEF TypeOK, Reply, Idle
  <1>13. CASE Finish
    BY <1>13, Zenon DEF TypeOK, Finish, Idle
  <1>14. CASE Panic
    BY <1>14 DEF TypeOK, Panic, Idle
  <1>15. CASE CloseLines
    BY <1>15, Zenon DEF TypeOK, CloseLines
  <1>16. CASE TakeArm
    BY <1>16 DEF TypeOK, TakeArm, Counts
  <1>17. CASE GiveArm
    BY <1>17, Zenon DEF TypeOK, GiveArm
  <1> QED
    BY <1>1, <1>2, <1>3, <1>4, <1>5, <1>6, <1>7, <1>8, <1>9, <1>10, <1>11, <1>12, <1>13, <1>14, <1>15, <1>16, <1>17, Zenon
    DEF Next

-----------------------------------------------------------------------------
(* The lock of the release lines.                                          *)

\* A client that awaits has called, and a release in progress holds the lock of lines
\* that are open (ReleaseLines::try_now, ReleaseLinesCloser::drop).
LEMMA LockStep ==
    ASSUME Counts, TypeOK, Called, NoReleaseAfterClose, Next
    PROVE  Called' /\ NoReleaseAfterClose'
  <1> USE DEF TypeOK, Called, NoReleaseAfterClose
  <1>1. ASSUME NEW c \in Clients, NEW work, Enqueue(c, work), MayCall(c),
               UNCHANGED <<lines, lock>>
        PROVE  Called' /\ NoReleaseAfterClose'
    <2>1. calls[c] \in Nat /\ calls' = [calls EXCEPT ![c] = calls[c] + 1]
      BY <1>1 DEF Enqueue, Counts
    <2>2. wait' = wait \/ wait' = [wait EXCEPT ![c] = "reply"]
      BY <1>1, Zenon DEF Enqueue
    <2> QED
      BY <1>1, <2>1, <2>2 DEF Counts
  <1>2. ASSUME NEW c \in Listeners, Submit(c) PROVE Called' /\ NoReleaseAfterClose'
    <2>1. c \in Clients
      BY Zenon DEF Clients
    <2>2. CASE armed
      <3>1. calls[c] \in Nat /\ calls' = [calls EXCEPT ![c] = calls[c] + 1] /\ wait' = wait
        BY <1>2, <2>1, <2>2 DEF Submit, Counts
      <3> QED
        BY <1>2, <2>1, <3>1 DEF Submit, Counts
    <2>3. CASE ~armed
      BY <1>1, <1>2, <2>1, <2>3, Zenon DEF Submit
    <2> QED
      BY <2>2, <2>3, Zenon
  <1>3. ASSUME NEW c \in Operators, SubmitTask(c) PROVE Called' /\ NoReleaseAfterClose'
    BY <1>1, <1>3, Zenon DEF SubmitTask, Clients
  <1>4. ASSUME NEW c \in Operators, FallBack(c) PROVE Called' /\ NoReleaseAfterClose'
    BY <1>1, <1>4, Zenon DEF FallBack, Clients
  <1>5. ASSUME NEW c \in Operators, TryNow(c) PROVE Called' /\ NoReleaseAfterClose'
    <2>1. c \in Clients /\ calls[c] \in Nat
      BY DEF Clients, Counts
    <2>2. \A d \in Clients : wait[d] # "release"
      BY <1>5, Zenon DEF TryNow, Counts
    <2> QED
      BY <1>5, <2>1, <2>2 DEF TryNow, Counts
  <1>6. ASSUME NEW c \in Operators, RunRelease(c) PROVE Called' /\ NoReleaseAfterClose'
    BY <1>6, Zenon DEF RunRelease, Clients
  <1>7. ASSUME NEW c \in Clients, TakeReply(c) \/ GiveUp(c) \/ HangUp(c)
        PROVE  Called' /\ NoReleaseAfterClose'
    <2>1. wait' = [wait EXCEPT ![c] = "idle"] /\ UNCHANGED <<calls, lines, lock>>
      BY <1>7, Zenon DEF TakeReply, GiveUp, HangUp
    <2> QED
      BY <2>1, Zenon
  <1>8. CASE CloseLines
    BY <1>8, Zenon DEF CloseLines
  <1>9. CASE Recv \/ Dispatch \/ RunTask \/ Reply \/ Finish \/ Panic \/ TakeArm \/ GiveArm
    <2>1. UNCHANGED <<wait, calls, lines, lock>>
      BY <1>9, Zenon DEF Recv, Dispatch, RunTask, Reply, Finish, Panic, TakeArm, GiveArm
    <2> QED
      BY <2>1, Zenon
  <1> QED
    BY <1>2, <1>3, <1>4, <1>5, <1>6, <1>7, <1>8, <1>9, Zenon DEF Next

-----------------------------------------------------------------------------
(* The gate.                                                               *)

\* What passes the gate was queued before the arm: submit asks when it queues, and
\* the arm is counted when it is taken.
LEMMA GateStep ==
    ASSUME Counts, TypeOK, GateInv, Next
    PROVE  GateInv'
  <1>0. arms \in Nat /\ queue \in Seq(Job) /\ armed \in BOOLEAN
    BY DEF TypeOK, Counts
  <1>1. ASSUME NEW c \in Clients, NEW work \in Work, Enqueue(c, work), MayCall(c),
               work = "wire" => ~armed, UNCHANGED <<worker, armed, arms>>
        PROVE  GateInv'
    <2> DEFINE j == [client |-> c, call |-> calls[c] + 1, work |-> work, arm |-> arms]
    <2>1. CASE queue' = queue
      BY <1>1, <2>1, Zenon DEF GateInv
    <2>2. CASE queue' = Append(queue, j)
      <3>1. j \in Job
        BY <1>0, <1>1 DEF Job, TypeOK, Counts, MayCall
      <3>2. \A i \in DOMAIN queue' : (i \in DOMAIN queue /\ queue'[i] = queue[i]) \/ queue'[i] = j
        BY <1>0, <2>2, <3>1, Appended
      <3>3. j.arm = arms /\ j.work = work
        OBVIOUS
      <3> HIDE DEF j
      <3> QED
        BY <1>0, <1>1, <3>2, <3>3 DEF GateInv
    <2> QED
      BY <1>1, <2>1, <2>2, Zenon DEF Enqueue
  <1>2. ASSUME NEW c \in Listeners, Submit(c) PROVE GateInv'
    <2>1. CASE armed
      BY <1>2, <2>1, Zenon DEF GateInv, Submit
    <2>2. CASE ~armed
      BY <1>1, <1>2, <2>2, Zenon DEF Submit, Clients, Work
    <2> QED
      BY <2>1, <2>2, Zenon
  <1>3. ASSUME NEW c \in Operators, SubmitTask(c) PROVE GateInv'
    BY <1>1, <1>3, Zenon DEF SubmitTask, Clients, Work
  <1>4. ASSUME NEW c \in Operators, FallBack(c) PROVE GateInv'
    BY <1>1, <1>4, Zenon DEF FallBack, Clients, Work
  <1>5. CASE Recv
    <2>1. queue # <<>>
      BY <1>5, Zenon DEF Recv
    <2>2. /\ 1 \in DOMAIN queue /\ Head(queue) = queue[1]
          /\ \A i \in DOMAIN Tail(queue) : i + 1 \in DOMAIN queue /\ Tail(queue)[i] = queue[i + 1]
      BY <1>0, <2>1, Taken, Zenon
    <2>3. \A i \in DOMAIN queue' : i + 1 \in DOMAIN queue /\ queue'[i] = queue[i + 1]
      BY <1>5, <2>2, Zenon DEF Recv
    <2>4. worker'.job = queue[1] /\ (worker'.at = "dispatch" => queue[1].work = "wire")
      BY <1>5, <2>2, Zenon DEF Recv
    <2>5. UNCHANGED <<armed, arms>>
      BY <1>5, Zenon DEF Recv
    <2> QED
      BY <2>2, <2>3, <2>4, <2>5, Zenon DEF GateInv
  <1>6. CASE TakeArm
    <2>1. arms' = arms + 1 /\ UNCHANGED <<queue, worker>>
      BY <1>6, Zenon DEF TakeArm
    <2>2. \A i \in DOMAIN queue : queue[i].arm \in Nat
      BY QueuedAreJobs, Zenon
    <2>3. worker.job.arm \in Nat
      BY DEF TypeOK, Job, NoJob, Counts
    <2> QED
      BY <1>0, <2>1, <2>2, <2>3 DEF GateInv
  <1>7. CASE GiveArm
    BY <1>7, Zenon DEF GateInv, GiveArm
  <1>8. CASE Panic
    BY <1>8 DEF GateInv, Panic, Idle
  <1>9. CASE Dispatch \/ RunTask \/ Reply \/ Finish \/ CloseLines
    <2>1. worker'.at # "dispatch" /\ UNCHANGED <<queue, armed, arms>>
      BY <1>9 DEF Dispatch, RunTask, Reply, Finish, CloseLines, Idle, TypeOK
    <2> QED
      BY <2>1, Zenon DEF GateInv
  <1>10. ASSUME NEW c \in Clients, TryNow(c) \/ RunRelease(c) \/ TakeReply(c) \/ GiveUp(c) \/ HangUp(c)
         PROVE  GateInv'
    <2>1. UNCHANGED <<queue, worker, armed, arms>>
      BY <1>10, Zenon DEF TryNow, RunRelease, TakeReply, GiveUp, HangUp
    <2> QED
      BY <2>1, Zenon DEF GateInv
  <1> QED
    BY <1>2, <1>3, <1>4, <1>5, <1>6, <1>7, <1>8, <1>9, <1>10, Zenon DEF Next, Clients

-----------------------------------------------------------------------------
(* The jobs in hand.                                                       *)

\* A call that is made, and the one before it, if its caller gave up on it: what was in
\* hand stays open when nobody but c is told, and c is told of a later call only.
LEMMA CallStep ==
    ASSUME Counts, TypeOK, OpenInv, NEW c \in Clients,
           calls' = [calls EXCEPT ![c] = calls[c] + 1],
           told' = told \/ told' = [told EXCEPT ![c] = told[c] \cup {calls[c] + 1}],
           UNCHANGED slot, \E w \in {"idle", "reply", "release"} : wait' = [wait EXCEPT ![c] = w],
           wait[c] = "idle"
    PROVE  /\ \A d \in Clients : told'[d] \subseteq 1..calls'[d] /\ (slot'[d] # "empty" => wait'[d] = "reply")
           /\ \A j \in Job : Open(j) => Open(j)'
  <1>1. calls[c] \in Nat /\ \A d \in Clients : calls[d] \in Nat
    BY DEF TypeOK, Counts
  <1>2. ASSUME NEW d \in Clients
        PROVE  told'[d] \subseteq 1..calls'[d] /\ (slot'[d] # "empty" => wait'[d] = "reply")
    <2>1. told[d] \subseteq 1..calls[d] /\ (slot[d] # "empty" => wait[d] = "reply")
      BY Zenon DEF OpenInv
    <2>2. CASE d = c
      <3>1. calls'[d] = calls[d] + 1
        BY <2>2, Zenon DEF TypeOK
      <3>2. told'[d] \subseteq told[d] \cup {calls[d] + 1}
        BY <2>2, Zenon DEF TypeOK
      <3>3. 1..calls[d] \subseteq 1..(calls[d] + 1) /\ calls[d] + 1 \in 1..(calls[d] + 1)
        BY <1>1
      <3>4. told'[d] \subseteq 1..calls'[d]
        BY <2>1, <3>1, <3>2, <3>3, Zenon
      <3> QED
        BY <2>1, <2>2, <3>4, Zenon
    <2>3. CASE d # c
      <3>1. told'[d] = told[d] /\ calls'[d] = calls[d] /\ wait'[d] = wait[d] /\ slot'[d] = slot[d]
        BY <2>3, Zenon DEF TypeOK
      <3> QED
        BY <2>1, <3>1, Zenon
    <2> QED
      BY <2>2, <2>3, Zenon
  <1>3. ASSUME NEW j \in Job, Open(j) PROVE Open(j)'
    <2>0. j.client \in Clients /\ j.call \in Nat
      BY DEF Job, Counts
    <2>1. CASE j.client = c
      <3>1. calls'[c] = calls[c] + 1 /\ j.call <= calls[c]
        BY <1>3, <2>1, Zenon DEF TypeOK, Open
      <3>2. told'[c] \subseteq told[c] \cup {calls[c] + 1}
        BY Zenon DEF TypeOK
      <3>3. j.call # calls[c] + 1 /\ j.call <= calls[c] + 1
        BY <1>1, <2>0, <3>1
      <3>4. j.call \notin told'[c]
        BY <1>3, <2>1, <3>2, <3>3, Zenon DEF Open
      <3> QED
        BY <2>1, <3>1, <3>3, <3>4, Zenon DEF Open
    <2>2. CASE j.client # c
      <3>1. /\ told'[j.client] = told[j.client] /\ calls'[j.client] = calls[j.client]
            /\ wait'[j.client] = wait[j.client] /\ slot'[j.client] = slot[j.client]
        BY <2>0, <2>2, Zenon DEF TypeOK
      <3> QED
        BY <1>3, <3>1, Zenon DEF Open
    <2> QED
      BY <2>1, <2>2, Zenon
  <1> QED
    BY <1>2, <1>3, Zenon

\* A job that joins the queue is open when it is for the call just made.
LEMMA JoinStep ==
    ASSUME Counts, TypeOK, OpenInv, NEW c \in Clients, NEW work \in Work, MayCall(c),
           Enqueue(c, work), UNCHANGED worker
    PROVE  OpenInv'
  <1> DEFINE j == [client |-> c, call |-> calls[c] + 1, work |-> work, arm |-> arms]
  <1>1. calls[c] \in Nat /\ wait[c] = "idle" /\ slot[c] = "empty"
    BY DEF TypeOK, Counts, MayCall, OpenInv
  <1>2. calls' = [calls EXCEPT ![c] = calls[c] + 1]
    BY Zenon DEF Enqueue
  <1>3. wait = [wait EXCEPT ![c] = "idle"]
    BY <1>1, Zenon DEF TypeOK
  <1>4. /\ \A d \in Clients : told'[d] \subseteq 1..calls'[d] /\ (slot'[d] # "empty" => wait'[d] = "reply")
        /\ \A k \in Job : Open(k) => Open(k)'
    <2>1. CASE ReceiverDropped
      <3>1. told' = [told EXCEPT ![c] = told[c] \cup {calls[c] + 1}] /\ wait' = wait /\ slot' = slot
        BY <2>1, Zenon DEF Enqueue, Return
      <3> QED
        BY <1>1, <1>2, <1>3, <3>1, CallStep, Zenon
    <2>2. CASE ~ReceiverDropped
      <3>1. told' = told /\ wait' = [wait EXCEPT ![c] = "reply"] /\ slot' = slot
        BY <2>2, Zenon DEF Enqueue
      <3> QED
        BY <1>1, <1>2, <3>1, CallStep, Zenon
    <2> QED
      BY <2>1, <2>2, Zenon
  <1>5. CASE queue' = queue
    <2>1. \A i \in DOMAIN queue : Open(queue[i]) /\ queue[i] \in Job
      BY QueuedAreJobs, Zenon DEF OpenInv
    <2>2. \A i \in DOMAIN queue' : Open(queue[i])'
      BY <1>4, <1>5, <2>1, Zenon DEF Open
    <2>3. Busy' => Busy /\ Open(worker.job)'
      BY <1>4, Zenon DEF OpenInv, Open, Busy
    <2> QED
      BY <1>4, <1>5, <2>2, <2>3, Zenon DEF OpenInv, Same, Busy
  <1>6. CASE ~ReceiverDropped /\ queue' = Append(queue, j)
    <2>1. j \in Job
      BY <1>1 DEF TypeOK, Counts, MayCall, Job
    <2>2. Len(queue) \in Nat /\ DOMAIN queue = 1..Len(queue) /\ DOMAIN queue' = 1..Len(queue) + 1
      BY <1>6, <2>1, Appended DEF TypeOK
    <2>3. queue'[Len(queue) + 1] = j /\ \A i \in DOMAIN queue : queue'[i] = queue[i]
      BY <1>6, <2>1, Appended DEF TypeOK
    <2>4. \A i \in DOMAIN queue : /\ Open(queue[i]) /\ queue[i] \in Job
                                  /\ queue[i].client = c => queue[i].call <= calls[c]
                                  /\ queue[i].call \in Nat
      BY QueuedAreJobs, Zenon DEF OpenInv, Open
    <2>5. j.client = c /\ j.call = calls[c] + 1
      OBVIOUS
    <2>6. told' = told /\ wait' = [wait EXCEPT ![c] = "reply"] /\ slot' = slot
      BY <1>6, Zenon DEF Enqueue
    <2>7. calls'[c] = calls[c] + 1 /\ wait'[c] = "reply"
      BY <1>2, <2>6, Zenon DEF TypeOK
    <2>8. calls[c] + 1 \notin told[c]
      BY <1>1 DEF OpenInv
    <2> HIDE DEF j
    <2>9. \A i \in DOMAIN queue' : Open(queue[i])'
      <3>1. \A i \in DOMAIN queue : Open(queue[i])'
        BY <1>4, <2>3, <2>4, ZenonT(40) DEF Open
      <3>2. j.call <= calls'[j.client] /\ j.call \notin told'[j.client]
        BY <1>1, <2>5, <2>6, <2>7, <2>8
      <3>3. slot'[j.client] = "empty" /\ wait'[j.client] # "release"
        BY <1>1, <2>5, <2>6, <2>7, Zenon
      <3> QED
        BY <2>2, <2>3, <3>1, <3>2, <3>3 DEF Open
    <2>10. \A i, k \in DOMAIN queue' : Same(queue'[i], queue'[k]) => i = k
      <3> SUFFICES ASSUME NEW i \in DOMAIN queue', NEW k \in DOMAIN queue', Same(queue'[i], queue'[k])
                   PROVE  i = k
        BY Zenon
      <3>1. calls[c] \in Nat
        BY <1>1 DEF TypeOK, Counts
      <3>2. \A m \in DOMAIN queue : ~Same(queue[m], j) /\ ~Same(j, queue[m])
        BY <2>4, <2>5, <3>1 DEF Same
      <3>3. \A m \in DOMAIN queue' : m \in DOMAIN queue \/ (m = Len(queue) + 1 /\ queue'[m] = j)
        BY <2>2, <2>3
      <3> QED
        BY <2>3, <3>2, <3>3, Zenon DEF OpenInv
    <2>11. Busy' => worker'.job \in Job /\ Open(worker.job)' /\ \A i \in DOMAIN queue' : ~Same(queue'[i], worker'.job)
      <3> SUFFICES ASSUME Busy PROVE worker.job \in Job /\ Open(worker.job)' /\ \A i \in DOMAIN queue' : ~Same(queue'[i], worker.job)
        BY Zenon DEF Busy
      <3>1. worker.job \in Job /\ Open(worker.job) /\ \A i \in DOMAIN queue : ~Same(queue[i], worker.job)
        BY Zenon DEF OpenInv
      <3>2. Open(worker.job)'
        BY <1>4, <3>1, Zenon DEF Open
      <3>3. worker.job.call \in Nat /\ (worker.job.client = c => worker.job.call <= calls[c])
        BY <3>1 DEF Job, Counts, Open
      <3>4. ~Same(j, worker.job)
        BY <1>1, <2>5, <3>3 DEF Same
      <3> QED
        BY <2>2, <2>3, <3>1, <3>2, <3>4
    <2> QED
      BY <1>4, <2>9, <2>10, <2>11, Zenon DEF OpenInv
  <1> QED
    BY <1>5, <1>6, Zenon DEF Enqueue

\* What is in hand stays open as long as nobody is told or given anything.
LEMMA HandStill ==
    ASSUME OpenInv, UNCHANGED <<queue, calls, told, slot, wait>>, Busy' => Busy /\ worker'.job = worker.job
    PROVE  OpenInv'
  <1>1. \A i \in DOMAIN queue' : Open(queue[i])'
    BY Zenon DEF OpenInv, Open
  <1>2. Busy' => worker'.job \in Job /\ Open(worker.job)' /\ \A i \in DOMAIN queue' : ~Same(queue'[i], worker'.job)
    BY Zenon DEF OpenInv, Open
  <1> QED
    BY <1>1, <1>2, Zenon DEF OpenInv, Same

\* A client that stops waiting, told of its call only if nothing in hand is for it.
LEMMA ReturnStep ==
    ASSUME Counts, TypeOK, Called, OpenInv, NEW c \in Clients, UNCHANGED <<queue, worker, calls>>,
           wait' = [wait EXCEPT ![c] = "idle"],
           slot' = [slot EXCEPT ![c] = "empty"],
           \/ told' = told
           \/ /\ told' = [told EXCEPT ![c] = told[c] \cup {calls[c]}]
              /\ slot[c] # "empty" \/ wait[c] = "release"
    PROVE  OpenInv'
  <1>1. calls[c] \in Nat /\ (wait[c] # "idle" => calls[c] > 0)
    BY DEF TypeOK, Counts, Called
  <1>2. told[c] \subseteq 1..calls[c] /\ (slot[c] # "empty" => wait[c] = "reply")
    BY Zenon DEF OpenInv
  <1>3. told'[c] = told[c] \/ (told'[c] = told[c] \cup {calls[c]} /\ calls[c] \in 1..calls[c])
    BY <1>1, <1>2 DEF TypeOK
  <1>4. told'[c] \subseteq 1..calls[c]
    BY <1>2, <1>3, Zenon
  <1>5. /\ slot'[c] = "empty" /\ wait'[c] = "idle"
        /\ \A d \in Clients \ {c} : slot'[d] = slot[d] /\ wait'[d] = wait[d] /\ told'[d] = told[d]
    BY Zenon DEF TypeOK
  <1>6. \A d \in Clients : told'[d] \subseteq 1..calls'[d] /\ (slot'[d] # "empty" => wait'[d] = "reply")
    BY <1>4, <1>5, Zenon DEF OpenInv
  <1>7. ASSUME NEW j \in Job, Open(j) PROVE Open(j)'
    <2>1. j.client \in Clients
      BY Zenon DEF Job
    <2>2. CASE j.client = c
      <3>1. j.call \notin told'[c]
        BY <1>7, <2>2 DEF Open, TypeOK
      <3> QED
        BY <1>5, <1>7, <2>2, <3>1, Zenon DEF Open
    <2>3. CASE j.client # c
      BY <1>5, <1>7, <2>1, <2>3, Zenon DEF Open
    <2> QED
      BY <2>2, <2>3, Zenon
  <1>8. \A i \in DOMAIN queue' : Open(queue[i])'
    BY <1>7, QueuedAreJobs, Zenon DEF OpenInv, Open
  <1>9. Busy' => worker'.job \in Job /\ Open(worker.job)' /\ \A i \in DOMAIN queue' : ~Same(queue'[i], worker'.job)
    BY <1>7, Zenon DEF OpenInv, Open, Busy
  <1> QED
    BY <1>6, <1>8, <1>9, Zenon DEF OpenInv, Same

\* The jobs in hand stay open and apart: a call is told only once its job has been
\* replied to or dropped.
LEMMA OpenStep ==
    ASSUME Counts, TypeOK, Called, OpenInv, Next
    PROVE  OpenInv'
  <1>1. ASSUME NEW c \in Listeners, Submit(c) PROVE OpenInv'
    <2>1. c \in Clients /\ MayCall(c) /\ UNCHANGED worker
      BY <1>1, Zenon DEF Clients, Submit
    <2>2. CASE armed
      <3>1. /\ calls' = [calls EXCEPT ![c] = calls[c] + 1]
            /\ told' = [told EXCEPT ![c] = told[c] \cup {calls[c] + 1}]
            /\ UNCHANGED <<queue, wait, slot>>
        BY <1>1, <2>2, Zenon DEF Submit, Return
      <3>2. wait[c] = "idle" /\ wait' = [wait EXCEPT ![c] = "idle"]
        BY <2>1, <3>1, Zenon DEF MayCall, TypeOK
      <3>3. /\ \A d \in Clients : told'[d] \subseteq 1..calls'[d] /\ (slot'[d] # "empty" => wait'[d] = "reply")
            /\ \A j \in Job : Open(j) => Open(j)'
        BY <2>1, <3>1, <3>2, CallStep, Zenon
      <3>4. \A i \in DOMAIN queue' : Open(queue[i])'
        BY <3>1, <3>3, QueuedAreJobs, Zenon DEF OpenInv, Open
      <3>5. Busy' => worker'.job \in Job /\ Open(worker.job)' /\ \A i \in DOMAIN queue' : ~Same(queue'[i], worker'.job)
        BY <2>1, <3>1, <3>3, Zenon DEF OpenInv, Open, Busy
      <3> QED
        BY <3>1, <3>3, <3>4, <3>5, Zenon DEF OpenInv, Same
    <2>3. CASE ~armed
      BY <1>1, <2>1, <2>3, JoinStep, Zenon DEF Submit, Work
    <2> QED
      BY <2>2, <2>3, Zenon
  <1>2. ASSUME NEW c \in Operators, SubmitTask(c) \/ FallBack(c) PROVE OpenInv'
    <2>1. \E work \in Work : Enqueue(c, work)
      BY <1>2, Zenon DEF SubmitTask, FallBack, Work
    <2>2. c \in Clients /\ MayCall(c) /\ UNCHANGED worker
      BY <1>2, Zenon DEF SubmitTask, FallBack, Clients
    <2> QED
      BY <2>1, <2>2, JoinStep, Zenon
  <1>3. ASSUME NEW c \in Operators, TryNow(c) PROVE OpenInv'
    <2>1. c \in Clients /\ wait[c] = "idle"
      BY <1>3, Zenon DEF Clients, TryNow, MayCall
    <2>2. /\ calls' = [calls EXCEPT ![c] = calls[c] + 1]
          /\ wait' = [wait EXCEPT ![c] = "release"]
          /\ UNCHANGED <<queue, worker, told, slot>>
      BY <1>3, Zenon DEF TryNow
    <2>3. /\ \A d \in Clients : told'[d] \subseteq 1..calls'[d] /\ (slot'[d] # "empty" => wait'[d] = "reply")
          /\ \A j \in Job : Open(j) => Open(j)'
      BY <2>1, <2>2, CallStep, Zenon
    <2>4. \A i \in DOMAIN queue' : Open(queue[i])'
      BY <2>2, <2>3, QueuedAreJobs, Zenon DEF OpenInv, Open
    <2>5. Busy' => worker'.job \in Job /\ Open(worker.job)' /\ \A i \in DOMAIN queue' : ~Same(queue'[i], worker'.job)
      BY <2>2, <2>3, Zenon DEF OpenInv, Open, Busy
    <2> QED
      BY <2>2, <2>3, <2>4, <2>5, Zenon DEF OpenInv, Same
  <1>4. ASSUME NEW c \in Operators, RunRelease(c) PROVE OpenInv'
    <2>1. c \in Clients /\ slot[c] = "empty"
      BY <1>4, Zenon DEF Clients, RunRelease, OpenInv
    <2>2. slot' = [slot EXCEPT ![c] = "empty"]
      BY <1>4, <2>1, Zenon DEF RunRelease, TypeOK
    <2> QED
      BY <1>4, <2>1, <2>2, ReturnStep, Zenon DEF RunRelease, Return
  <1>5. ASSUME NEW c \in Clients, TakeReply(c) \/ GiveUp(c) \/ HangUp(c) PROVE OpenInv'
    BY <1>5, ReturnStep, Zenon DEF TakeReply, GiveUp, HangUp, Return
  <1>6. CASE Recv
    <2>1. queue \in Seq(Job) /\ queue # <<>>
      BY <1>6, Zenon DEF Recv, TypeOK
    <2>2. /\ Head(queue) \in Job /\ 1 \in DOMAIN queue /\ Head(queue) = queue[1]
          /\ \A i \in DOMAIN Tail(queue) : i + 1 \in DOMAIN queue /\ Tail(queue)[i] = queue[i + 1] /\ i \in Nat /\ i > 0
      BY <2>1, Taken, Zenon
    <2>3. /\ \A i \in DOMAIN queue' : i + 1 \in DOMAIN queue /\ queue'[i] = queue[i + 1] /\ i \in Nat /\ i > 0
          /\ worker'.job = queue[1] /\ queue[1] \in Job
          /\ UNCHANGED <<calls, told, slot, wait>>
      BY <1>6, <2>2, Zenon DEF Recv
    <2>4. \A i \in DOMAIN queue' : Open(queue[i])'
      BY <2>3 DEF OpenInv, Open
    <2>5. \A i, k \in DOMAIN queue' : Same(queue'[i], queue'[k]) => i = k
      BY <2>3 DEF OpenInv
    <2>6. \A i \in DOMAIN queue' : ~Same(queue'[i], worker'.job)
      BY <2>2, <2>3 DEF OpenInv
    <2>7. Open(worker.job)'
      BY <2>2, <2>3, ZenonT(40) DEF OpenInv, Open
    <2> QED
      BY <2>3, <2>4, <2>5, <2>6, <2>7, Zenon DEF OpenInv
  <1>7. CASE Dispatch \/ RunTask
    <2>1. worker' = [worker EXCEPT !.at = "reply"] /\ worker.at \in {"dispatch", "task"}
      BY <1>7, Zenon DEF Dispatch, RunTask
    <2>2. worker'.job = worker.job /\ Busy
      BY <2>1, Zenon DEF TypeOK, Busy
    <2> QED
      BY <1>7, <2>2, HandStill, Zenon DEF Dispatch, RunTask
  <1>8. CASE Reply
    <2>1. ~Busy' /\ UNCHANGED <<queue, calls, told, wait>>
      BY <1>8, Zenon DEF Reply, Busy, Idle
    <2>2. Busy /\ worker.job \in Job /\ worker.job.client \in Clients
      BY <1>8, Zenon DEF Reply, Busy, OpenInv, Job
    <2>3. CASE Awaited(worker.job)
      <3> DEFINE c == worker.job.client
      <3>1. slot' = [slot EXCEPT ![c] = "value"] /\ wait[c] = "reply" /\ calls[c] = worker.job.call
        BY <1>8, <2>3, Zenon DEF Reply, Awaited
      <3>2. \A d \in Clients : slot'[d] # "empty" => wait'[d] = "reply"
        BY <2>1, <2>2, <3>1, Zenon DEF OpenInv, TypeOK
      <3>3. \A i \in DOMAIN queue : /\ ~Same(queue[i], worker.job) /\ Open(queue[i])
                                    /\ queue[i].client \in Clients
        BY <2>2, QueuedAreJobs, Zenon DEF OpenInv
      <3>4. ASSUME NEW i \in DOMAIN queue
            PROVE  queue[i].call = calls[queue[i].client] => slot'[queue[i].client] = "empty"
        BY <2>2, <3>1, <3>3 DEF Same, Open, TypeOK
      <3>5. \A i \in DOMAIN queue' : Open(queue[i])'
        BY <2>1, <3>3, <3>4, Zenon DEF Open
      <3> QED
        BY <2>1, <3>2, <3>5, Zenon DEF OpenInv, Same
    <2>4. CASE ~Awaited(worker.job)
      BY <1>8, <2>1, <2>4, HandStill, Zenon DEF Reply
    <2> QED
      BY <2>3, <2>4, Zenon
  <1>9. CASE Finish \/ CloseLines
    <2>1. ~Busy' /\ UNCHANGED <<queue, calls, told, slot, wait>>
      BY <1>9, Zenon DEF Finish, CloseLines, Busy, Idle, TypeOK
    <2> QED
      BY <2>1, HandStill, Zenon
  <1>10. CASE Panic
    <2>1. ~Busy' /\ queue' = <<>> /\ UNCHANGED <<calls, told, wait>>
      BY <1>10, Zenon DEF Panic, Busy, Idle
    <2>2. ASSUME NEW d \in Clients, slot'[d] # "empty" PROVE wait'[d] = "reply"
      <3>1. slot[d] # "empty" \/ wait[d] = "reply"
        BY <1>10, <2>2, Zenon DEF Panic, Awaited
      <3> QED
        BY <2>1, <3>1, Zenon DEF OpenInv
    <2> QED
      BY <2>1, <2>2 DEF OpenInv
  <1>11. CASE TakeArm \/ GiveArm
    <2>1. UNCHANGED <<queue, worker, calls, told, slot, wait>>
      BY <1>11, Zenon DEF TakeArm, GiveArm
    <2> QED
      BY <2>1, HandStill, Zenon DEF Busy
  <1> QED
    BY <1>1, <1>2, <1>3, <1>4, <1>5, <1>6, <1>7, <1>8, <1>9, <1>10, <1>11, Zenon DEF Next

-----------------------------------------------------------------------------
\* The invariant holds at first.
LEMMA BrokerInit ==
    ASSUME Counts, Init
    PROVE  BrokerInv
  <1>1. queue = <<>> /\ queue \in Seq(Job) /\ DOMAIN queue = {}
    BY EmptySeq DEF Init
  <1>2. TypeOK
    <2>1. worker \in [at : {"recv", "dispatch", "task", "reply", "ending", "gone"}, job : Job \cup {NoJob}]
      BY Zenon DEF Init, Idle
    <2>2. calls \in [Clients -> 0..MaxCalls] /\ arms \in 0..MaxArms
      BY DEF Init, Counts
    <2>3. told \in [Clients -> SUBSET (1..MaxCalls)]
      BY Zenon DEF Init
    <2>4. /\ wait \in [Clients -> {"idle", "release", "reply"}]
          /\ slot \in [Clients -> {"empty", "value", "dropped"}]
      BY Zenon DEF Init
    <2> QED
      BY <1>1, <2>1, <2>2, <2>3, <2>4, Zenon DEF Init, TypeOK
  <1>3. Called /\ NoReleaseAfterClose
    BY Zenon DEF Init, Called, NoReleaseAfterClose
  <1>4. GateInv
    BY <1>1, Zenon DEF Init, GateInv, Idle
  <1>5. OpenInv
    BY <1>1, Zenon DEF Init, OpenInv, Busy, Idle
  <1> QED
    BY <1>2, <1>3, <1>4, <1>5, Zenon DEF BrokerInv

\* ... and every step keeps it.
LEMMA BrokerStep ==
    ASSUME Counts, BrokerInv, [Next]_vars
    PROVE  BrokerInv'
  <1>1. CASE Next
    BY <1>1, TypeStep, LockStep, GateStep, OpenStep, Zenon DEF BrokerInv
  <1>2. CASE UNCHANGED vars
    <2>1. TypeOK' /\ Called' /\ NoReleaseAfterClose' /\ GateInv'
      BY <1>2, ZenonT(40) DEF vars, BrokerInv, TypeOK, Called, NoReleaseAfterClose, GateInv
    <2>2. OpenInv'
      BY <1>2, HandStill, Zenon DEF vars, BrokerInv, Busy
    <2> QED
      BY <2>1, <2>2, Zenon DEF BrokerInv
  <1> QED
    BY <1>1, <1>2, Zenon

\* Only the worker's task raises the line, and it works for a call that has not returned.
LEMMA RaisedByTask ==
    ASSUME Counts, BrokerInv, [Next]_vars
    PROVE  KeyedBeforeTold
  <1> SUFFICES ASSUME ~line, line' PROVE worker.job.call \notin told[worker.job.client]
    BY Zenon DEF KeyedBeforeTold
  <1>1. RunTask
    BY Zenon DEF Next, vars, Submit, SubmitTask, TryNow, RunRelease, FallBack, TakeReply, GiveUp, HangUp, Recv,
       Dispatch, Reply, Finish, Panic, CloseLines, TakeArm, GiveArm
  <1> QED
    BY <1>1, Zenon DEF RunTask, BrokerInv, OpenInv, Busy, Open

\* For any number of clients, calls and arms, on either build: once the arm is taken no
\* frame of a gated handle reaches the session that was not queued before
\* (BrokerHandle::submit), no release is driven on lines the worker's end has closed
\* (ReleaseLines::try_now), and keying is never late: when the line goes up its caller
\* has not been answered, so a release that overtakes the queue is not undone by the
\* assert it releases (submit_task, release_now_bypassing_queue).
THEOREM BrokerKeepsItsLines ==
    ASSUME Free \notin Clients, MaxCalls \in Nat, MaxArms \in Nat
    PROVE  Spec => [](FallsSilent /\ NoReleaseAfterClose) /\ [][KeyedBeforeTold]_vars
  <1>0. Counts
    BY Zenon DEF Counts
  <1>1. Init => BrokerInv
    BY <1>0, BrokerInit, Zenon
  <1>2. BrokerInv /\ [Next]_vars => BrokerInv'
    BY <1>0, BrokerStep, Zenon
  <1>3. BrokerInv => FallsSilent /\ NoReleaseAfterClose
    BY Zenon DEF BrokerInv, GateInv, FallsSilent
  <1>4. BrokerInv /\ [Next]_vars => [KeyedBeforeTold]_vars
    BY <1>0, RaisedByTask, Zenon
  <1> QED
    BY <1>1, <1>2, <1>3, <1>4, PTL DEF Spec
=============================================================================
