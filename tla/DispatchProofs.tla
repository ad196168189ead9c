---------------------------- MODULE DispatchProofs ----------------------------
(***************************************************************************)
(* Proofs about Dispatch: its type, and three of its promises, for any     *)
(* jobs, number of retries and number of crashes.                          *)
(***************************************************************************)
EXTENDS Dispatch, TLAPS

Elsewhere(j) == \E n \in 0..MaxRetries : queue[<<j, n>>] > 0 \/ unacked[<<j, n>>] > 0

\* A run whose message is not yet acknowledged has ended, or left a retry behind.
StoredIsOver == worker.at = "stored" => (worker.msg[1] \in over \/ Elsewhere(worker.msg[1]))

\* What the backend says of a job has happened.
ResultsTrue ==
    \A j \in Job :
        /\ result[j] = "SUCCESS" => finished[j] > 0
        /\ result[j] \in {"FAILURE", "REVOKED"} => j \in over
        /\ result[j] = "PROGRESS" => KindOf[j] = "import"

\* What became of a request that asked for a job whose id a page can have.
Handed(j) == web[j] = "answered" /\ j \notin inproc /\ j \in took

\* A page is told with the answer to its request at the earliest, and polls, or
\* remembers, what the broker has taken.
PagesAnswered ==
    /\ \A j \in inproc : web[j] = "answered"
    /\ \A j \in Job : client[j] # "none" => web[j] \in {"answered", "failed"}
    /\ \A j \in Job : client[j] \in {"polling", "closed"} => Handed(j)
    /\ \A j \in Job : kept = j => Handed(j)
    /\ \A j \in Job : web[j] = "inline" => KindOf[j] = "refill"

\* The broker has no job that was not handed to it.
TakenWhenAsked == \A j \in Job : web[j] \in {"new", "enqueue"} => j \notin took

\* The owner of a refill is recorded, or known to be lost, before its page polls.
OwnersKnown ==
    /\ \A j \in Job : web[j] = "remember" => (j \in took /\ j \notin inproc /\ KindOf[j] = "refill")
    /\ \A j \in Job : client[j] \in {"polling", "closed"} =>
          (KindOf[j] # "refill" \/ j \in owner \/ j \in forgotten)

\* What is revoked was handed out, and is not what the worker runs.
RevokedRests ==
    /\ \A j \in revoked : Handed(j)
    /\ worker.at = "run" => worker.msg[1] \notin revoked

IInv ==
    /\ TypeOK
    /\ NothingLost
    /\ StoredIsOver
    /\ ResultsTrue
    /\ PagesAnswered
    /\ TakenWhenAsked
    /\ OwnersKnown
    /\ RevokedRests
    /\ ToldTheTruth

USE DispatchAssumption

LEMMA InitInv == Init => IInv
<1> SUFFICES ASSUME Init PROVE IInv
    OBVIOUS
<1>1. TypeOK
    BY DEF Init, TypeOK, Worker, State
<1>2. NothingLost /\ StoredIsOver /\ ResultsTrue
    BY DEF Init, NothingLost, StoredIsOver, ResultsTrue
<1>3. PagesAnswered /\ TakenWhenAsked /\ OwnersKnown /\ RevokedRests /\ ToldTheTruth
    BY DEF Init, PagesAnswered, TakenWhenAsked, OwnersKnown, RevokedRests, ToldTheTruth
<1>4. QED
    BY <1>1, <1>2, <1>3 DEF IInv

\* The worker's message is one of some job.
LEMMA InHand ==
    ASSUME IInv, worker.at \in {"run", "stored"}
    PROVE  \E j \in Job, n \in 0..MaxRetries : worker.msg = <<j, n>>
BY DEF IInv, TypeOK, Worker, Message

LEMMA TypeStep == ASSUME IInv, Next PROVE TypeOK'
<1> USE DEF IInv
<1>1. ASSUME NEW j \in Job, Ask(j) PROVE TypeOK'
    BY <1>1 DEF TypeOK, Ask, WebGoto, broker, history
<1>2. ASSUME NEW j \in Job, Accepted(j) PROVE TypeOK'
    BY <1>2 DEF TypeOK, Accepted, Answer, WebGoto, Tell, Message, Cancellable
<1>3. ASSUME NEW j \in Job, Refused(j) PROVE TypeOK'
    BY <1>3 DEF TypeOK, Refused, WebGoto, Tell, history, Message
<1>4. ASSUME NEW j \in Job, Remember(j) PROVE TypeOK'
  <2>1. j \in took /\ KindOf[j] = "refill"
      BY <1>4 DEF Remember, OwnersKnown
  <2>2. /\ owner' \in SUBSET {i \in took' : KindOf[i] = "refill"}
        /\ forgotten' \in SUBSET took'
      BY <1>4, <2>1 DEF TypeOK, Remember
  <2>3. QED
      BY <1>4, <2>2 DEF TypeOK, Remember, Answer, WebGoto, Tell, broker, Cancellable
<1>5. ASSUME NEW j \in Job, RunHere(j) PROVE TypeOK'
    BY <1>5 DEF TypeOK, RunHere, WebGoto, Tell, broker
<1>6. CASE ServerCrash
    BY <1>6 DEF TypeOK, ServerCrash, broker, history
<1>7. ASSUME NEW m \in Message, Receive(m) PROVE TypeOK'
    BY <1>7 DEF TypeOK, Receive, Report, Message, Worker, State
<1>8. CASE Succeed
    BY <1>8 DEF TypeOK, Succeed, End, Report, Message, Worker, State
<1>9. CASE Fail
  <2>1. PICK j \in Job, n \in 0..MaxRetries : worker.msg = <<j, n>>
      BY <1>9, InHand DEF Fail
  <2>2. worker.msg[1] = j /\ worker.msg[2] = n
      BY <2>1
  <2>3. CASE KindOf[j] \in Retrying /\ n < MaxRetries
    <3>1. <<j, n + 1>> \in Message
        BY <2>3 DEF Message
    <3>2. /\ queue' = [queue EXCEPT ![<<j, n + 1>>] = queue[<<j, n + 1>>] + 1]
          /\ Report(j, "RETRY")
          /\ worker' = [worker EXCEPT !.at = "stored"]
          /\ UNCHANGED <<web, inproc, unacked, owner, client, kept, crashes, history, revoked>>
          /\ worker.at = "run"
        BY <1>9, <2>2, <2>3 DEF Fail, RetryOf
    <3>3. QED
        BY <3>1, <3>2 DEF TypeOK, Report, Worker, State, history
  <2>4. CASE ~(KindOf[j] \in Retrying /\ n < MaxRetries)
    <3>1. End(j, "FAILURE") /\ UNCHANGED <<queue, finished, revoked>> /\ worker.at = "run"
        BY <1>9, <2>2, <2>4 DEF Fail
    <3>2. QED
        BY <3>1 DEF TypeOK, End, Report, Worker, State
  <2>5. QED
      BY <2>3, <2>4
<1>10. CASE TimeOut
    BY <1>10 DEF TypeOK, TimeOut, End, Report, Message, Worker, State
<1>11. CASE Acknowledge
    BY <1>11 DEF TypeOK, Acknowledge, Worker, history
<1>12. CASE Progress
    BY <1>12 DEF TypeOK, Progress, Report, Worker, Message, State, history
<1>13. CASE WorkerCrash
    BY <1>13 DEF TypeOK, WorkerCrash, LeftUnacked, Worker, history
<1>14. CASE WorkerStart
    BY <1>14 DEF TypeOK, WorkerStart, Worker, history
<1>15. ASSUME NEW m \in Message, Redeliver(m) PROVE TypeOK'
    BY <1>15 DEF TypeOK, Redeliver, history
<1>16. ASSUME NEW j \in Job, Poll(j) PROVE TypeOK'
  <2>1. j \in took
      BY <1>16 DEF Poll, PagesAnswered, Handed
  <2>2. forgotten' \in SUBSET took
      BY <1>16, <2>1 DEF TypeOK, Poll
  <2>3. QED
      BY <1>16, <2>2 DEF TypeOK, Poll, Tell, broker
<1>17. ASSUME NEW j \in Job, StopPolling(j) \/ Resume(j) PROVE TypeOK'
    BY <1>17 DEF TypeOK, StopPolling, Resume, Tell, broker, history
<1>18. ASSUME NEW j \in Job, Cancel(j) PROVE TypeOK'
    BY <1>18 DEF TypeOK, Cancel, Revoke, Report, Worker, Message, State
<1>19. ASSUME NEW j \in Job, Expire(j) PROVE TypeOK'
    BY <1>19 DEF TypeOK, Expire, State
<1>20. QED
    BY <1>1, <1>2, <1>3, <1>4, <1>5, <1>6, <1>7, <1>8, <1>9, <1>10, <1>11, <1>12, <1>13,
       <1>14, <1>15, <1>16, <1>17, <1>18, <1>19 DEF Next, WorkerStep

\* What no step takes back.
LEMMA Kept ==
    ASSUME IInv, [Next]_vars
    PROVE  /\ took \subseteq took'
           /\ over \subseteq over'
           /\ \A j \in Job : finished[j] > 0 => finished'[j] > 0
           /\ forgotten \subseteq forgotten'
<1> USE DEF IInv, TypeOK
<1>1. took \subseteq took' /\ over \subseteq over'
  <2>1. CASE Succeed \/ Fail \/ TimeOut
      BY <2>1 DEF Succeed, Fail, TimeOut, End, history
  <2>2. CASE Acknowledge \/ WorkerStart \/ WorkerCrash \/ Progress \/ ServerCrash
      BY <2>2 DEF Acknowledge, WorkerStart, WorkerCrash, Progress, ServerCrash, history
  <2>3. ASSUME NEW m \in Message, Receive(m) \/ Redeliver(m)
        PROVE  took \subseteq took' /\ over \subseteq over'
      BY <2>3 DEF Receive, Redeliver, history
  <2>4. ASSUME NEW j \in Job, Ask(j) \/ Accepted(j) \/ Refused(j) \/ Remember(j) \/ RunHere(j)
        PROVE  took \subseteq took' /\ over \subseteq over'
      BY <2>4 DEF Ask, Accepted, Refused, Remember, RunHere, history
  <2>5. ASSUME NEW j \in Job, Poll(j) \/ StopPolling(j) \/ Resume(j) \/ Cancel(j) \/ Expire(j)
        PROVE  took \subseteq took' /\ over \subseteq over'
      BY <2>5 DEF Poll, StopPolling, Resume, Cancel, Revoke, Expire, history
  <2>6. QED
      BY <2>1, <2>2, <2>3, <2>4, <2>5 DEF Next, WorkerStep, vars
<1>4. forgotten \subseteq forgotten'
    BY DEF Next, vars, history, Ask, Accepted, Refused, Remember, RunHere, ServerCrash,
           WorkerStep, Receive, Succeed, Fail, TimeOut, Acknowledge, WorkerStart, Progress, End,
           WorkerCrash, Redeliver, Poll, StopPolling, Resume, Cancel, Revoke, Expire
<1>2. finished' = finished \/ \E i \in Job : finished' = [finished EXCEPT ![i] = finished[i] + 1]
  <2>1. CASE Succeed
    <3>1. worker.msg[1] \in Job
        BY <2>1, InHand DEF Succeed
    <3>2. QED
        BY <2>1, <3>1 DEF Succeed
  <2>2. CASE Fail
      BY <2>2 DEF Fail, End, history
  <2>3. ASSUME NEW j \in Job, RunHere(j)
        PROVE  finished' = finished \/ \E i \in Job : finished' = [finished EXCEPT ![i] = finished[i] + 1]
      BY <2>3 DEF RunHere
  <2>4. QED
      BY <2>1, <2>2, <2>3
      DEF Next, vars, history, Ask, Accepted, Refused, Remember, ServerCrash, WorkerStep,
          Receive, TimeOut, Acknowledge, WorkerStart, Progress, End, WorkerCrash, Redeliver,
          Poll, StopPolling, Resume, Cancel, Expire
<1>3. \A j \in Job : finished[j] > 0 => finished'[j] > 0
    BY <1>2
<1>5. QED
    BY <1>1, <1>3, <1>4

\* Where the messages of a job are, message by message.
Lying(m) == queue[m] > 0 \/ unacked[m] > 0
Moving(m) == Lying(m) \/ worker.msg = m

\* No job is lost by a step that leaves each message of it somewhere, or the job over.
LEMMA StillHeld ==
    ASSUME IInv, took' = took, over \subseteq over',
           \A m \in Message : Moving(m) => (Moving(m)' \/ m[1] \in over' \/ Elsewhere(m[1])')
    PROVE  NothingLost'
<1> SUFFICES ASSUME NEW j \in took, j \notin over' PROVE Held(j)'
    BY DEF NothingLost
<1>1. j \in Job /\ Held(j)
    BY DEF IInv, TypeOK, NothingLost
<1>2. PICK n \in 0..MaxRetries : Moving(<<j, n>>)
    BY <1>1 DEF Held, Moving, Lying
<1>3. <<j, n>> \in Message /\ <<j, n>>[1] = j
    BY <1>1 DEF Message
<1>4. Moving(<<j, n>>)' \/ Elsewhere(j)'
    BY <1>2, <1>3
<1>5. QED
    BY <1>4 DEF Moving, Lying, Elsewhere, Held

\* What lies about stays when no message is taken away.
LEMMA StillElsewhere ==
    ASSUME IInv, NEW j \in Job, Elsewhere(j), \A m \in Message : Lying(m) => Lying(m)'
    PROVE  Elsewhere(j)'
<1>1. PICK n \in 0..MaxRetries : Lying(<<j, n>>)
    BY DEF Elsewhere, Lying
<1>2. Lying(<<j, n>>)'
    BY <1>1 DEF Message
<1>3. QED
    BY <1>2 DEF Elsewhere, Lying

LEMMA NothingLostStep == ASSUME IInv, Next PROVE NothingLost' /\ StoredIsOver'
<1> USE DEF IInv
<1> DEFINE Good == NothingLost /\ StoredIsOver
<1>0. over \subseteq over' /\ took \subseteq took'
    BY Kept
<1>1. ASSUME UNCHANGED <<took, queue, unacked, worker>> PROVE Good'
    BY <1>0, <1>1 DEF NothingLost, StoredIsOver, Held, Elsewhere
\* One more message, and the worker as it was.
<1>2. ASSUME NEW m \in Message, UNCHANGED <<unacked, worker>>,
             queue' = [queue EXCEPT ![m] = queue[m] + 1]
      PROVE  /\ \A k \in Message : Lying(k) => Lying(k)'
             /\ \A k \in Message : Moving(k) => Moving(k)'
             /\ Lying(m)'
    BY <1>2 DEF TypeOK, Lying, Moving
<1>3. ASSUME UNCHANGED worker, \A k \in Message : Lying(k) => Lying(k)'
      PROVE  StoredIsOver'
  <2> SUFFICES ASSUME worker.at = "stored" PROVE worker.msg[1] \in over' \/ Elsewhere(worker.msg[1])'
      BY <1>3 DEF StoredIsOver
  <2>1. worker.msg[1] \in Job
      BY InHand
  <2>2. QED
      BY <1>0, <1>3, <2>1, StillElsewhere DEF StoredIsOver
<1>4. ASSUME NEW j \in Job, Accepted(j) PROVE Good'
  <2>1. <<j, 0>> \in Message
      BY DEF Message
  <2>2. UNCHANGED <<unacked, worker>> /\ queue' = [queue EXCEPT ![<<j, 0>>] = queue[<<j, 0>>] + 1]
        /\ took' = took \cup {j}
      BY <1>4 DEF Accepted
  <2>3. /\ \A k \in Message : Lying(k) => Lying(k)'
        /\ \A k \in Message : Moving(k) => Moving(k)'
        /\ Lying(<<j, 0>>)'
      BY <1>2, <2>1, <2>2
  <2>4. Held(j)'
      BY <2>3 DEF Held, Lying
  <2>5. \A i \in took : i \in over' \/ Held(i)'
    <3> SUFFICES ASSUME NEW i \in took, i \notin over' PROVE Held(i)'
        OBVIOUS
    <3>1. PICK n \in 0..MaxRetries : Moving(<<i, n>>)
        BY <1>0 DEF NothingLost, Held, Moving, Lying
    <3>2. <<i, n>> \in Message
        BY DEF Message, TypeOK
    <3>3. QED
        BY <2>3, <3>1, <3>2 DEF Held, Moving, Lying
  <2>6. QED
      BY <1>3, <2>2, <2>3, <2>4, <2>5 DEF NothingLost
<1>5. ASSUME NEW j \in Job, Refused(j) PROVE Good'
  <2>1. CASE queue' = queue
      BY <1>1, <1>5, <2>1 DEF Refused, history
  <2>2. CASE queue' = [queue EXCEPT ![<<j, 0>>] = queue[<<j, 0>>] + 1]
    <3>1. <<j, 0>> \in Message /\ UNCHANGED <<unacked, worker, took>>
        BY <1>5 DEF Message, Refused, history
    <3>2. QED
        BY <1>0, <1>2, <1>3, <2>2, <3>1, StillHeld
  <2>3. QED
      BY <1>5, <2>1, <2>2 DEF Refused
<1>6. ASSUME NEW m \in Message, Receive(m) PROVE Good'
  <2>1. /\ worker.at = "idle" /\ queue' = [queue EXCEPT ![m] = queue[m] - 1]
        /\ UNCHANGED <<unacked, took>>
        /\ worker'.at \in {"idle", "run"}
        /\ (UNCHANGED worker /\ m[1] \in over') \/ worker'.msg = m
      BY <1>6 DEF Receive
  <2>2. worker.msg = None
      BY <2>1 DEF TypeOK
  <2>3. \A k \in Message : k # None
      BY DEF Message
  <2>4. \A k \in Message : k # m /\ Lying(k) => Lying(k)'
      BY <2>1 DEF TypeOK, Lying
  <2>5. \A k \in Message : Moving(k) => Moving(k)' \/ k[1] \in over'
      BY <2>1, <2>2, <2>3, <2>4 DEF Moving
  <2>6. QED
      BY <1>0, <2>1, <2>5, StillHeld DEF StoredIsOver
\* A run that is over stays in hand till it is acknowledged.
<1>7. ASSUME worker' = [worker EXCEPT !.at = "stored"], UNCHANGED <<queue, unacked, took>>,
             worker.msg[1] \in over'
      PROVE  Good'
  <2>1. worker'.msg = worker.msg
      BY <1>7 DEF TypeOK, Worker
  <2>2. \A m \in Message : Moving(m) => Moving(m)'
      BY <1>7, <2>1 DEF Moving, Lying
  <2>3. QED
      BY <1>0, <1>7, <2>1, <2>2, StillHeld DEF StoredIsOver
<1>8. CASE Succeed
    BY <1>7, <1>8 DEF Succeed, End
<1>9. CASE Fail
  <2>1. PICK j \in Job, n \in 0..MaxRetries : worker.msg = <<j, n>>
      BY <1>9, InHand DEF Fail
  <2>2. worker.msg[1] = j /\ worker.msg[2] = n
      BY <2>1
  <2>3. CASE KindOf[j] \in Retrying /\ n < MaxRetries
    <3>1. <<j, n + 1>> \in Message
        BY <2>3 DEF Message
    <3>2. /\ queue' = [queue EXCEPT ![<<j, n + 1>>] = queue[<<j, n + 1>>] + 1]
          /\ worker' = [worker EXCEPT !.at = "stored"]
          /\ UNCHANGED <<unacked, took>>
        BY <1>9, <2>2, <2>3 DEF Fail, RetryOf, history
    <3>3. worker'.msg = worker.msg
        BY <3>2 DEF TypeOK, Worker
    <3>4. (\A m \in Message : Lying(m) => Lying(m)') /\ Lying(<<j, n + 1>>)'
        BY <3>1, <3>2 DEF TypeOK, Lying
    <3>5. Elsewhere(j)'
        BY <2>3, <3>4 DEF Elsewhere, Lying
    <3>6. \A m \in Message : Moving(m) => Moving(m)'
        BY <3>3, <3>4 DEF Moving
    <3>7. QED
        BY <1>0, <2>2, <3>2, <3>3, <3>5, <3>6, StillHeld DEF StoredIsOver
  <2>4. CASE ~(KindOf[j] \in Retrying /\ n < MaxRetries)
      BY <1>7, <1>9, <2>2, <2>4 DEF Fail, End
  <2>5. QED
      BY <2>3, <2>4
<1>10. CASE TimeOut
    BY <1>7, <1>10 DEF TimeOut, End
<1>11. CASE Acknowledge
  <2>1. worker.at = "stored" /\ worker' = [at |-> "idle", msg |-> None]
        /\ UNCHANGED <<queue, unacked, took, over>>
      BY <1>11 DEF Acknowledge, history
  <2>2. PICK j \in Job, n \in 0..MaxRetries : worker.msg = <<j, n>>
      BY <2>1, InHand
  <2>3. \A m \in Message : Moving(m) => (Moving(m)' \/ m[1] \in over' \/ Elsewhere(m[1])')
    <3>1. j \in over' \/ Elsewhere(j)'
        BY <2>1, <2>2 DEF StoredIsOver, Elsewhere
    <3>2. \A m \in Message : Moving(m) => Moving(m)' \/ m = <<j, n>>
        BY <2>1, <2>2 DEF Moving, Lying
    <3>3. QED
        BY <3>1, <3>2
  <2>4. QED
      BY <1>0, <2>1, <2>3, StillHeld DEF StoredIsOver
<1>12. CASE WorkerCrash
  <2>1. worker' = [at |-> "down", msg |-> None] /\ UNCHANGED <<queue, took>>
        /\ unacked' = LeftUnacked(worker.msg)
      BY <1>12 DEF WorkerCrash, history
  <2>2. \A m \in Message : unacked[m] > 0 \/ worker.msg = m => unacked'[m] > 0
      BY <2>1 DEF TypeOK, LeftUnacked, Message
  <2>3. \A m \in Message : Moving(m) => Moving(m)'
      BY <2>1, <2>2 DEF Moving, Lying
  <2>4. QED
      BY <1>0, <2>1, <2>3, StillHeld DEF StoredIsOver
<1>13. CASE WorkerStart
  <2>1. worker.at = "down" /\ worker' = [at |-> "idle", msg |-> None]
        /\ UNCHANGED <<queue, unacked, took>>
      BY <1>13 DEF WorkerStart, history
  <2>2. worker.msg = worker'.msg
      BY <2>1 DEF TypeOK
  <2>3. QED
      BY <1>0, <2>1, <2>2, StillHeld DEF Moving, Lying, StoredIsOver
<1>14. ASSUME NEW m \in Message, Redeliver(m) PROVE Good'
  <2>1. /\ unacked' = [unacked EXCEPT ![m] = unacked[m] - 1]
        /\ queue' = [queue EXCEPT ![m] = queue[m] + 1]
        /\ UNCHANGED <<worker, took>>
      BY <1>14 DEF Redeliver, history
  <2>2. \A k \in Message : Lying(k) => Lying(k)'
      BY <2>1 DEF TypeOK, Lying
  <2>3. QED
      BY <1>0, <1>3, <2>1, <2>2, StillHeld DEF Moving
<1>15. ASSUME NEW j \in Job, Cancel(j) PROVE Good'
  <2>1. CASE Revoke(j) /\ worker.at = "run" /\ worker.msg[1] = j
      BY <1>7, <1>15, <2>1 DEF Cancel, Revoke
  <2>2. CASE ~(Revoke(j) /\ worker.at = "run" /\ worker.msg[1] = j)
      BY <1>1, <1>15, <2>2 DEF Cancel, Revoke
  <2>3. QED
      BY <2>1, <2>2
<1>16. ASSUME NEW j \in Job,
              Ask(j) \/ Remember(j) \/ RunHere(j) \/ Poll(j) \/ StopPolling(j) \/ Resume(j) \/ Expire(j)
       PROVE  Good'
    BY <1>1, <1>16 DEF Ask, Remember, RunHere, Poll, StopPolling, Resume, Expire, broker, history
<1>17. CASE ServerCrash \/ Progress
    BY <1>1, <1>17 DEF ServerCrash, Progress, broker, history
<1>18. QED
    BY <1>4, <1>5, <1>6, <1>8, <1>9, <1>10, <1>11, <1>12, <1>13, <1>14, <1>15, <1>16, <1>17
    DEF Next, WorkerStep

LEMMA ResultsStep == ASSUME IInv, Next PROVE ResultsTrue'
<1> USE DEF IInv
<1>0. /\ over \subseteq over' /\ \A j \in Job : finished[j] > 0 => finished'[j] > 0
    BY Kept
<1>1. ASSUME UNCHANGED result PROVE ResultsTrue'
    BY <1>0, <1>1 DEF ResultsTrue
\* A report that is true, and does not speak of an end that was not.
<1>2. ASSUME NEW j \in Job, NEW state \in State, Report(j, state),
             state = "SUCCESS" => finished'[j] > 0,
             state \in {"FAILURE", "REVOKED"} => j \in over',
             state = "PROGRESS" => KindOf[j] = "import"
      PROVE  ResultsTrue'
    BY <1>0, <1>2 DEF ResultsTrue, Report, TypeOK
<1>3. worker.at = "run" => worker.msg[1] \in Job
    BY InHand
<1>4. ASSUME NEW m \in Message, Receive(m) PROVE ResultsTrue'
  <2>1. m[1] \in Job
      BY DEF Message
  <2>2. \/ Report(m[1], "REVOKED") /\ m[1] \in over'
        \/ Report(m[1], "STARTED")
      BY <1>4 DEF Receive
  <2>3. QED
      BY <1>2, <2>1, <2>2 DEF State
<1>5. CASE Succeed
  <2>1. finished'[worker.msg[1]] > 0
      BY <1>3, <1>5 DEF Succeed, TypeOK
  <2>2. Report(worker.msg[1], "SUCCESS") /\ worker.msg[1] \in Job
      BY <1>3, <1>5 DEF Succeed, End
  <2>3. QED
      BY <1>2, <2>1, <2>2 DEF State
<1>6. CASE Fail
  <2>1. /\ worker.msg[1] \in Job
        /\ \/ Report(worker.msg[1], "RETRY")
           \/ Report(worker.msg[1], "FAILURE") /\ worker.msg[1] \in over'
      BY <1>3, <1>6 DEF Fail, End
  <2>2. QED
      BY <1>2, <2>1 DEF State
<1>7. CASE TimeOut
  <2>1. worker.msg[1] \in Job /\ Report(worker.msg[1], "FAILURE") /\ worker.msg[1] \in over'
      BY <1>3, <1>7 DEF TimeOut, End
  <2>2. QED
      BY <1>2, <2>1 DEF State
<1>8. CASE Progress
  <2>1. worker.msg[1] \in Job /\ Report(worker.msg[1], "PROGRESS") /\ KindOf[worker.msg[1]] = "import"
      BY <1>3, <1>8 DEF Progress
  <2>2. QED
      BY <1>2, <2>1 DEF State
<1>9. ASSUME NEW j \in Job, Cancel(j) PROVE ResultsTrue'
  <2>1. UNCHANGED result \/ (Report(j, "REVOKED") /\ j \in over')
      BY <1>9 DEF Cancel, Revoke
  <2>2. QED
      BY <1>1, <1>2, <2>1 DEF State
<1>10. ASSUME NEW j \in Job, Expire(j) PROVE ResultsTrue'
    BY <1>0, <1>10 DEF Expire, ResultsTrue, TypeOK
<1>11. CASE Acknowledge \/ WorkerStart \/ WorkerCrash \/ ServerCrash
    BY <1>1, <1>11 DEF Acknowledge, WorkerStart, WorkerCrash, ServerCrash, broker
<1>12. ASSUME NEW m \in Message, Redeliver(m) PROVE ResultsTrue'
    BY <1>1, <1>12 DEF Redeliver
<1>13. ASSUME NEW j \in Job,
              Ask(j) \/ Accepted(j) \/ Refused(j) \/ Remember(j) \/ RunHere(j) \/ Poll(j)
              \/ StopPolling(j) \/ Resume(j)
       PROVE  ResultsTrue'
    BY <1>1, <1>13 DEF Ask, Accepted, Refused, Remember, RunHere, Poll, StopPolling, Resume, broker
<1>14. QED
    BY <1>4, <1>5, <1>6, <1>7, <1>8, <1>9, <1>10, <1>11, <1>12, <1>13 DEF Next, WorkerStep

\* A job that was handed out stays so: its request is answered.
LEMMA StillHanded ==
    ASSUME IInv, NEW j \in Job, Handed(j), Next
    PROVE  Handed(j)'
<1> USE DEF IInv, TypeOK, Handed
<1>0. took \subseteq took'
    BY Kept
<1>1. ASSUME NEW i \in Job, Ask(i) \/ Accepted(i) \/ Refused(i) \/ Remember(i) \/ RunHere(i)
      PROVE  Handed(j)'
    BY <1>0, <1>1 DEF Ask, Accepted, Refused, Remember, RunHere, WebGoto, Answer
<1>2. CASE ServerCrash
    BY <1>0, <1>2 DEF ServerCrash
<1>3. CASE UNCHANGED <<web, inproc>>
    BY <1>0, <1>3
<1>4. QED
    BY <1>1, <1>2, <1>3
    DEF Next, WorkerStep, Receive, Succeed, Fail, TimeOut, End, Acknowledge, WorkerStart, Progress,
        WorkerCrash, Redeliver, Poll, StopPolling, Resume, Cancel, Expire

LEMMA TakenStep == ASSUME IInv, Next PROVE TakenWhenAsked'
<1> USE DEF IInv, TypeOK, TakenWhenAsked
<1>1. ASSUME NEW j \in Job, Ask(j) \/ Accepted(j) \/ Refused(j) \/ Remember(j) \/ RunHere(j)
      PROVE  TakenWhenAsked'
    BY <1>1 DEF Ask, Accepted, Refused, Remember, RunHere, WebGoto, Answer, history
<1>2. CASE ServerCrash
    BY <1>2 DEF ServerCrash, history
<1>3. CASE UNCHANGED <<web, took>>
    BY <1>3
<1>4. QED
    BY <1>1, <1>2, <1>3
    DEF Next, WorkerStep, Receive, Succeed, Fail, TimeOut, End, Acknowledge, WorkerStart, Progress,
        WorkerCrash, Redeliver, Poll, StopPolling, Resume, Cancel, Expire, history

LEMMA PagesStep == ASSUME IInv, Next PROVE PagesAnswered' /\ OwnersKnown'
<1> USE DEF IInv, TypeOK, PagesAnswered, OwnersKnown
<1> DEFINE Good == PagesAnswered /\ OwnersKnown
<1>0. took \subseteq took' /\ forgotten \subseteq forgotten' /\ \A j \in Job : Handed(j) => Handed(j)'
    BY Kept, StillHanded
<1>1. ASSUME UNCHANGED <<web, inproc, client, kept, owner>> PROVE Good'
    BY <1>0, <1>1
<1>2. ASSUME NEW j \in Job, Ask(j) PROVE Good'
    BY <1>0, <1>2 DEF Ask, WebGoto
<1>3. ASSUME NEW j \in Job, Accepted(j) PROVE Good'
  <2>1. j \notin inproc /\ client[j] = "none"
      BY <1>3 DEF Accepted
  <2>2. CASE KindOf[j] = "refill"
      BY <1>0, <1>3, <2>1, <2>2 DEF Accepted, WebGoto, AnsweredAtOnce
  <2>3. CASE KindOf[j] # "refill"
    <3>1. web' = [web EXCEPT ![j] = "answered"] /\ j \in took' /\ UNCHANGED <<inproc, owner, forgotten>>
        BY <1>3, <2>3 DEF Accepted, Answer, WebGoto, AnsweredAtOnce
    <3>2. client' \in {client, [client EXCEPT ![j] = "polling"]} /\ kept' \in {kept, j}
        BY <1>3, <2>3 DEF Accepted, Answer, Tell, AnsweredAtOnce
    <3>3. Handed(j)'
        BY <2>1, <3>1 DEF Handed
    <3>4. QED
        BY <1>0, <2>3, <3>1, <3>2, <3>3
  <2>4. QED
      BY <2>2, <2>3
<1>4. ASSUME NEW j \in Job, Refused(j) PROVE Good'
    BY <1>0, <1>4 DEF Refused, WebGoto, Tell
<1>5. ASSUME NEW j \in Job, Remember(j) PROVE Good'
  <2>1. /\ web' = [web EXCEPT ![j] = "answered"] /\ j \in took' /\ j \notin inproc' /\ UNCHANGED inproc
        /\ client' = [client EXCEPT ![j] = "polling"] /\ UNCHANGED kept
        /\ owner \subseteq owner' /\ (j \in owner' \/ j \in forgotten')
      BY <1>5 DEF Remember, Answer, WebGoto, Tell, Polled
  <2>2. Handed(j)'
      BY <2>1 DEF Handed
  <2>3. QED
      BY <1>0, <2>1, <2>2
<1>6. ASSUME NEW j \in Job, RunHere(j) PROVE Good'
    BY <1>0, <1>6 DEF RunHere, WebGoto, Tell
<1>7. CASE ServerCrash
    BY <1>0, <1>7 DEF ServerCrash
<1>8. ASSUME NEW j \in Job, Poll(j) \/ StopPolling(j) \/ Resume(j) \/ Cancel(j) PROVE Good'
  <2>1. /\ UNCHANGED <<web, inproc, owner>>
        /\ client[j] \in {"polling", "closed"} \/ UNCHANGED client
        /\ \A i \in Job : i # j => client'[i] = client[i]
        /\ kept' \in {kept, None}
      BY <1>8 DEF Poll, StopPolling, Resume, Cancel, Tell
  <2>2. QED
      BY <1>0, <2>1 DEF Handed
<1>9. ASSUME NEW j \in Job, Expire(j) PROVE Good'
    BY <1>0, <1>9 DEF Expire
<1>10. CASE Succeed \/ Fail \/ TimeOut
    BY <1>1, <1>10 DEF Succeed, Fail, TimeOut, End
<1>11. CASE Acknowledge \/ WorkerStart \/ WorkerCrash \/ Progress
    BY <1>1, <1>11 DEF Acknowledge, WorkerStart, WorkerCrash, Progress
<1>12. ASSUME NEW m \in Message, Receive(m) \/ Redeliver(m) PROVE Good'
    BY <1>1, <1>12 DEF Receive, Redeliver
<1>13. QED
    BY <1>2, <1>3, <1>4, <1>5, <1>6, <1>7, <1>8, <1>9, <1>10, <1>11, <1>12 DEF Next, WorkerStep

LEMMA RevokedStep == ASSUME IInv, Next PROVE RevokedRests'
<1> USE DEF IInv, RevokedRests
<1>0. revoked \subseteq Job /\ \A j \in Job : Handed(j) => Handed(j)'
    BY StillHanded DEF TypeOK
<1>1. ASSUME revoked' \subseteq revoked, worker'.at = "run" => UNCHANGED <<worker>> PROVE RevokedRests'
    BY <1>0, <1>1
<1>2. ASSUME NEW m \in Message, Receive(m) PROVE RevokedRests'
    BY <1>0, <1>2 DEF Receive
<1>3. ASSUME NEW j \in Job, Cancel(j) PROVE RevokedRests'
  <2>1. CASE Revoke(j)
    <3>1. (worker.at = "run" => worker.msg[1] # j /\ UNCHANGED worker) \/ worker'.at = "stored"
        BY <2>1 DEF Revoke, TypeOK, Worker
    <3>2. worker.at # "run" => worker'.at # "run"
        BY <2>1 DEF Revoke
    <3>3. revoked' \subseteq revoked \cup {j} /\ Handed(j)
        BY <1>3, <2>1 DEF Cancel, Revoke, PagesAnswered
    <3>4. QED
        BY <1>0, <3>1, <3>2, <3>3
  <2>2. CASE ~Revoke(j)
      BY <1>1, <1>3, <2>2 DEF Cancel
  <2>3. QED
      BY <2>1, <2>2
<1>4. CASE Succeed \/ Fail \/ TimeOut
  <2>1. worker'.at = "stored" /\ UNCHANGED <<revoked>>
      BY <1>4 DEF Succeed, Fail, TimeOut, End, TypeOK, Worker
  <2>2. QED
      BY <1>1, <2>1
<1>5. CASE Acknowledge \/ WorkerStart \/ WorkerCrash \/ Progress \/ ServerCrash
    BY <1>1, <1>5 DEF Acknowledge, WorkerStart, WorkerCrash, Progress, ServerCrash, broker
<1>6. ASSUME NEW m \in Message, Redeliver(m) PROVE RevokedRests'
    BY <1>1, <1>6 DEF Redeliver
<1>7. ASSUME NEW j \in Job,
             Ask(j) \/ Accepted(j) \/ Refused(j) \/ Remember(j) \/ RunHere(j) \/ Poll(j)
             \/ StopPolling(j) \/ Resume(j) \/ Expire(j)
      PROVE  RevokedRests'
    BY <1>1, <1>7 DEF Ask, Accepted, Refused, Remember, RunHere, Poll, StopPolling, Resume, Expire, broker
<1>8. QED
    BY <1>2, <1>3, <1>4, <1>5, <1>6, <1>7 DEF Next, WorkerStep

\* What is told of a job is so.
So(j, what) ==
    /\ what = "done" => (finished[j] > 0 \/ (KindOf[j] = "import" /\ j \notin took))
    /\ what = "failed" => j \in over
    /\ what = "unknown" => j \in forgotten

LEMMA ToldStep == ASSUME IInv, Next PROVE ToldTheTruth'
<1> USE DEF IInv
<1>0. /\ over \subseteq over' /\ forgotten \subseteq forgotten'
      /\ \A j \in Job : finished[j] > 0 => finished'[j] > 0
    BY Kept
\* Celery takes no job whose page has been told of an end.
<1>1. \A j \in Job : j \in took' => j \in took \/ client[j] = "none"
  <2>1. ASSUME NEW j \in Job, Accepted(j) PROVE client[j] = "none" /\ took' = took \cup {j}
      BY <2>1 DEF Accepted, PagesAnswered, TypeOK
  <2>2. CASE UNCHANGED took
      BY <2>2
  <2>3. QED
      BY <2>1, <2>2 DEF Next, history, Ask, Refused, Remember, RunHere, ServerCrash,
             WorkerStep, Receive, Succeed, Fail, TimeOut, Acknowledge, WorkerStart, Progress, End,
             WorkerCrash, Redeliver, Poll, StopPolling, Resume, Cancel, Expire
<1>2. \A j \in Job : So(j, client[j]) /\ (client'[j] = client[j] => So(j, client[j])')
    BY <1>0, <1>1 DEF ToldTheTruth, So
<1>3. ASSUME UNCHANGED client PROVE ToldTheTruth'
    BY <1>2, <1>3 DEF ToldTheTruth, So
<1>4. ASSUME NEW j \in Job, NEW what, Tell(j, what), So(j, what)' PROVE ToldTheTruth'
  <2>1. client'[j] = what /\ \A i \in Job : i # j => client'[i] = client[i]
      BY <1>4 DEF Tell, TypeOK
  <2>2. QED
      BY <1>2, <1>4, <2>1 DEF ToldTheTruth, So
<1>5. ASSUME NEW j \in Job, Poll(j) PROVE ToldTheTruth'
  <2>1. UNCHANGED <<finished, over, took>> /\ client[j] = "polling"
      BY <1>5 DEF Poll
  <2>2. CASE KindOf[j] = "refill" /\ Tell(j, "unknown")
                /\ forgotten' = IF j \in owner THEN forgotten \cup {j} ELSE forgotten
    <3>1. j \in forgotten'
        BY <2>1, <2>2 DEF OwnersKnown
    <3>2. QED
        BY <1>4, <2>2, <3>1 DEF So
  <2>3. CASE KindOf[j] = "refill" /\ RefillStatus(result[j]) \in {"done", "failed"} /\ Tell(j, RefillStatus(result[j]))
    <3>1. \/ Tell(j, "done") /\ result[j] = "SUCCESS"
          \/ Tell(j, "failed") /\ result[j] \in {"FAILURE", "REVOKED"}
        BY <2>3 DEF RefillStatus, State, TypeOK, ResultsTrue
    <3>2. QED
        BY <1>4, <2>1, <3>1 DEF So, ResultsTrue
  <2>4. CASE ImportStatus(result[j]) \in {"done", "failed"} /\ Tell(j, ImportStatus(result[j]))
    <3>1. \/ Tell(j, "done") /\ result[j] = "SUCCESS"
          \/ Tell(j, "failed") /\ result[j] \in {"FAILURE", "REVOKED"}
        BY <2>4 DEF ImportStatus, State, TypeOK
    <3>2. QED
        BY <1>4, <2>1, <3>1 DEF So, ResultsTrue
  <2>5. QED
      BY <1>5, <2>2, <2>3, <2>4 DEF Poll
<1>6. ASSUME NEW j \in Job, Refused(j) PROVE ToldTheTruth'
  <2>1. j \notin took'
      BY <1>6 DEF Refused, TakenWhenAsked, history
  <2>2. (KindOf[j] = "import" /\ Tell(j, "done")) \/ UNCHANGED client
      BY <1>6 DEF Refused
  <2>3. QED
      BY <1>3, <1>4, <2>1, <2>2 DEF So
<1>7. ASSUME NEW j \in Job, RunHere(j) PROVE ToldTheTruth'
  <2>1. \/ UNCHANGED client
        \/ Tell(j, "done") /\ finished' = [finished EXCEPT ![j] = finished[j] + 1]
        \/ Tell(j, "failed") /\ j \in over'
      BY <1>7 DEF RunHere
  <2>2. finished' = [finished EXCEPT ![j] = finished[j] + 1] => finished'[j] > 0
      BY DEF TypeOK
  <2>3. QED
      BY <1>3, <1>4, <2>1, <2>2 DEF So
<1>8. ASSUME NEW j \in Job,
             Ask(j) \/ Accepted(j) \/ Remember(j) \/ StopPolling(j) \/ Resume(j) \/ Cancel(j) \/ Expire(j)
      PROVE  ToldTheTruth'
  <2>1. UNCHANGED client \/ Tell(j, "polling") \/ Tell(j, "closed")
      BY <1>8 DEF Ask, Accepted, Remember, Answer, StopPolling, Resume, Cancel, Expire
  <2>2. QED
      BY <1>3, <1>4, <2>1 DEF So
<1>9. CASE Succeed \/ Fail \/ TimeOut
    BY <1>3, <1>9 DEF Succeed, Fail, TimeOut, End
<1>10. CASE Acknowledge \/ WorkerStart \/ WorkerCrash \/ Progress \/ ServerCrash
    BY <1>3, <1>10 DEF Acknowledge, WorkerStart, WorkerCrash, Progress, ServerCrash
<1>11. ASSUME NEW m \in Message, Receive(m) \/ Redeliver(m) PROVE ToldTheTruth'
    BY <1>3, <1>11 DEF Receive, Redeliver
<1>12. QED
    BY <1>5, <1>6, <1>7, <1>8, <1>9, <1>10, <1>11 DEF Next, WorkerStep

LEMMA InvStep == IInv /\ [Next]_vars => IInv'
<1>1. IInv /\ Next => IInv'
    BY TypeStep, NothingLostStep, ResultsStep, TakenStep, PagesStep, RevokedStep,
       ToldStep DEF IInv
<1>2. IInv /\ UNCHANGED vars => IInv'
    BY DEF vars, IInv, TypeOK, NothingLost, Held, StoredIsOver, Elsewhere, ResultsTrue,
           PagesAnswered, TakenWhenAsked, OwnersKnown, RevokedRests, Handed, ToldTheTruth
<1>3. QED
    BY <1>1, <1>2

LEMMA Invariance == Spec => []IInv
<1>1. QED
    BY InitInv, InvStep, PTL DEF Spec

\* A revoked import is not run to its end by the worker that knows of it.
LEMMA CancelStep == ASSUME IInv, Next PROVE \A j \in revoked : finished'[j] = finished[j]
<1> SUFFICES ASSUME NEW j \in revoked PROVE finished'[j] = finished[j]
    OBVIOUS
<1> USE DEF IInv
<1>1. /\ j \in Job /\ KindOf[j] \in Cancellable
      /\ web[j] = "answered" /\ j \notin inproc
      /\ worker.at = "run" => worker.msg[1] # j
    BY DEF TypeOK, RevokedRests, Handed
<1>2. CASE Succeed
    BY <1>1, <1>2 DEF Succeed, TypeOK
<1>3. ASSUME NEW i \in Job, RunHere(i) PROVE finished'[j] = finished[j]
  <2>1. i # j
      BY <1>1, <1>3 DEF RunHere
  <2>2. QED
      BY <1>1, <1>3, <2>1 DEF RunHere, TypeOK
<1>4. CASE Fail
    BY <1>4 DEF Fail, End, history
<1>5. CASE ~Succeed /\ ~Fail /\ \A i \in Job : ~RunHere(i)
    BY <1>5 DEF Next, history, Ask, Accepted, Refused, Remember, ServerCrash, WorkerStep, Receive,
                TimeOut, Acknowledge, WorkerStart, Progress, End, WorkerCrash, Redeliver, Poll,
                StopPolling, Resume, Cancel, Expire
<1>6. QED
    BY <1>2, <1>3, <1>4, <1>5

-----------------------------------------------------------------------------

(***************************************************************************)
(* The requests, the broker, the worker, the backend and the pages keep    *)
(* their types, for any jobs and any number of retries and crashes.        *)
(***************************************************************************)
THEOREM TypeCorrect == Spec => []TypeOK
BY Invariance, PTL DEF IInv

(***************************************************************************)
(* background.py:3: whatever Celery took and has not brought to an end, a  *)
(* message of it exists - no crash or retry loses a job.                   *)
(***************************************************************************)
THEOREM NoJobLost == Spec => []NothingLost
BY Invariance, PTL DEF IInv

(***************************************************************************)
(* routers/exercises.py:67: what an answer or a poll tells the page has    *)
(* happened, an import that fell back to the server apart.                 *)
(***************************************************************************)
THEOREM PagesToldTheTruth == Spec => []ToldTheTruth
BY Invariance, PTL DEF IInv

(***************************************************************************)
(* routers/admin.py:190: a cancelled import is not run to its end by the   *)
(* worker that got the word.                                               *)
(***************************************************************************)
THEOREM CancelledStaysCancelled == Spec => CancelSticks
<1>1. IInv /\ [Next]_vars => [\A j \in revoked : finished'[j] = finished[j]]_vars
    BY CancelStep
<1>2. QED
    BY <1>1, Invariance, PTL DEF Spec, CancelSticks
===============================================================================
