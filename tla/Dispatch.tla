------------------------------- MODULE Dispatch -------------------------------
(***************************************************************************)
(* Background work: a request hands a job to Celery or, when the broker    *)
(* will not take it, does it in its own process; one worker runs the jobs  *)
(* one at a time; the client polls for the end (app/services/learning/     *)
(* background.py, vocabulary/dictionary_service.py, app/celery/).          *)
(*                                                                         *)
(* What a job does is in ExercisePool and Vocabulary: here a run of it     *)
(* ends well or raises.                                                    *)
(***************************************************************************)
EXTENDS Integers, FiniteSets

CONSTANTS
    Job,         \* task ids; each is asked for by one request
    KindOf,      \* what each job is
    None,        \* nothing
    MaxRetries,  \* CELERY_TASK_MAX_RETRIES
    MaxCrashes   \* bound: stops of the worker or of the server

Kind == {"refill", "translate", "email", "import"}

\* Tasks with autoretry_for, those a client polls, and those an admin may cancel.
Retrying == {"refill", "translate"}
Polled == {"refill", "import"}
Cancellable == {"import"}

ASSUME DispatchAssumption ==
    /\ KindOf \in [Job -> Kind]
    /\ IsFiniteSet(Job)
    /\ MaxRetries \in Nat
    /\ MaxCrashes \in Nat
    /\ None \notin Job \cup (Job \X (0..MaxRetries))

VARIABLES
    web,       \* the request that asks for each job
    inproc,    \* jobs added to the server's BackgroundTasks
    queue,     \* messages at the broker: how many of each
    unacked,   \* messages delivered to a worker that died: how many of each
    worker,    \* what the worker is doing
    revoked,   \* the worker's list of revoked task ids, in memory
    result,    \* task states in the result backend
    owner,     \* refill_owner keys in Redis
    client,    \* what the page of each job knows
    kept,      \* the import the admin's browser remembers (one browser: a bound)
    crashes,   \* stops so far
    took,      \* history: jobs the broker has taken
    over,      \* history: jobs that came to an end
    finished,  \* history: how often each job ran to its end
    forgotten  \* history: jobs whose owner key was not written, could not be read or has expired

broker == <<queue, unacked, worker, revoked, result>>
history == <<took, over, finished, forgotten>>
vars == <<web, inproc, queue, unacked, worker, revoked, result, owner, client, kept, crashes,
          took, over, finished, forgotten>>

Message == Job \X (0..MaxRetries)

State == {"PENDING", "STARTED", "PROGRESS", "RETRY", "SUCCESS", "FAILURE", "REVOKED"}
READY == {"SUCCESS", "FAILURE", "REVOKED"}

\* at "stored" the end of the run is in the backend and its message not yet acknowledged.
Worker == [at : {"down", "idle", "run", "stored"}, msg : Message \cup {None}]

TypeOK ==
    /\ web \in [Job -> {"new", "enqueue", "remember", "inline", "answered", "failed"}]
    /\ inproc \in SUBSET Job
    /\ queue \in [Message -> Nat]
    /\ unacked \in [Message -> Nat]
    /\ worker \in Worker
    /\ worker.msg # None <=> worker.at \in {"run", "stored"}
    /\ revoked \in SUBSET {j \in Job : KindOf[j] \in Cancellable}
    /\ worker.at = "down" => revoked = {}
    /\ result \in [Job -> State]
    /\ owner \in SUBSET {j \in took : KindOf[j] = "refill"}
    /\ client \in [Job -> {"none", "polling", "closed", "done", "failed", "unknown"}]
    /\ kept \in {j \in Job : KindOf[j] \in Cancellable} \cup {None}
    /\ crashes \in 0..MaxCrashes
    /\ took \in SUBSET Job
    /\ over \in SUBSET Job
    /\ finished \in [Job -> Nat]
    /\ forgotten \in SUBSET took

Init ==
    /\ web = [j \in Job |-> "new"]
    /\ inproc = {}
    /\ queue = [m \in Message |-> 0]
    /\ unacked = [m \in Message |-> 0]
    /\ worker = [at |-> "idle", msg |-> None]
    /\ revoked = {}
    /\ result = [j \in Job |-> "PENDING"]
    /\ owner = {}
    /\ client = [j \in Job |-> "none"]
    /\ kept = None
    /\ crashes = 0
    /\ took = {}
    /\ over = {}
    /\ finished = [j \in Job |-> 0]
    /\ forgotten = {}

-----------------------------------------------------------------------------
(* The request *)

WebGoto(j, at) == web' = [web EXCEPT ![j] = at]

Tell(j, what) == client' = [client EXCEPT ![j] = what]

\* The page gets the task id with the answer, and starts to poll it.
Answer(j) ==
    /\ WebGoto(j, "answered")
    /\ IF KindOf[j] \in Polled THEN Tell(j, "polling") ELSE UNCHANGED client
    /\ kept' = IF KindOf[j] = "import" THEN j ELSE kept

Ask(j) ==
    /\ web[j] = "new"
    /\ WebGoto(j, "enqueue")
    /\ UNCHANGED <<inproc, broker, owner, client, kept, crashes, history>>

\* Mutant: the answer does not wait for the owner.
AnswersAtOnce(kind) == TRUE

AnsweredAtOnce(kind) == kind # "refill"

\* task.delay comes back.
Accepted(j) ==
    /\ web[j] = "enqueue"
    /\ queue' = [queue EXCEPT ![<<j, 0>>] = @ + 1]
    /\ took' = took \cup {j}
    /\ IF AnsweredAtOnce(KindOf[j]) THEN Answer(j)
       ELSE WebGoto(j, "remember") /\ UNCHANGED <<client, kept>>
    /\ UNCHANGED <<inproc, unacked, worker, revoked, result, owner, crashes, over, finished, forgotten>>

\* task.delay raises, with the message at the broker or not.  A refill then runs in
\* the request, anything else after the answer: an answer without a task id is an
\* import done, for the page.
Refused(j) ==
    /\ web[j] = "enqueue"
    /\ \/ queue' = queue
       \/ queue' = [queue EXCEPT ![<<j, 0>>] = @ + 1]
    /\ IF KindOf[j] = "refill" THEN WebGoto(j, "inline") /\ UNCHANGED inproc
       ELSE WebGoto(j, "answered") /\ inproc' = inproc \cup {j}
    /\ IF KindOf[j] = "import" THEN Tell(j, "done") ELSE UNCHANGED client
    /\ UNCHANGED <<unacked, worker, revoked, result, owner, kept, crashes, history>>

\* remember_refill_owner; a failure to write is logged and forgotten.
Remember(j) ==
    /\ web[j] = "remember"
    /\ \/ owner' = owner \cup {j} /\ UNCHANGED forgotten
       \/ forgotten' = forgotten \cup {j} /\ UNCHANGED owner
    /\ Answer(j)
    /\ UNCHANGED <<inproc, broker, crashes, took, over, finished>>

\* replenish in the request, which answers with what came of it, or the job's
\* *_in_background function, whose error is a line in the log.
RunHere(j) ==
    \E well \in BOOLEAN :
        /\ \/ /\ web[j] = "inline"
              /\ WebGoto(j, IF well THEN "answered" ELSE "failed")
              /\ Tell(j, IF well THEN "done" ELSE "failed")
              /\ UNCHANGED inproc
           \/ /\ j \in inproc
              /\ inproc' = inproc \ {j}
              /\ UNCHANGED <<web, client>>
        /\ finished' = IF well THEN [finished EXCEPT ![j] = @ + 1] ELSE finished
        /\ over' = over \cup {j}
        /\ UNCHANGED <<broker, owner, kept, crashes, took, forgotten>>

\* A job it was to do itself goes with it.
ServerCrash ==
    /\ crashes < MaxCrashes
    /\ crashes' = crashes + 1
    /\ web' = [j \in Job |-> IF web[j] \in {"enqueue", "remember", "inline"} THEN "failed" ELSE web[j]]
    /\ inproc' = {}
    /\ UNCHANGED <<broker, owner, client, kept, history>>

-----------------------------------------------------------------------------
(* The worker *)

\* The backend keeps a SUCCESS against a later report of the same task.
Report(j, state) ==
    result' = IF result[j] = "SUCCESS" THEN result ELSE [result EXCEPT ![j] = state]

Receive(m) ==
    /\ worker.at = "idle"
    /\ queue[m] > 0
    /\ queue' = [queue EXCEPT ![m] = @ - 1]
    /\ IF m[1] \in revoked
       THEN /\ Report(m[1], "REVOKED")
            /\ over' = over \cup {m[1]}
            /\ UNCHANGED worker
       ELSE /\ Report(m[1], "STARTED")
            /\ worker' = [at |-> "run", msg |-> m]
            /\ UNCHANGED over
    /\ UNCHANGED <<web, inproc, unacked, revoked, owner, client, kept, crashes, took, finished, forgotten>>

Progress ==
    /\ worker.at = "run"
    /\ KindOf[worker.msg[1]] = "import"
    /\ Report(worker.msg[1], "PROGRESS")
    /\ UNCHANGED <<web, inproc, queue, unacked, worker, revoked, owner, client, kept, crashes, history>>

End(j, state) ==
    /\ Report(j, state)
    /\ worker' = [worker EXCEPT !.at = "stored"]
    /\ over' = over \cup {j}
    /\ UNCHANGED <<web, inproc, unacked, owner, client, kept, crashes, took, forgotten>>

Succeed ==
    /\ worker.at = "run"
    /\ finished' = [finished EXCEPT ![worker.msg[1]] = @ + 1]
    /\ End(worker.msg[1], "SUCCESS")
    /\ UNCHANGED <<queue, revoked>>

\* Mutant: a retry starts to count anew.
RetryOfFirst(m) == <<m[1], 0>>

RetryOf(m) == <<m[1], m[2] + 1>>

\* The job raises, or its soft time limit does in it.
Fail ==
    LET m == worker.msg IN
    /\ worker.at = "run"
    /\ IF KindOf[m[1]] \in Retrying /\ m[2] < MaxRetries
       THEN /\ queue' = [queue EXCEPT ![RetryOf(m)] = @ + 1]
            /\ Report(m[1], "RETRY")
            /\ worker' = [worker EXCEPT !.at = "stored"]
            /\ UNCHANGED <<web, inproc, unacked, owner, client, kept, crashes, history>>
       ELSE End(m[1], "FAILURE") /\ UNCHANGED <<queue, finished>>
    /\ UNCHANGED revoked

\* CELERY_TASK_TIME_LIMIT kills the run: no retry.
TimeOut ==
    /\ worker.at = "run"
    /\ End(worker.msg[1], "FAILURE")
    /\ UNCHANGED <<queue, revoked, finished>>

Acknowledge ==
    /\ worker.at = "stored"
    /\ worker' = [at |-> "idle", msg |-> None]
    /\ UNCHANGED <<web, inproc, queue, unacked, revoked, result, owner, client, kept, crashes, history>>

\* Mutant: messages are acknowledged when they are received.
LeftUnackedNone(m) == unacked

\* task_acks_late: the message of a run that did not end stays with the broker.
LeftUnacked(m) == IF m = None THEN unacked ELSE [unacked EXCEPT ![m] = @ + 1]

WorkerCrash ==
    /\ worker.at # "down"
    /\ crashes < MaxCrashes
    /\ crashes' = crashes + 1
    /\ worker' = [at |-> "down", msg |-> None]
    /\ unacked' = LeftUnacked(worker.msg)
    /\ revoked' = {}
    /\ UNCHANGED <<web, inproc, queue, result, owner, client, kept, history>>

WorkerStart ==
    /\ worker.at = "down"
    /\ worker' = [at |-> "idle", msg |-> None]
    /\ UNCHANGED <<web, inproc, queue, unacked, revoked, result, owner, client, kept, crashes, history>>

\* The visibility timeout; a run ends long before it.
Redeliver(m) ==
    /\ worker.at # "down"
    /\ unacked[m] > 0
    /\ unacked' = [unacked EXCEPT ![m] = @ - 1]
    /\ queue' = [queue EXCEPT ![m] = @ + 1]
    /\ UNCHANGED <<web, inproc, worker, revoked, result, owner, client, kept, crashes, history>>

-----------------------------------------------------------------------------
(* The page *)

\* _STATUS
RefillStatus(state) ==
    CASE state \in {"PENDING", "RETRY"} -> "pending"
      [] state = "STARTED" -> "running"
      [] state = "SUCCESS" -> "done"
      [] OTHER -> "failed"

\* import_task_status
ImportStatus(state) ==
    CASE state \in {"PROGRESS", "STARTED", "RETRY"} -> "running"
      [] state = "SUCCESS" -> "done"
      [] state = "PENDING" -> "pending"
      [] OTHER -> "failed"

\* A refill is unknown without its owner, or when Redis cannot be read for it; a
\* status other than the end leaves the page polling.
Poll(j) ==
    LET status == IF KindOf[j] = "refill" THEN RefillStatus(result[j]) ELSE ImportStatus(result[j]) IN
    /\ client[j] = "polling"
    /\ \/ /\ KindOf[j] = "refill"
          /\ Tell(j, "unknown")
          /\ forgotten' = IF j \in owner THEN forgotten \cup {j} ELSE forgotten
          /\ UNCHANGED kept
       \/ /\ KindOf[j] = "refill" => j \in owner
          /\ status \in {"done", "failed"}
          /\ Tell(j, status)
          /\ kept' = IF KindOf[j] = "import" THEN None ELSE kept
          /\ UNCHANGED forgotten
    /\ UNCHANGED <<web, inproc, broker, owner, crashes, took, over, finished>>

\* The time limit of the page, an error in place of an answer, or the page is closed.
StopPolling(j) ==
    /\ client[j] = "polling"
    /\ Tell(j, "closed")
    /\ UNCHANGED <<web, inproc, broker, owner, kept, crashes, history>>

Resume(j) ==
    /\ kept = j
    /\ client[j] = "closed"
    /\ Tell(j, "polling")
    /\ UNCHANGED <<web, inproc, broker, owner, kept, crashes, history>>

\* Mutant: the task is revoked and a run of it goes on.
RevokeOnly(j) ==
    /\ revoked' = IF worker.at = "down" THEN revoked ELSE revoked \cup {j}
    /\ UNCHANGED <<result, worker, over>>

\* Mutant: the word reaches a worker that is down.
RevokeReachesAll(j) ==
    /\ revoked' = revoked \cup {j}
    /\ UNCHANGED <<result, worker, over>>

\* control.revoke with terminate: a broadcast to the workers that are up.
Revoke(j) ==
    /\ revoked' = IF worker.at = "down" THEN revoked ELSE revoked \cup {j}
    /\ IF worker.at = "run" /\ worker.msg[1] = j
       THEN /\ Report(j, "REVOKED")
            /\ worker' = [worker EXCEPT !.at = "stored"]
            /\ over' = over \cup {j}
       ELSE UNCHANGED <<result, worker, over>>

\* The page forgets the import whatever the answer, unless none comes; the broadcast
\* may have failed, and the poll that runs goes on.
Cancel(j) ==
    /\ kept = j
    /\ kept' \in {None, j}
    /\ Revoke(j) \/ UNCHANGED <<revoked, result, worker, over>>
    /\ UNCHANGED <<web, inproc, queue, unacked, owner, client, crashes, took, finished, forgotten>>

\* CELERY_RESULT_EXPIRES_SECONDS and _REFILL_OWNER_TTL: an hour, which no page
\* that keeps polling waits out.
Expire(j) ==
    /\ client[j] # "polling"
    /\ web[j] \notin {"enqueue", "remember"}
    /\ \/ result[j] \in READY /\ result' = [result EXCEPT ![j] = "PENDING"] /\ UNCHANGED <<owner, forgotten>>
       \/ j \in owner /\ owner' = owner \ {j} /\ forgotten' = forgotten \cup {j} /\ UNCHANGED result
    /\ UNCHANGED <<web, inproc, queue, unacked, worker, revoked, client, kept, crashes, took, over, finished>>

WorkerStep ==
    \/ \E m \in Message : Receive(m)
    \/ Succeed \/ Fail \/ TimeOut \/ Acknowledge \/ WorkerStart

Next ==
    \/ \E j \in Job : Ask(j) \/ Accepted(j) \/ Refused(j) \/ Remember(j) \/ RunHere(j)
    \/ ServerCrash
    \/ WorkerStep
    \/ Progress
    \/ WorkerCrash
    \/ \E m \in Message : Redeliver(m)
    \/ \E j \in Job : Poll(j) \/ StopPolling(j) \/ Resume(j) \/ Cancel(j) \/ Expire(j)

Spec == Init /\ [][Next]_vars

\* A worker that is down is restarted, one that is up takes the next message and
\* the time limits end every run; the broker gives lost messages back.
Fairness ==
    /\ WF_vars(WorkerStep)
    /\ WF_vars(\E m \in Message : Redeliver(m))
    /\ \A j \in Job : WF_vars(RunHere(j))

FairSpec == Spec /\ Fairness

-----------------------------------------------------------------------------
(* Properties *)

Held(j) ==
    \E n \in 0..MaxRetries :
        queue[<<j, n>>] > 0 \/ unacked[<<j, n>>] > 0 \/ worker.msg = <<j, n>>

(***************************************************************************)
(* background.py:3: a job handed to Celery survives a restart.  Until it   *)
(* has come to an end there is a message for it: waiting, in the worker,   *)
(* or left by one that died.                                               *)
(***************************************************************************)
NothingLost == \A j \in took : j \in over \/ Held(j)

(***************************************************************************)
(* What a page says of a job has happened, through retries, crashes,       *)
(* second runs and what expires.  "done" means the job has run to its end, *)
(* except for an import the server kept to itself (InProcessIsDone);       *)
(* "failed" that a run of it has come to an end; and 404 that its owner    *)
(* could not be recorded or read: the record is made before the page has   *)
(* the id (routers/exercises.py:67).                                       *)
(***************************************************************************)
ToldTheTruth ==
    \A j \in Job :
        /\ client[j] = "done" => (finished[j] > 0 \/ (KindOf[j] = "import" /\ j \notin took))
        /\ client[j] = "failed" => j \in over
        /\ client[j] = "unknown" => j \in forgotten

(***************************************************************************)
(* routers/admin.py:190: a cancelled import is not run to its end by the   *)
(* worker that got the word, whether it waits, runs or is delivered again. *)
(***************************************************************************)
CancelSticks == [][\A j \in revoked : finished'[j] = finished[j]]_vars

(***************************************************************************)
(* Every job Celery took comes to an end, through failures, time limits    *)
(* and crashes.                                                            *)
(***************************************************************************)
EventuallyOver == \A j \in Job : j \in took ~> j \in over

-----------------------------------------------------------------------------
(* What documents and comments claim: README.md says where it fails *)

(***************************************************************************)
(* admin.js:487 "Ran in-process (no worker): already done by the time      *)
(* we're here".  The import runs after the answer, and may fail.           *)
(***************************************************************************)
InProcessIsDone ==
    \A j \in Job : (KindOf[j] = "import" /\ client[j] = "done") => finished[j] > 0
=============================================================================
