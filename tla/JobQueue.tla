------------------------------- MODULE JobQueue -------------------------------
(***************************************************************************)
(* The job queue (apps/web/src/lib/queue.ts): a job is a row of `jobs` and *)
(* a chain of awaits in the process that enqueued it, retried from a timer *)
(* of that process.  Its RPC calls go through the circuit breaker, which   *)
(* it shares with every other request of the process.                      *)
(*                                                                         *)
(* The columns of a row are the database's, `pc` and `attempt` are the     *)
(* process's and are gone when it stops.  The database may lose a write    *)
(* whose answer the queue does not look at.  The network is external.      *)
(***************************************************************************)
EXTENDS CircuitBreaker, FiniteSets

CONSTANTS Job,
          MAX_ATTEMPTS,
          MaxRun,       \* bound on the count of a job's runs, which has none
          MaxFailures   \* bound on the timeouts other requests add

ASSUME Assumption ==
  /\ MAX_ATTEMPTS \in Nat \ {0}
  /\ MaxRun \in Nat
  /\ MaxRun > MAX_ATTEMPTS
  /\ MaxFailures \in Nat


(* The anchors of a job are alike, and so are its mints, to everything that *)
(* reads them here; how many mints left is counted apart.                  *)
Tx == [kind: {"anchor", "mint"}, job: Job]
Many == 2     \* "more than one"

VARIABLES status,       \* jobs.status, "absent" without a row
          attempts,     \* jobs.attempts
          pc,           \* the await processJob has reached
          attempt,      \* processJob's own `attempts`
          calling,      \* jobs with an RPC call in flight
          dbAnchored,   \* readings.anchored of the job's reading
          dbMinted,     \* readings.minted
          certified,    \* jobs whose reading has a certificate, or several
          pool,         \* network: transactions handed over
          anchored,     \* ledger: jobs whose reading the registry holds
          run,          \* history: how often runJob was entered, up to MaxRun
          late,         \* history: mints handed over once anchored, up to Many
          interrupted   \* history: jobs that lost a write or their process

row == <<status, attempts>>
results == <<dbAnchored, dbMinted, certified>>
network == <<pool, anchored>>
history == <<run, late>>
vars == <<breaker, row, pc, attempt, calling, results, network, history,
          interrupted>>

RpcStep == {"anchor_account", "anchor_prepare", "anchor_send", "mint_account",
            "mint_prepare", "mint_send"}
SendStep == {"anchor_send", "mint_send"}
Step == RpcStep \cup {"read", "start", "mark_anchored", "mark_minted",
                      "certify", "invalidate", "finish", "back_off", "timer",
                      "give_up"}
Following ==
  [anchor_account |-> "anchor_prepare", anchor_prepare |-> "anchor_send",
   anchor_send |-> "mark_anchored", mint_account |-> "mint_prepare",
   mint_prepare |-> "mint_send", mint_send |-> "mark_minted"]

TypeOK ==
  /\ BreakerTypeOK
  /\ status \in [Job -> {"absent", "pending", "running", "done", "failed"}]
  /\ attempts \in [Job -> 0..MAX_ATTEMPTS]
  /\ pc \in [Job -> Step \cup {"absent", "rest"}]
  /\ attempt \in [Job -> 0..MAX_ATTEMPTS]
  /\ calling \in SUBSET Job
  /\ dbAnchored \in SUBSET Job
  /\ dbMinted \in SUBSET Job
  /\ certified \in SUBSET Job
  /\ pool \in SUBSET Tx
  /\ anchored \in SUBSET Job
  /\ run \in [Job -> 0..MaxRun]
  /\ late \in [Job -> 0..Many]
  /\ interrupted \in SUBSET Job

Init ==
  /\ BreakerInit
  /\ status = [j \in Job |-> "absent"]
  /\ attempts = [j \in Job |-> 0]
  /\ pc = [j \in Job |-> "absent"]
  /\ attempt = [j \in Job |-> 0]
  /\ calling = {}
  /\ dbAnchored = {}
  /\ dbMinted = {}
  /\ certified = {}
  /\ pool = {}
  /\ anchored = {}
  /\ run = [j \in Job |-> 0]
  /\ late = [j \in Job |-> 0]
  /\ interrupted = {}

------------------------------------------------------------------------------
Goto(j, step) == pc' = [pc EXCEPT ![j] = step]

(* A write is made, or lost without the queue noticing.                    *)
Written(j) == UNCHANGED interrupted
Lost(j) == interrupted' = interrupted \cup {j}
SetStatus(j, s) ==
  \/ Written(j) /\ status' = [status EXCEPT ![j] = s]
  \/ Lost(j) /\ UNCHANGED status

(* The operators named Mutant... are wrong variants of the definition that *)
(* follows them.  No action uses them; each breaks a property below.       *)

(* One attempt more than MAX_ATTEMPTS, and one less.                       *)
MutantOneMore(j) ==
  IF attempt[j] <= MAX_ATTEMPTS THEN "back_off" ELSE "give_up"
MutantOneLess(j) ==
  IF attempt[j] + 1 < MAX_ATTEMPTS THEN "back_off" ELSE "give_up"

(* The catch of processJob.                                                *)
AfterFailure(j) == IF attempt[j] < MAX_ATTEMPTS THEN "back_off" ELSE "give_up"

(* enqueue inserts the row and starts processJob; when the answer to the   *)
(* insert is lost it throws and nothing will process the row.              *)
Enqueue(j) ==
  /\ pc[j] = "absent"
  /\ status' = [status EXCEPT ![j] = "pending"]
  /\ \/ Goto(j, "read") /\ Written(j)
     \/ Goto(j, "rest") /\ Lost(j)
  /\ UNCHANGED <<breaker, attempts, attempt, calling, results, network, history>>

(* processJob returns when it cannot read the row, or when it is done.     *)
Read(j) ==
  /\ pc[j] = "read"
  /\ \/ /\ status[j] # "done"
        /\ attempt' = [attempt EXCEPT ![j] = attempts[j] + 1]
        /\ Goto(j, "start")
        /\ Written(j)
     \/ status[j] = "done" /\ Goto(j, "rest") /\ Written(j) /\ UNCHANGED attempt
     \/ Goto(j, "rest") /\ Lost(j) /\ UNCHANGED attempt
  /\ UNCHANGED <<breaker, row, calling, results, network, history>>

(* The answer to the update that counts the attempt is not looked at, and  *)
(* nothing bounds how often it is lost: the row then keeps its count, and  *)
(* the next run, if this one fails, is numbered like this one.             *)
Start(j) ==
  /\ pc[j] = "start"
  /\ Goto(j, "anchor_account")
  /\ \/ /\ Written(j)
        /\ status' = [status EXCEPT ![j] = "running"]
        /\ attempts' = [attempts EXCEPT ![j] = attempt[j]]
     \/ Lost(j) /\ UNCHANGED row
  /\ run' = [run EXCEPT ![j] = IF @ < MaxRun THEN @ + 1 ELSE @]
  /\ UNCHANGED <<breaker, attempt, calling, results, network, late>>

------------------------------------------------------------------------------
(* The call waits for the circuit instead of failing.                      *)
MutantRejected(j) == UNCHANGED pc

(* CircuitOpenError ends the run like any other error.                     *)
Rejected(j) == Goto(j, AfterFailure(j))

(* rpcCall, up to the request that leaves.                                 *)
Call(j) ==
  /\ pc[j] \in RpcStep
  /\ j \notin calling
  /\ \/ /\ CheckCircuit
        /\ calling' = calling \cup {j}
        /\ UNCHANGED pc
     \/ /\ CircuitOpen
        /\ Rejected(j)
        /\ UNCHANGED <<breaker, calling>>
  /\ UNCHANGED <<row, attempt, results, network, history, interrupted>>

(* What sendTransaction may leave at the network, whatever it answers.     *)
HandedOver(j) ==
  CASE pc[j] = "anchor_send" -> {[kind |-> "anchor", job |-> j]}
    [] pc[j] = "mint_send" -> {[kind |-> "mint", job |-> j]}
    [] OTHER -> {}

(* The mints among `sent` that leave when the registry has the reading.    *)
CountLate(sent) ==
  late' = [j \in Job |->
             IF j \in anchored /\ late[j] < Many
                /\ \E t \in sent : t.kind = "mint" /\ t.job = j
             THEN late[j] + 1 ELSE late[j]]

(* The refusal of an anchor taken for a success.                           *)
MutantSimulates(j) == TRUE

(* The simulation refuses to anchor what the registry holds.               *)
Simulates(j) == pc[j] = "anchor_prepare" => j \notin anchored

(* rpcCall, from the answer: a success, an answer of status ERROR to a     *)
(* transaction that was sent, an error of the node, a timeout.             *)
Answer(j) ==
  /\ j \in calling
  /\ calling' = calling \ {j}
  /\ \E sent \in SUBSET HandedOver(j) : pool' = pool \cup sent /\ CountLate(sent)
  /\ \/ Simulates(j) /\ RecordSuccess /\ Goto(j, Following[pc[j]])
     \/ pc[j] \in SendStep /\ RecordSuccess /\ Goto(j, AfterFailure(j))
     \/ UNCHANGED breaker /\ Goto(j, AfterFailure(j))
     \/ RecordFailure /\ Goto(j, AfterFailure(j))
  /\ UNCHANGED <<row, attempt, results, anchored, run, interrupted>>

(* Other requests of the process use the same breaker.                     *)
OtherCall == CheckCircuit /\ UNCHANGED <<row, pc, attempt, calling, results,
                                         network, history, interrupted>>
OtherAnswer ==
  /\ \/ RecordSuccess
     \/ failures < MaxFailures /\ RecordFailure
  /\ UNCHANGED <<row, pc, attempt, calling, results, network, history,
                 interrupted>>
ResetElapsed == Elapse /\ UNCHANGED <<row, pc, attempt, calling, results,
                                      network, history, interrupted>>

------------------------------------------------------------------------------
MarkAnchored(j) ==
  /\ pc[j] = "mark_anchored"
  /\ Goto(j, "mint_account")
  /\ \/ Written(j) /\ dbAnchored' = dbAnchored \cup {j}
     \/ Lost(j) /\ UNCHANGED dbAnchored
  /\ UNCHANGED <<breaker, row, attempt, calling, dbMinted, certified,
                 network, history>>

MarkMinted(j) ==
  /\ pc[j] = "mark_minted"
  /\ Goto(j, "certify")
  /\ \/ Written(j) /\ dbMinted' = dbMinted \cup {j}
     \/ Lost(j) /\ UNCHANGED dbMinted
  /\ UNCHANGED <<breaker, row, attempt, calling, dbAnchored, certified,
                 network, history>>

(* The cooperative is read and the certificate inserted; without the       *)
(* cooperative the job is done all the same.                               *)
Certify(j) ==
  /\ pc[j] = "certify"
  /\ \/ /\ certified' = certified \cup {j}
        /\ Goto(j, "invalidate")
        /\ Written(j)
     \/ /\ Lost(j)
        /\ UNCHANGED certified
        /\ Goto(j, "invalidate") \/ Goto(j, "finish")
  /\ UNCHANGED <<breaker, row, attempt, calling, dbAnchored, dbMinted, network,
                 history>>

(* invalidateCert throws when Redis does not answer: the run has failed.   *)
Invalidate(j) ==
  /\ pc[j] = "invalidate"
  /\ Goto(j, "finish") \/ Goto(j, AfterFailure(j))
  /\ UNCHANGED <<breaker, row, attempt, calling, results, network, history,
                 interrupted>>

Finish(j) ==
  /\ pc[j] = "finish"
  /\ SetStatus(j, "done")
  /\ Goto(j, "rest")
  /\ UNCHANGED <<breaker, attempts, attempt, calling, results, network, history>>

BackOff(j) ==
  /\ pc[j] = "back_off"
  /\ SetStatus(j, "pending")
  /\ Goto(j, "timer")
  /\ UNCHANGED <<breaker, attempts, attempt, calling, results, network, history>>

Timer(j) ==
  /\ pc[j] = "timer"
  /\ Goto(j, "read")
  /\ UNCHANGED <<breaker, row, attempt, calling, results, network, history,
                 interrupted>>

GiveUp(j) ==
  /\ pc[j] = "give_up"
  /\ SetStatus(j, "failed")
  /\ Goto(j, "rest")
  /\ UNCHANGED <<breaker, attempts, attempt, calling, results, network, history>>

(* The process stops: chains, timers and the breaker are gone.  A call in  *)
(* flight may still hand its transaction over.                             *)
Crash ==
  /\ \E j \in Job : pc[j] \in Step
  /\ pc' = [j \in Job |-> IF pc[j] \in Step THEN "rest" ELSE pc[j]]
  /\ interrupted' = interrupted \cup {j \in Job : pc[j] \in Step}
  /\ calling' = {}
  /\ \E sent \in SUBSET UNION {HandedOver(j) : j \in calling} :
       pool' = pool \cup sent /\ CountLate(sent)
  /\ ResetBreaker
  /\ UNCHANGED <<row, attempt, results, anchored, run>>

------------------------------------------------------------------------------
(* A mint that is applied is seen by no job: a simulation asks for anchors. *)
Apply(t) ==
  /\ t \in pool
  /\ pool' = pool \ {t}
  /\ \/ t.kind = "anchor" /\ anchored' = anchored \cup {t.job}
     \/ UNCHANGED anchored
  /\ UNCHANGED <<breaker, row, pc, attempt, calling, results, history,
                 interrupted>>

Process(j) ==
  \/ Read(j) \/ Start(j) \/ Call(j) \/ Answer(j) \/ MarkAnchored(j)
  \/ MarkMinted(j) \/ Certify(j) \/ Invalidate(j) \/ Finish(j) \/ BackOff(j)
  \/ Timer(j) \/ GiveUp(j)

Next ==
  \/ \E j \in Job : Enqueue(j) \/ Process(j)
  \/ OtherCall \/ OtherAnswer \/ ResetElapsed
  \/ Crash
  \/ \E t \in pool : Apply(t)

(* Every await settles - rpcCall races its promise against a timer - and   *)
(* every timer fires, as long as the process runs.                         *)
Spec == Init /\ [][Next]_vars /\ \A j \in Job : WF_vars(Process(j))

------------------------------------------------------------------------------
(* A job may hand its mint over more than once: a run that fails after its *)
(* anchor or its mint was handed over - for want of an answer, or at the   *)
(* invalidation behind the certificate - is repeated from the anchor on,   *)
(* and the simulation refuses a second anchor only when the first one is   *)
(* on the ledger.  From then on one more mint leaves at most, that of the  *)
(* run which had passed its simulation, however often the job is retried.  *)
OneMintOnceAnchored == \A j \in Job : late[j] <= 1

(* A job at rest whose writes and process survived is settled: it is done, *)
(* with its reading marked and a certificate, or failed after all its      *)
(* attempts.                                                               *)
RestIsSettled ==
  \A j \in Job : pc[j] = "rest" /\ j \notin interrupted =>
    \/ /\ status[j] = "done"
       /\ j \in dbAnchored \cap dbMinted
       /\ j \in certified
    \/ status[j] = "failed" /\ run[j] = MAX_ATTEMPTS

(* Every job whose attempts are counted from some time on comes to rest:   *)
(* no chain of retries goes on for ever, not even with a circuit that      *)
(* opens again and again.  (A job is retried for ever when the update that *)
(* counts its attempts keeps being lost: the comment of processJob, lines  *)
(* 45-48 of queue.ts, limits the retries without that reserve.)            *)
AttemptIsCounted(j) ==
  pc[j] = "start" /\ pc'[j] = "anchor_account" => attempts'[j] = attempt[j]
ComesToRest ==
  \A j \in Job :
    <>[][AttemptIsCounted(j)]_vars => (pc[j] \in Step ~> pc[j] = "rest")

==============================================================================
