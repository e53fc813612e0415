---------------------------- MODULE JobQueueProofs ----------------------------
(***************************************************************************)
(* Theorems about JobQueue and its circuit breaker, for any number of jobs *)
(* and attempts, any threshold, and any number of lost writes.             *)
(***************************************************************************)
EXTENDS JobQueue, TLAPS

(* The awaits of runJob, those behind its anchor, its mint, and its        *)
(* certificate, and those between its simulation and its mint.             *)
Running == RpcStep \cup {"mark_anchored", "mark_minted", "certify", "invalidate", "finish"}
Certified == {"invalidate", "finish"}
MarkedMinted == {"certify"} \cup Certified
MarkedAnchored == {"mint_account", "mint_prepare", "mint_send", "mark_minted"} \cup MarkedMinted
MintAhead == {"anchor_send", "mark_anchored", "mint_account", "mint_prepare", "mint_send"}

(* What the columns and the process's own count have to do with the runs,  *)
(* lost writes included.                                                   *)
Counts(j) ==
  /\ pc[j] = "absent" => run[j] = 0 /\ attempts[j] = 0
  /\ pc[j] \in {"read", "timer", "back_off"} => attempts[j] < MAX_ATTEMPTS
  /\ pc[j] = "start" => attempt[j] = attempts[j] + 1
  /\ pc[j] \in Running => run[j] > 0 /\ attempts[j] <= attempt[j]

Calls(j) == j \in calling => pc[j] \in RpcStep

(* A mint is counted as late once, and no run of that job is on its way to *)
(* another: it would have to pass a simulation that refuses it.            *)
LateOnce(j) ==
  /\ late[j] <= 1
  /\ late[j] > 0 => j \in anchored /\ pc[j] \notin MintAhead

Settled(j) ==
  \/ /\ status[j] = "done"
     /\ j \in dbAnchored \cap dbMinted
     /\ j \in certified
  \/ status[j] = "failed" /\ run[j] = MAX_ATTEMPTS

(* The columns of a job that lost no write are those of its run.           *)
Faithful(j) ==
  /\ run[j] = attempts[j]
  /\ pc[j] \in Running \cup {"give_up"} => attempt[j] = attempts[j]
  /\ pc[j] = "give_up" => attempts[j] = MAX_ATTEMPTS
  /\ pc[j] \in MarkedAnchored => j \in dbAnchored
  /\ pc[j] \in MarkedMinted => j \in dbMinted
  /\ pc[j] \in Certified => j \in certified
  /\ status[j] = "done" => pc[j] = "rest"
  /\ pc[j] = "rest" => Settled(j)

JobInv(j) ==
  /\ Counts(j)
  /\ Calls(j)
  /\ LateOnce(j)
  /\ j \notin interrupted => Faithful(j)

Inv ==
  /\ TypeOK
  /\ BreakerMatchesCount
  /\ \A j \in Job : JobInv(j)

------------------------------------------------------------------------------
(* The breaker by itself.                                                  *)
LEMMA BreakerStarts ==
  BreakerInit => BreakerTypeOK /\ BreakerMatchesCount
BY ThresholdAssumption DEF ThresholdAssumption, BreakerInit, BreakerTypeOK, BreakerMatchesCount

LEMMA BreakerStep ==
  ASSUME BreakerTypeOK, BreakerMatchesCount,
         CheckCircuit \/ RecordSuccess \/ RecordFailure \/ Elapse \/ UNCHANGED breaker
  PROVE  BreakerTypeOK' /\ BreakerMatchesCount'
BY ThresholdAssumption DEF ThresholdAssumption, BreakerTypeOK, BreakerMatchesCount,
   CheckCircuit, RecordSuccess, RecordFailure, Elapse, ResetBreaker, breaker

LEMMA NextBreaker ==
  ASSUME Inv, [Next]_vars
  PROVE  BreakerTypeOK' /\ BreakerMatchesCount'
<1>1. BreakerTypeOK /\ BreakerMatchesCount
  BY DEF Inv, TypeOK
<1>2. ASSUME NEW j \in Job, Enqueue(j) \/ Process(j)
      PROVE  CheckCircuit \/ RecordSuccess \/ RecordFailure \/ UNCHANGED breaker
  BY <1>2 DEF Enqueue, Process, Read, Start, Call, Answer, MarkAnchored, MarkMinted, Certify,
     Invalidate, Finish, BackOff, Timer, GiveUp
<1>3. ASSUME OtherCall \/ OtherAnswer \/ ResetElapsed \/ Crash \/ UNCHANGED vars
             \/ \E t \in pool : Apply(t)
      PROVE  CheckCircuit \/ RecordSuccess \/ RecordFailure \/ Elapse \/ UNCHANGED breaker
  BY <1>3 DEF OtherCall, OtherAnswer, ResetElapsed, Crash, RecordSuccess, Apply, vars
<1>4. QED
  BY <1>1, <1>2, <1>3, BreakerStep DEF Next

------------------------------------------------------------------------------
LEMMA FollowingSteps ==
  \A step \in RpcStep :
    /\ Following[step] \in Running
    /\ step = "anchor_account" => Following[step] = "anchor_prepare"
    /\ step = "anchor_prepare" => Following[step] = "anchor_send"
    /\ step = "anchor_send" => Following[step] = "mark_anchored"
    /\ step = "mint_account" => Following[step] = "mint_prepare"
    /\ step = "mint_prepare" => Following[step] = "mint_send"
    /\ step = "mint_send" => Following[step] = "mark_minted"
BY DEF RpcStep, Following, Running

LEMMA StepNames ==
  /\ Running \subseteq Step /\ RpcStep \subseteq Running
  /\ MarkedAnchored \subseteq Running /\ MintAhead \subseteq Running
  /\ {"read", "start", "back_off", "timer", "give_up"} \subseteq Step \ Running
  /\ "absent" \notin Step /\ "rest" \notin Step
BY DEF Running, Step, RpcStep, MarkedAnchored, MarkedMinted, Certified, MintAhead

LEMMA InitInv == Init => Inv
<1> SUFFICES ASSUME Init PROVE Inv
  OBVIOUS
<1>1. TypeOK /\ BreakerMatchesCount
  BY Assumption, BreakerStarts DEF Assumption, Init, TypeOK, Many
<1>2. ASSUME NEW j \in Job PROVE JobInv(j)
  BY Assumption, StepNames DEF Assumption, Init, JobInv, Counts, Calls, LateOnce, Faithful,
     Running, RpcStep, MarkedAnchored, MarkedMinted, Certified
<1>3. QED
  BY <1>1, <1>2 DEF Inv, Init

------------------------------------------------------------------------------
(* What is said of the jobs, and the types of what a job's steps change.   *)
JobTypes ==
  /\ status \in [Job -> {"absent", "pending", "running", "done", "failed"}]
  /\ attempts \in [Job -> 0..MAX_ATTEMPTS]
  /\ pc \in [Job -> Step \cup {"absent", "rest"}]
  /\ attempt \in [Job -> 0..MAX_ATTEMPTS]
  /\ calling \in SUBSET Job
  /\ dbAnchored \in SUBSET Job
  /\ dbMinted \in SUBSET Job
  /\ certified \in SUBSET Job
  /\ anchored \in SUBSET Job
  /\ run \in [Job -> 0..MaxRun]
  /\ late \in [Job -> 0..Many]
  /\ interrupted \in SUBSET Job

Kept == JobTypes /\ \A j \in Job : JobInv(j)

(* A step of one job leaves the others as they are.                        *)
OthersStay(j) ==
  /\ \A i \in Job \ {j} :
       /\ pc'[i] = pc[i] /\ status'[i] = status[i] /\ attempts'[i] = attempts[i]
       /\ attempt'[i] = attempt[i] /\ run'[i] = run[i] /\ late'[i] = late[i]
       /\ i \in calling' => i \in calling
  /\ dbAnchored \subseteq dbAnchored' /\ dbMinted \subseteq dbMinted'
  /\ certified \subseteq certified' /\ interrupted \subseteq interrupted'
  /\ anchored \subseteq anchored'

LEMMA OneJob ==
  ASSUME Inv, NEW j \in Job, OthersStay(j), JobTypes', JobInv(j)'
  PROVE  Kept'
<1>1. ASSUME NEW i \in Job, i # j PROVE JobInv(i)'
  <2>1. JobInv(i)
    BY DEF Inv
  <2>2. Counts(i)' /\ Calls(i)' /\ LateOnce(i)'
    BY <1>1, <2>1 DEF OthersStay, JobInv, Counts, Calls, LateOnce
  <2>3. i \notin interrupted' => Faithful(i)'
    BY <1>1, <2>1 DEF OthersStay, JobInv, Faithful, Settled
  <2>4. QED
    BY <2>2, <2>3 DEF JobInv
<1>2. QED
  BY <1>1 DEF Kept

(* The facts that the steps below start from.                              *)
LEMMA Facts ==
  ASSUME Inv, NEW j \in Job
  PROVE  /\ JobTypes /\ JobInv(j)
         /\ MAX_ATTEMPTS \in Nat \ {0} /\ MaxRun \in Nat /\ MAX_ATTEMPTS < MaxRun
         /\ attempts[j] \in 0..MAX_ATTEMPTS /\ attempt[j] \in 0..MAX_ATTEMPTS
         /\ run[j] \in 0..MaxRun /\ late[j] \in 0..Many
BY Assumption DEF Assumption, Inv, TypeOK, JobTypes

LEMMA EnqueueKeeps ==
  ASSUME Inv, NEW j \in Job, Enqueue(j)
  PROVE  Kept'
<1> USE DEF results, history, network
<1>1. JobTypes'
  BY Facts DEF Enqueue, JobTypes, Goto, Step, Written, Lost
<1>2. OthersStay(j)
  BY Facts DEF Enqueue, OthersStay, JobTypes, Goto, Written, Lost
<1>3. JobInv(j)'
  <2>1. /\ status'[j] = "pending" /\ pc[j] = "absent"
        /\ UNCHANGED <<attempts, attempt, calling, dbAnchored, dbMinted, certified, run,
                       anchored, late>>
        /\ \/ pc'[j] = "read" /\ interrupted' = interrupted
           \/ pc'[j] = "rest" /\ j \in interrupted'
    BY Facts DEF Enqueue, JobTypes, Goto, Written, Lost
  <2>2. attempts[j] = 0 /\ run[j] = 0 /\ j \notin calling
    BY <2>1, Facts, StepNames DEF JobInv, Counts, Calls
  <2>3. Counts(j)' /\ Calls(j)' /\ LateOnce(j)'
    BY <2>1, <2>2, Facts, StepNames DEF JobInv, Counts, Calls, LateOnce, MintAhead
  <2>4. j \notin interrupted' => Faithful(j)'
    BY <2>1, <2>2, StepNames DEF Faithful, MarkedAnchored, MarkedMinted, Certified
  <2>5. QED
    BY <2>3, <2>4 DEF JobInv
<1>4. QED
  BY <1>1, <1>2, <1>3, OneJob

LEMMA ReadKeeps ==
  ASSUME Inv, NEW j \in Job, Read(j)
  PROVE  Kept'
<1> USE DEF results, history, row, network
<1>0. attempts[j] < MAX_ATTEMPTS /\ pc[j] = "read"
  BY Facts DEF Read, JobInv, Counts
<1>1. JobTypes'
  BY <1>0, Facts DEF Read, JobTypes, Goto, Step, Written, Lost
<1>2. OthersStay(j)
  BY Facts DEF Read, OthersStay, JobTypes, Goto, Written, Lost
<1>3. JobInv(j)'
  <2>1. /\ UNCHANGED <<status, attempts, calling, dbAnchored, dbMinted, certified, run,
                       anchored, late>>
        /\ \/ /\ status[j] # "done" /\ attempt'[j] = attempts[j] + 1
              /\ pc'[j] = "start" /\ interrupted' = interrupted
           \/ /\ status[j] = "done" /\ pc'[j] = "rest" /\ interrupted' = interrupted
           \/ pc'[j] = "rest" /\ j \in interrupted'
    BY Facts DEF Read, JobTypes, Goto, Written, Lost
  <2>2. j \notin interrupted => status[j] # "done" /\ Faithful(j)
    BY <1>0, Facts DEF JobInv, Faithful
  <2>3. j \notin calling
    BY <1>0, Facts DEF JobInv, Calls, RpcStep
  <2>4. Counts(j)' /\ Calls(j)' /\ LateOnce(j)'
    BY <2>1, <2>3, Facts, StepNames DEF JobInv, Counts, Calls, LateOnce
  <2>5. j \notin interrupted' => Faithful(j)'
    BY <2>1, <2>2, StepNames DEF Faithful, MarkedAnchored, MarkedMinted, Certified
  <2>6. QED
    BY <2>4, <2>5 DEF JobInv
<1>4. QED
  BY <1>1, <1>2, <1>3, OneJob

LEMMA StartKeeps ==
  ASSUME Inv, NEW j \in Job, Start(j)
  PROVE  Kept'
<1> USE DEF results, row, network
<1>0. /\ pc[j] = "start" /\ attempt[j] = attempts[j] + 1
      /\ j \notin calling
  BY Facts DEF Start, JobInv, Counts, Calls, RpcStep
<1>1. /\ pc' = [pc EXCEPT ![j] = "anchor_account"]
      /\ run' = [run EXCEPT ![j] = IF run[j] < MaxRun THEN run[j] + 1 ELSE run[j]]
      /\ UNCHANGED <<attempt, calling, dbAnchored, dbMinted, certified, anchored, late>>
      /\ \/ /\ status' = [status EXCEPT ![j] = "running"]
            /\ attempts' = [attempts EXCEPT ![j] = attempt[j]]
            /\ interrupted' = interrupted
         \/ /\ interrupted' = interrupted \cup {j}
            /\ UNCHANGED <<status, attempts>>
  BY DEF Start, Goto, Written, Lost
<1>2. JobTypes'
  BY <1>1, Facts DEF JobTypes, Step, RpcStep
<1>3. OthersStay(j)
  BY <1>1, Facts DEF OthersStay, JobTypes
<1>4. JobInv(j)'
  <2>1. /\ pc'[j] = "anchor_account" /\ run'[j] > 0
        /\ run[j] < MaxRun => run'[j] = run[j] + 1
    BY <1>1, Facts DEF JobTypes
  <2>2. \/ status'[j] = "running" /\ attempts'[j] = attempt[j] /\ interrupted' = interrupted
        \/ j \in interrupted' /\ attempts'[j] = attempts[j]
    BY <1>1, Facts DEF JobTypes
  <2>3. Counts(j)' /\ Calls(j)'
    BY <1>0, <1>1, <2>1, <2>2, Facts DEF Counts, Calls, RpcStep
  <2>4. LateOnce(j)'
    BY <1>1, <2>1, Facts DEF JobInv, LateOnce, MintAhead
  <2>5. j \notin interrupted' => Faithful(j)'
    BY <1>0, <1>1, <2>1, <2>2, Facts
    DEF JobInv, Faithful, MarkedAnchored, MarkedMinted, Certified
  <2>6. QED
    BY <2>3, <2>4, <2>5 DEF JobInv
<1>5. QED
  BY <1>2, <1>3, <1>4, OneJob

(* Nothing counted: the mint of the job is no nearer than it was.          *)
LEMMA LateStays ==
  ASSUME Inv, NEW j \in Job, UNCHANGED late, anchored \subseteq anchored',
         pc'[j] \in MintAhead => pc[j] \in MintAhead \/ j \notin anchored
  PROVE  /\ late' \in [Job -> 0..Many] /\ \A i \in Job : late'[i] = late[i]
         /\ LateOnce(j)'
BY Facts DEF JobTypes, JobInv, LateOnce

(* A run goes on to its next await: what is said of the next one is so.    *)
LEMMA RunGoesOn ==
  ASSUME Inv, NEW j \in Job, NEW next \in Running,
         pc[j] \in Running, pc' = [pc EXCEPT ![j] = next],
         UNCHANGED <<status, attempts, attempt, run, anchored>>,
         late' \in [Job -> 0..Many], \A i \in Job \ {j} : late'[i] = late[i], LateOnce(j)',
         calling' \subseteq calling \cup {j}, j \in calling' => next \in RpcStep,
         dbAnchored' \in SUBSET Job, dbAnchored \subseteq dbAnchored',
         dbMinted' \in SUBSET Job, dbMinted \subseteq dbMinted',
         certified' \in SUBSET Job, certified \subseteq certified',
         interrupted' \in SUBSET Job, interrupted \subseteq interrupted',
         next \in MarkedAnchored => pc[j] \in MarkedAnchored \/ j \in dbAnchored' \cup interrupted',
         next \in MarkedMinted => pc[j] \in MarkedMinted \/ j \in dbMinted' \cup interrupted',
         next \in Certified => \/ pc[j] \in Certified \/ j \in interrupted'
                               \/ j \in certified'
  PROVE  Kept'
<1>1. JobTypes'
  BY Facts, StepNames DEF JobTypes
<1>2. OthersStay(j)
  BY Facts DEF OthersStay, JobTypes
<1>3. pc'[j] = next /\ JobInv(j)
  BY Facts DEF JobTypes
<1>4. Counts(j)' /\ Calls(j)'
  BY <1>3, StepNames DEF JobInv, Counts, Calls
<1>5. j \notin interrupted' => Faithful(j)'
  BY <1>3, StepNames DEF JobInv, Faithful
<1>6. QED
  BY <1>1, <1>2, <1>4, <1>5, OneJob DEF JobInv

(* A run fails.                                                            *)
LEMMA RunFails ==
  ASSUME Inv, NEW j \in Job,
         pc[j] \in Running, pc' = [pc EXCEPT ![j] = AfterFailure(j)],
         UNCHANGED <<status, attempts, attempt, run, anchored, dbAnchored, dbMinted, certified,
                     interrupted>>,
         late' \in [Job -> 0..Many], \A i \in Job \ {j} : late'[i] = late[i], LateOnce(j)',
         calling' \subseteq calling, j \notin calling'
  PROVE  Kept'
<1>1. /\ JobInv(j) /\ attempts[j] <= attempt[j]
      /\ attempts[j] \in 0..MAX_ATTEMPTS /\ attempt[j] \in 0..MAX_ATTEMPTS
      /\ MAX_ATTEMPTS \in Nat
  BY Facts DEF JobInv, Counts
<1>2. /\ pc'[j] = AfterFailure(j)
      /\ \/ AfterFailure(j) = "back_off" /\ attempt[j] < MAX_ATTEMPTS
         \/ AfterFailure(j) = "give_up" /\ attempt[j] = MAX_ATTEMPTS
  BY <1>1, Facts DEF JobTypes, AfterFailure
<1>3. JobTypes'
  BY <1>2, Facts, StepNames DEF JobTypes
<1>4. OthersStay(j)
  BY Facts DEF OthersStay, JobTypes
<1>5. Counts(j)' /\ Calls(j)'
  BY <1>1, <1>2, StepNames DEF JobInv, Counts, Calls
<1>6. j \notin interrupted' => Faithful(j)'
  BY <1>1, <1>2, StepNames DEF JobInv, Faithful, MarkedAnchored, MarkedMinted, Certified
<1>7. QED
  BY <1>3, <1>4, <1>5, <1>6, OneJob DEF JobInv

LEMMA CallKeeps ==
  ASSUME Inv, NEW j \in Job, Call(j)
  PROVE  Kept'
<1> USE DEF results, history, row, network
<1>1. /\ pc[j] \in RpcStep /\ pc[j] \in Running /\ j \notin calling
      /\ UNCHANGED <<status, attempts, attempt, run, late, anchored, dbAnchored, dbMinted,
                     certified, interrupted>>
  BY StepNames DEF Call
<1>2. CASE calling' = calling \cup {j} /\ UNCHANGED pc
  <2>1. pc' = [pc EXCEPT ![j] = pc[j]]
    BY <1>2, Facts DEF JobTypes
  <2>2. /\ dbAnchored \in SUBSET Job /\ dbMinted \in SUBSET Job
        /\ certified \in SUBSET Job /\ interrupted \in SUBSET Job
    BY Facts DEF JobTypes
  <2>3. /\ late' \in [Job -> 0..Many] /\ \A i \in Job \ {j} : late'[i] = late[i]
        /\ LateOnce(j)'
    BY <1>1, <1>2, LateStays
  <2>4. QED
    BY <1>1, <1>2, <2>1, <2>2, <2>3, RunGoesOn
<1>3. CASE Goto(j, AfterFailure(j)) /\ UNCHANGED calling
  <2>1. pc'[j] = AfterFailure(j) /\ AfterFailure(j) \notin MintAhead
    BY <1>3, Facts DEF Goto, JobTypes, AfterFailure, MintAhead
  <2>2. /\ late' \in [Job -> 0..Many] /\ \A i \in Job \ {j} : late'[i] = late[i]
        /\ LateOnce(j)'
    BY <1>1, <2>1, LateStays
  <2>3. QED
    BY <1>1, <1>3, <2>2, RunFails DEF Goto
<1>4. QED
  BY <1>2, <1>3 DEF Call, Rejected

(* What a set of calls in flight hands over, and the late mints among it.  *)
LEMMA HandedOverType ==
  ASSUME Inv, NEW j \in calling
  PROVE  /\ HandedOver(j) \subseteq Tx
         /\ \A t \in HandedOver(j) :
              t.job = j /\ (t.kind = "mint" => pc[j] = "mint_send")
<1>1. j \in Job
  BY DEF Inv, TypeOK
<1>2. CASE pc[j] = "anchor_send"
  BY <1>1, <1>2 DEF HandedOver, Tx
<1>3. CASE pc[j] = "mint_send"
  BY <1>1, <1>3 DEF HandedOver, Tx
<1>4. CASE pc[j] \notin {"anchor_send", "mint_send"}
  BY <1>4 DEF HandedOver
<1>5. QED
  BY <1>2, <1>3, <1>4

LEMMA LateCounted ==
  ASSUME Inv, NEW calls \in SUBSET calling,
         NEW sent \in SUBSET UNION {HandedOver(j) : j \in calls}, CountLate(sent)
  PROVE  /\ late' \in [Job -> 0..Many]
         /\ \A j \in Job :
              \/ late'[j] = late[j]
              \/ j \in calls /\ pc[j] = "mint_send" /\ j \in anchored /\ late'[j] = late[j] + 1
<1>1. late \in [Job -> 0..Many] /\ Many = 2
  BY DEF Inv, TypeOK, Many
<1>2. late' \in [Job -> 0..Many]
  BY <1>1 DEF CountLate
<1>3. ASSUME NEW j \in Job, late'[j] # late[j]
      PROVE  /\ late'[j] = late[j] + 1 /\ j \in anchored
             /\ \E t \in sent : t.kind = "mint" /\ t.job = j
  BY <1>3 DEF CountLate
<1>4. \A t \in sent : t.kind = "mint" => t.job \in calls /\ pc[t.job] = "mint_send"
  BY HandedOverType
<1>5. QED
  BY <1>2, <1>3, <1>4

(* After it every such job has left the steps ahead of its mint.           *)
LEMMA LateStaysOnce ==
  ASSUME Inv, NEW calls \in SUBSET calling,
         NEW sent \in SUBSET UNION {HandedOver(j) : j \in calls}, CountLate(sent),
         UNCHANGED anchored, NEW j \in Job,
         j \in calls /\ pc[j] = "mint_send" => pc'[j] \notin MintAhead,
         pc'[j] \in MintAhead => pc[j] \in MintAhead \/ j \notin anchored
  PROVE  LateOnce(j)'
<1>1. LateOnce(j) /\ late[j] \in 0..Many
  BY Facts DEF JobInv
<1>2. CASE late'[j] = late[j]
  BY <1>1, <1>2 DEF LateOnce
<1>3. CASE j \in calls /\ pc[j] = "mint_send" /\ j \in anchored /\ late'[j] = late[j] + 1
  <2>1. late[j] = 0
    BY <1>1, <1>3 DEF LateOnce, MintAhead, Many
  <2>2. QED
    BY <1>3, <2>1 DEF LateOnce
<1>4. QED
  BY <1>2, <1>3, LateCounted

LEMMA AnswerKeeps ==
  ASSUME Inv, NEW j \in Job, Answer(j)
  PROVE  Kept'
<1> USE DEF results, row
<1>1. /\ pc[j] \in RpcStep /\ pc[j] \in Running
      /\ j \in calling /\ calling' = calling \ {j}
      /\ UNCHANGED <<status, attempts, attempt, run, anchored, dbAnchored, dbMinted, certified,
                     interrupted>>
  BY Facts, StepNames DEF Answer, JobInv, Calls
<1>2. PICK sent \in SUBSET HandedOver(j) : CountLate(sent)
  BY DEF Answer
<1>3. {j} \in SUBSET calling /\ sent \in SUBSET UNION {HandedOver(i) : i \in {j}}
  BY <1>1, <1>2
<1>4. late' \in [Job -> 0..Many] /\ \A i \in Job \ {j} : late'[i] = late[i]
  BY <1>2, <1>3, LateCounted
<1>5. CASE Simulates(j) /\ Goto(j, Following[pc[j]])
  <2>1. /\ Following[pc[j]] \in Running
        /\ Following[pc[j]] \in MarkedAnchored => pc[j] \in MarkedAnchored
        /\ Following[pc[j]] \notin MarkedMinted
    BY <1>1, <1>5, FollowingSteps
    DEF RpcStep, MarkedAnchored, MarkedMinted, Certified
  <2>2. Following[pc[j]] \notin Certified
    BY <2>1 DEF MarkedMinted
  <2>3. /\ dbAnchored \in SUBSET Job /\ dbMinted \in SUBSET Job
        /\ certified \in SUBSET Job /\ interrupted \in SUBSET Job
    BY Facts DEF JobTypes
  <2>4. pc'[j] = Following[pc[j]]
    BY <1>5, Facts DEF Goto, JobTypes
  <2>5. /\ pc[j] = "mint_send" => pc'[j] \notin MintAhead
        /\ pc'[j] \in MintAhead => pc[j] \in MintAhead \/ j \notin anchored
    BY <1>1, <1>5, <2>4, FollowingSteps DEF Simulates, RpcStep, MintAhead
  <2>6. LateOnce(j)'
    BY <1>1, <1>2, <1>3, <2>5, LateStaysOnce
  <2>7. QED
    BY <1>1, <1>4, <1>5, <2>1, <2>2, <2>3, <2>6, RunGoesOn DEF Goto
<1>6. CASE Goto(j, AfterFailure(j))
  <2>1. pc'[j] = AfterFailure(j) /\ AfterFailure(j) \notin MintAhead
    BY <1>6, Facts DEF Goto, JobTypes, AfterFailure, MintAhead
  <2>2. LateOnce(j)'
    BY <1>1, <1>2, <1>3, <2>1, LateStaysOnce
  <2>3. QED
    BY <1>1, <1>4, <1>6, <2>2, RunFails DEF Goto
<1>7. QED
  BY <1>5, <1>6 DEF Answer

LEMMA WritesKeep ==
  ASSUME Inv, NEW j \in Job, MarkAnchored(j) \/ MarkMinted(j) \/ Certify(j) \/ Invalidate(j)
  PROVE  Kept'
<1> USE DEF results, history, row, network
<1>1. /\ pc[j] \in Running /\ j \notin calling
      /\ UNCHANGED <<status, attempts, attempt, run, anchored, late, calling>>
      /\ dbAnchored \in SUBSET Job /\ dbMinted \in SUBSET Job
      /\ certified \in SUBSET Job /\ interrupted \in SUBSET Job
  BY Facts DEF MarkAnchored, MarkMinted, Certify, Invalidate, JobInv, Calls, JobTypes, Running,
     RpcStep
<1>2. pc'[j] \in MintAhead => pc[j] \in MintAhead
  BY Facts DEF MarkAnchored, MarkMinted, Certify, Invalidate, Goto, JobTypes, AfterFailure,
     MintAhead
<1>3. /\ late' \in [Job -> 0..Many] /\ \A i \in Job \ {j} : late'[i] = late[i]
      /\ LateOnce(j)'
  BY <1>1, <1>2, LateStays
<1>4. CASE MarkAnchored(j)
  <2>1. /\ pc' = [pc EXCEPT ![j] = "mint_account"]
        /\ UNCHANGED <<dbMinted, certified>>
        /\ j \in dbAnchored' \cup interrupted'
        /\ dbAnchored \subseteq dbAnchored' /\ dbAnchored' \subseteq dbAnchored \cup {j}
        /\ interrupted \subseteq interrupted' /\ interrupted' \subseteq interrupted \cup {j}
    BY <1>4 DEF MarkAnchored, Goto, Written, Lost
  <2>2. /\ "mint_account" \in Running
        /\ "mint_account" \notin MarkedMinted /\ "mint_account" \notin Certified
    BY DEF Running, RpcStep, MarkedMinted, Certified
  <2>3. QED
    BY <1>1, <1>3, <2>1, <2>2, RunGoesOn
<1>5. CASE MarkMinted(j)
  <2>1. /\ pc[j] \in MarkedAnchored /\ pc' = [pc EXCEPT ![j] = "certify"]
        /\ UNCHANGED <<dbAnchored, certified>>
        /\ j \in dbMinted' \cup interrupted'
        /\ dbMinted \subseteq dbMinted' /\ dbMinted' \subseteq dbMinted \cup {j}
        /\ interrupted \subseteq interrupted' /\ interrupted' \subseteq interrupted \cup {j}
    BY <1>5 DEF MarkMinted, Goto, Written, Lost, MarkedAnchored
  <2>2. "certify" \in Running /\ "certify" \notin Certified
    BY DEF Running, Certified
  <2>3. QED
    BY <1>1, <1>3, <2>1, <2>2, RunGoesOn
<1>6. CASE Certify(j)
  <2>1. pc[j] \in MarkedAnchored \cap MarkedMinted
    BY <1>6 DEF Certify, MarkedAnchored, MarkedMinted
  <2>2. PICK next \in Certified : pc' = [pc EXCEPT ![j] = next]
    BY <1>6 DEF Certify, Goto, Certified
  <2>3. /\ UNCHANGED <<dbAnchored, dbMinted>>
        /\ \/ certified' = certified \cup {j} /\ interrupted' = interrupted
           \/ certified' = certified /\ interrupted' = interrupted \cup {j}
    BY <1>6 DEF Certify, Written, Lost
  <2>4. next \in Running \ RpcStep
    BY <2>2 DEF Running, Certified, RpcStep
  <2>5. QED
    BY <1>1, <1>3, <2>1, <2>2, <2>3, <2>4, RunGoesOn
<1>7. CASE Invalidate(j)
  <2>1. UNCHANGED <<dbAnchored, dbMinted, certified, interrupted>> /\ pc[j] = "invalidate"
    BY <1>7 DEF Invalidate
  <2>2. CASE Goto(j, "finish")
    <3>1. /\ pc[j] \in MarkedAnchored \cap MarkedMinted \cap Certified
          /\ "finish" \in Running /\ pc' = [pc EXCEPT ![j] = "finish"]
      BY <2>1, <2>2 DEF Goto, Running, MarkedAnchored, MarkedMinted, Certified
    <3>2. QED
      BY <1>1, <1>3, <2>1, <3>1, RunGoesOn
  <2>3. CASE Goto(j, AfterFailure(j))
    BY <1>1, <1>3, <2>1, <2>3, RunFails DEF Goto
  <2>4. QED
    BY <1>7, <2>2, <2>3 DEF Invalidate
<1>8. QED
  BY <1>4, <1>5, <1>6, <1>7

(* The steps after a run: its last write, and the timer of the next run.   *)
LEMMA BetweenRunsKeep ==
  ASSUME Inv, NEW j \in Job, Finish(j) \/ BackOff(j) \/ Timer(j) \/ GiveUp(j)
  PROVE  Kept'
<1> USE DEF results, history, row, network
<1>1. /\ JobInv(j) /\ j \notin calling
      /\ UNCHANGED <<attempts, attempt, calling, dbAnchored, dbMinted, certified, run,
                     anchored, late>>
      /\ interrupted' \in {interrupted, interrupted \cup {j}}
  BY Facts DEF Finish, BackOff, Timer, GiveUp, SetStatus, Written, Lost, JobInv, Calls, RpcStep
<1>2. /\ status' \in [Job -> {"absent", "pending", "running", "done", "failed"}]
      /\ \A i \in Job \ {j} : status'[i] = status[i]
      /\ j \notin interrupted' =>
           /\ Finish(j) => status'[j] = "done"
           /\ GiveUp(j) => status'[j] = "failed"
           /\ BackOff(j) => status'[j] = "pending"
           /\ Timer(j) => status'[j] = status[j]
  BY Facts DEF Finish, BackOff, Timer, GiveUp, SetStatus, Written, Lost, JobTypes
<1>3. /\ pc' \in [Job -> Step \cup {"absent", "rest"}]
      /\ \A i \in Job \ {j} : pc'[i] = pc[i]
      /\ pc'[j] = IF Finish(j) \/ GiveUp(j) THEN "rest"
                  ELSE IF BackOff(j) THEN "timer" ELSE "read"
  BY Facts DEF Finish, BackOff, Timer, GiveUp, Goto, JobTypes, Step
<1>4. JobTypes' /\ OthersStay(j)
  BY <1>1, <1>2, <1>3, Facts DEF JobTypes, OthersStay
<1>5. CASE Finish(j)
  <2>1. pc[j] = "finish" /\ pc'[j] = "rest"
    BY <1>3, <1>5 DEF Finish
  <2>2. j \notin interrupted' => Faithful(j) /\ status'[j] = "done"
    BY <1>1, <1>2, <1>5 DEF JobInv
  <2>3. j \notin interrupted' => Faithful(j)'
    BY <1>1, <2>1, <2>2, StepNames
    DEF Faithful, Settled, MarkedAnchored, MarkedMinted, Certified
  <2>4. Counts(j)' /\ Calls(j)' /\ LateOnce(j)'
    BY <1>1, <2>1, StepNames DEF JobInv, Counts, Calls, LateOnce
  <2>5. QED
    BY <1>4, <2>3, <2>4, OneJob DEF JobInv
<1>6. CASE GiveUp(j)
  <2>1. pc[j] = "give_up" /\ pc'[j] = "rest"
    BY <1>3, <1>6 DEF GiveUp
  <2>2. j \notin interrupted' => Faithful(j) /\ status'[j] = "failed"
    BY <1>1, <1>2, <1>6 DEF JobInv
  <2>3. j \notin interrupted' => Faithful(j)'
    BY <1>1, <2>1, <2>2, StepNames
    DEF Faithful, Settled, MarkedAnchored, MarkedMinted, Certified
  <2>4. Counts(j)' /\ Calls(j)' /\ LateOnce(j)'
    BY <1>1, <2>1, StepNames DEF JobInv, Counts, Calls, LateOnce
  <2>5. QED
    BY <1>4, <2>3, <2>4, OneJob DEF JobInv
<1>7. CASE BackOff(j) \/ Timer(j)
  <2>1. pc[j] \in {"back_off", "timer"} /\ ~Finish(j) /\ ~GiveUp(j)
    BY <1>7 DEF BackOff, Timer, Finish, GiveUp
  <2>2. pc'[j] \in {"timer", "read"} /\ attempts[j] < MAX_ATTEMPTS
    BY <1>1, <1>3, <2>1 DEF JobInv, Counts
  <2>3. j \notin interrupted' => Faithful(j) /\ status'[j] # "done"
    <3>1. j \notin interrupted' => Faithful(j) /\ status[j] # "done"
      BY <1>1, <2>1 DEF JobInv, Faithful
    <3>2. QED
      BY <1>2, <1>7, <3>1
  <2>4. j \notin interrupted' => Faithful(j)'
    BY <1>1, <2>2, <2>3, StepNames DEF Faithful, MarkedAnchored, MarkedMinted, Certified
  <2>5. Counts(j)' /\ Calls(j)' /\ LateOnce(j)'
    BY <1>1, <2>2, StepNames DEF JobInv, Counts, Calls, LateOnce
  <2>6. QED
    BY <1>4, <2>4, <2>5, OneJob DEF JobInv
<1>8. QED
  BY <1>5, <1>6, <1>7

LEMMA CrashKeeps ==
  ASSUME Inv, Crash
  PROVE  Kept'
<1> USE DEF results, row
<1>1. PICK sent \in SUBSET UNION {HandedOver(j) : j \in calling} : CountLate(sent)
  BY DEF Crash
<1>2. late' \in [Job -> 0..Many] /\ calling \in SUBSET calling
  BY <1>1, LateCounted
<1>3. JobTypes'
  BY <1>2 DEF Inv, TypeOK, Crash, JobTypes
<1>4. ASSUME NEW j \in Job PROVE JobInv(j)'
  <2>1. /\ JobInv(j) /\ j \notin calling'
        /\ UNCHANGED <<status, attempts, attempt, dbAnchored, dbMinted, certified, run, anchored>>
        /\ \/ pc[j] \in Step /\ pc'[j] = "rest" /\ j \in interrupted'
           \/ pc[j] \notin Step /\ pc'[j] = pc[j] /\ (j \in interrupted' <=> j \in interrupted)
    BY Facts DEF Crash
  <2>2. Counts(j)' /\ Calls(j)'
    BY <2>1, StepNames DEF JobInv, Counts, Calls
  <2>3. pc'[j] \notin MintAhead
    BY <2>1, StepNames
  <2>4. LateOnce(j)'
    BY <1>1, <1>2, <2>1, <2>3, LateStaysOnce
  <2>5. j \notin interrupted' => Faithful(j)'
    BY <2>1 DEF JobInv, Faithful, Settled
  <2>6. QED
    BY <2>2, <2>4, <2>5 DEF JobInv
<1>5. QED
  BY <1>3, <1>4 DEF Kept

jobVars == <<row, pc, attempt, calling, results, history, interrupted>>

LEMMA ElsewhereKeeps ==
  ASSUME Inv, UNCHANGED jobVars, anchored' \in SUBSET Job, anchored \subseteq anchored'
  PROVE  Kept'
<1> USE DEF jobVars, results, history, row
<1>1. JobTypes'
  BY DEF Inv, TypeOK, JobTypes
<1>2. ASSUME NEW j \in Job PROVE JobInv(j)'
  BY DEF Inv, JobInv, Counts, Calls, LateOnce, Faithful, Settled
<1>3. QED
  BY <1>1, <1>2 DEF Kept

(* The network.                                                            *)
LEMMA NextNetwork ==
  ASSUME Inv, [Next]_vars
  PROVE  /\ pool' \in SUBSET Tx
         /\ anchored' \in SUBSET Job /\ anchored \subseteq anchored'
<1> USE DEF network
<1>0. pool \in SUBSET Tx /\ anchored \in SUBSET Job
  BY DEF Inv, TypeOK
<1>1. ASSUME NEW j \in Job, Answer(j)
      PROVE  pool' \in SUBSET Tx /\ UNCHANGED anchored
  <2>1. j \in calling /\ pool' \subseteq pool \cup HandedOver(j)
    BY <1>1 DEF Answer
  <2>2. QED
    BY <1>0, <1>1, <2>1, HandedOverType DEF Answer
<1>2. ASSUME Crash
      PROVE  pool' \in SUBSET Tx /\ UNCHANGED anchored
  <2>1. \A t \in pool' \ pool : \E j \in calling : t \in HandedOver(j)
    BY <1>2 DEF Crash
  <2>2. QED
    BY <1>0, <1>2, <2>1, HandedOverType DEF Crash
<1>3. ASSUME NEW t \in pool, Apply(t)
      PROVE  /\ pool' \subseteq pool
             /\ anchored' \in SUBSET Job /\ anchored \subseteq anchored'
  <2>1. t.job \in Job
    BY <1>0 DEF Tx
  <2>2. QED
    BY <1>0, <1>3, <2>1 DEF Apply
<1>4. ASSUME \/ \E j \in Job : \/ Enqueue(j) \/ Read(j) \/ Start(j) \/ Call(j)
                               \/ MarkAnchored(j) \/ MarkMinted(j) \/ Certify(j)
                               \/ Invalidate(j) \/ Finish(j) \/ BackOff(j) \/ Timer(j)
                               \/ GiveUp(j)
             \/ OtherCall \/ OtherAnswer \/ ResetElapsed \/ UNCHANGED vars
      PROVE  UNCHANGED <<pool, anchored>>
  BY <1>4 DEF Enqueue, Read, Start, Call, MarkAnchored, MarkMinted, Certify, Invalidate, Finish,
     BackOff, Timer, GiveUp, OtherCall, OtherAnswer, ResetElapsed, vars
<1>5. QED
  BY <1>0, <1>1, <1>2, <1>3, <1>4 DEF Next, Process

LEMMA NextKeeps ==
  ASSUME Inv, [Next]_vars
  PROVE  Kept'
<1>1. ASSUME OtherCall \/ OtherAnswer \/ ResetElapsed \/ UNCHANGED vars \/ \E t \in pool : Apply(t)
      PROVE  UNCHANGED jobVars
  BY <1>1 DEF OtherCall, OtherAnswer, ResetElapsed, Apply, vars, jobVars, row, results, history
<1>2. ASSUME NEW j \in Job, Process(j) PROVE Kept'
  BY <1>2, ReadKeeps, StartKeeps, CallKeeps, AnswerKeeps, WritesKeep, BetweenRunsKeep DEF Process
<1>3. QED
  BY <1>1, <1>2, NextNetwork, ElsewhereKeeps, EnqueueKeeps, CrashKeeps DEF Next

LEMMA NextInv == Inv /\ [Next]_vars => Inv'
<1> SUFFICES ASSUME Inv, [Next]_vars PROVE Inv'
  OBVIOUS
<1>1. TypeOK'
  BY NextBreaker, NextKeeps, NextNetwork DEF TypeOK, Kept, JobTypes
<1>2. QED
  BY <1>1, NextBreaker, NextKeeps, NextNetwork DEF Inv, Kept

LEMMA SpecInv == Spec => []Inv
BY InitInv, NextInv, PTL DEF Spec

(* TypeOK holds of every reachable state: of the columns it says that a    *)
(* job is never tried more than MAX_ATTEMPTS times by their count.         *)
THEOREM TypeCorrect == Spec => []TypeOK
<1>1. Inv => TypeOK
  BY DEF Inv
<1>2. QED
  BY <1>1, SpecInv, PTL

(* Whatever the calls of jobs and of other requests do to it, and in what  *)
(* order, the breaker has a deadline exactly when it counted THRESHOLD     *)
(* timeouts since the last success.                                        *)
THEOREM BreakerAlwaysMatches == Spec => []BreakerMatchesCount
<1>1. Inv => BreakerMatchesCount
  BY DEF Inv
<1>2. QED
  BY <1>1, SpecInv, PTL

(* A job at rest that lost nothing is done and certified, or failed after  *)
(* MAX_ATTEMPTS runs.                                                      *)
THEOREM JobsRestSettled == Spec => []RestIsSettled
<1>1. Inv => RestIsSettled
  BY DEF Inv, JobInv, Faithful, Settled, RestIsSettled
<1>2. QED
  BY <1>1, SpecInv, PTL

(* However often a job is retried, and whatever answers and updates it     *)
(* loses: once the ledger holds its anchor, at most one mint of it is still *)
(* handed over.                                                            *)
THEOREM AnchoredMintsOnce == Spec => []OneMintOnceAnchored
<1>1. Inv => OneMintOnceAnchored
  BY DEF Inv, JobInv, LateOnce, OneMintOnceAnchored
<1>2. QED
  BY <1>1, SpecInv, PTL

==============================================================================
