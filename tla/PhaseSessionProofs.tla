------------------------- MODULE PhaseSessionProofs -------------------------
(***************************************************************************)
(* What the sessions of a run promise, for every set of agents, and then   *)
(* the client an executor has of its child, for any number of requests and *)
(* any traffic of the child.  The two share no state: the theorems of each *)
(* are of its own specification.                                           *)
(***************************************************************************)
EXTENDS PhaseSession, JsonlRpc, FiniteSetTheorems, SequenceTheorems, TLAPS

-----------------------------------------------------------------------------
(* The inductive invariant *)

AttemptStates ==
  {"starting", "running", "completed", "failed", "interrupted", "canceled"}

Runs ==
  [version : Nat, frozen : BOOLEAN, attempts : [Agents -> Seq(AttemptStates)]]

\* Where an executor is, and which of the queued operations it then waits for
Awaited ==
  [bind |-> "binding", drained |-> "drain", fail |-> "failed",
   admit |-> "admitting", finish |-> "finishing"]

Waiting == {"binding", "drain", "failed", "admitting", "finishing"}
Launching == {"start", "connect", "binding", "work", "drain", "stopping", "failed"}
Places ==
  Launching \cup Completing \cup {"idle", "again", "reread", "over"}

Errors == {"none", "rpc", "other"}
Tasks == [at : Places, saw : Nat, error : Errors]

Names == DOMAIN Awaited \cup {"exited", "activity", "settle"}

SessionTypeOK ==
  /\ stored \in Runs /\ lost \in BOOLEAN
  /\ queue \in Seq(Names \X Agents)
  /\ task \in [Agents -> Tasks]
  /\ launch \in [Agents -> {"none", "live", "canceled"}]
  /\ session \in [Agents -> BOOLEAN]
  /\ process \in [Agents -> {"none", "alive", "exited"}]
  /\ abort \in [at : {"no", "stopping", "waiting", "settling", "over"},
                bound : SUBSET Agents, launching : SUBSET Agents, failed : BOOLEAN]

\* An operation that an executor waits for is queued once, and while it is the
\* executor waits for it.
QueueOK ==
  /\ \A i \in 1..Len(queue) :
       queue[i][1] \in DOMAIN Awaited => task[queue[i][2]].at = Awaited[queue[i][1]]
  /\ \A i, j \in 1..Len(queue) :
       /\ queue[i][1] \in DOMAIN Awaited /\ queue[j][1] \in DOMAIN Awaited
       /\ queue[i][2] = queue[j][2]
       => i = j

\* Who may have a child, a launch and a session, and when.
AgentOK(a) ==
  /\ launch[a] # "none" <=> task[a].at \in Launching
  /\ task[a].at \in {"idle", "again", "start", "failed", "finishing"} => process[a] # "alive"
  /\ ~AbortCalled =>
       /\ process[a] = "alive" => launch[a] # "none" \/ session[a]
       /\ task[a].at \in {"work", "drain"} => session[a]
  /\ AbortCalled =>
       /\ ~session[a] /\ launch[a] # "live"
       /\ launch[a] # "none" => a \in abort.launching
       /\ process[a] = "alive" => abort.at = "stopping" /\ a \in Found
  /\ abort.at \in {"settling", "over"} => launch[a] = "none"

Settles(a) == \E i \in 1..Len(queue) : queue[i] = <<"settle", a>>

\* Whose attempt is settled, in a run that admits writes and with a helper that
\* answers.
SettledOK(a) ==
  ~stored.frozen /\ ~lost =>
    /\ task[a].at \in {"idle", "again", "start"} => ~IsActive(a)
    /\ AbortCalled /\ ~abort.failed /\ IsActive(a) =>
         /\ a \in abort.launching => launch[a] # "none"
         /\ abort.at = "settling" /\ a \in abort.bound \ abort.launching => Settles(a)
         /\ abort.at = "over" => a \notin Found

SessionInv ==
  /\ SessionTypeOK
  /\ QueueOK
  /\ \A a \in Agents : AgentOK(a) /\ SettledOK(a)

-----------------------------------------------------------------------------
(* The store: what a call may change *)

\* A step after which the run is as frozen, and no more agents are active.
Quiet ==
  /\ stored' \in Runs /\ lost' \in BOOLEAN
  /\ stored.frozen => stored'.frozen
  /\ lost => lost'
  /\ \A b \in Agents : IsActive(b)' => IsActive(b)

LEMMA ReadIsQuiet ==
  ASSUME SessionTypeOK, Read
  PROVE  Quiet /\ stored' = stored /\ lost' = lost
BY DEF SessionTypeOK, Read, Quiet, IsActive, Attempt

LEMMA UnreadIsQuiet ==
  ASSUME SessionTypeOK, Unread
  PROVE  Quiet /\ lost' = TRUE
BY DEF SessionTypeOK, Unread, Loses, Quiet, IsActive, Attempt

LEMMA CommitsAreRuns ==
  ASSUME stored \in Runs
  PROVE  /\ Committed \in Runs /\ Committed.frozen = stored.frozen
         /\ Committed.attempts = stored.attempts
BY DEF Runs, Committed

LEMMA CommitIsQuiet ==
  ASSUME SessionTypeOK, NEW allowed, NEW done, Call(allowed, Committed, done)
  PROVE  Quiet
<1>1. stored \in Runs /\ lost \in BOOLEAN
  BY DEF SessionTypeOK
<1>2. /\ Committed \in Runs /\ Committed.frozen = stored.frozen
      /\ Committed.attempts = stored.attempts
  BY <1>1, CommitsAreRuns
<1>3. stored' = stored \/ stored' = Committed
  BY DEF Call, Read, Loses
<1>4. lost' = lost \/ lost' = TRUE
  BY DEF Call, Read, Loses
<1>5. stored' \in Runs /\ stored'.frozen = stored.frozen /\ stored'.attempts = stored.attempts
  BY <1>1, <1>2, <1>3
<1> QED
  BY <1>1, <1>4, <1>5 DEF Quiet, IsActive, Attempt

\* What replaces the last attempt of an agent: only its own state changes.
LEMMA MovedAttempt ==
  ASSUME stored \in Runs, NEW a \in Agents, NEW to \in AttemptStates, IsActive(a),
         stored' = Moved(a, to)
  PROVE  /\ stored' \in Runs /\ stored'.frozen = stored.frozen
         /\ Attempt(a)' = to
         /\ \A b \in Agents \ {a} : IsActive(b)' <=> IsActive(b)
<1> DEFINE s == stored.attempts[a]
           t == Append(Front(s), to)
<1>1. /\ s \in Seq(AttemptStates) /\ stored.attempts \in [Agents -> Seq(AttemptStates)]
      /\ stored.version \in Nat /\ stored.frozen \in BOOLEAN
  BY DEF Runs
<1>2. s # <<>>
  BY DEF IsActive, Attempt
<1>3. Front(s) \in Seq(AttemptStates)
  BY <1>1, <1>2 DEF Front
<1>4. t \in Seq(AttemptStates) /\ t # <<>> /\ t[Len(t)] = to
  BY <1>3
<1>5. /\ Committed \in Runs /\ Committed.frozen = stored.frozen
      /\ Committed.attempts = stored.attempts
  BY CommitsAreRuns
<1>6. stored' = [Committed EXCEPT !.attempts = [stored.attempts EXCEPT ![a] = t]]
  BY <1>5 DEF Moved
<1> HIDE DEF t, s
<1>7. [stored.attempts EXCEPT ![a] = t] \in [Agents -> Seq(AttemptStates)]
  BY <1>1, <1>4
<1>8. stored' \in Runs /\ stored'.frozen = stored.frozen
      /\ stored'.attempts = [stored.attempts EXCEPT ![a] = t]
  BY <1>5, <1>6, <1>7 DEF Runs
<1>9. stored'.attempts[a] = t /\ \A b \in Agents \ {a} : stored'.attempts[b] = stored.attempts[b]
  BY <1>1, <1>8
<1>10. Attempt(a)' = to
  BY <1>4, <1>9 DEF Attempt, Last
<1>11. \A b \in Agents \ {a} : IsActive(b)' <=> IsActive(b)
  BY <1>9 DEF IsActive, Attempt
<1> QED
  BY <1>8, <1>10, <1>11

Inactive == AttemptStates \ {"starting", "running"}

\* An update settles, or leaves active, an attempt that was active.
LEMMA UpdateIsQuiet ==
  ASSUME SessionTypeOK, NEW a \in Agents, NEW version, NEW to \in Inactive \cup {"running"},
         NEW done \in BOOLEAN, UpdateAttempt(a, version, to, done)
  PROVE  /\ Quiet
         /\ done /\ to \in Inactive => ~IsActive(a)'
<1>1. stored \in Runs /\ lost \in BOOLEAN
  BY DEF SessionTypeOK
<1>2. ASSUME stored' = stored
      PROVE  Quiet
  <2>1. lost' = lost \/ lost' = TRUE
    BY DEF UpdateAttempt, Call, Read, Loses
  <2> QED
    BY <1>1, <1>2, <2>1 DEF Quiet, IsActive, Attempt
<1>3. ASSUME May(a, to), stored' = Moved(a, to)
      PROVE  Quiet /\ (to \in Inactive => ~IsActive(a)')
  <2>1. IsActive(a)
    BY <1>3 DEF May, IsActive
  <2>2. /\ stored' \in Runs /\ stored'.frozen = stored.frozen
        /\ Attempt(a)' = to
        /\ \A b \in Agents \ {a} : IsActive(b)' <=> IsActive(b)
    <3>1. to \in AttemptStates
      BY DEF Inactive, AttemptStates
    <3> QED
      BY <1>1, <1>3, <2>1, <3>1, MovedAttempt
  <2>3. lost' = lost \/ lost' = TRUE
    BY DEF UpdateAttempt, Call, Read, Loses
  <2>4. \A b \in Agents : IsActive(b)' => IsActive(b)
    BY <2>1, <2>2
  <2>5. to \in Inactive => ~IsActive(a)'
    BY <2>2 DEF IsActive, Inactive
  <2> QED
    BY <1>1, <2>2, <2>3, <2>4, <2>5 DEF Quiet
<1>4. (stored' = stored /\ ~done) \/ (May(a, to) /\ stored' = Moved(a, to))
  BY DEF UpdateAttempt, Call, Read, Loses
<1> QED
  BY <1>2, <1>3, <1>4

-----------------------------------------------------------------------------
(* The queue: what the operations of one agent do to it *)

\* Nothing that concerns the executors of other agents.
OnlyTask(a) == \A b \in Agents \ {a} : task'[b].at = task[b].at

\* No operation of a is waited for.
LEMMA NobodyWaits ==
  ASSUME SessionTypeOK, QueueOK, NEW a \in Agents, task[a].at \notin Waiting,
         NEW i \in 1..Len(queue), queue[i][1] \in DOMAIN Awaited
  PROVE  queue[i][2] # a
BY DEF SessionTypeOK, QueueOK, Awaited, Waiting

\* The queue stays, and a waited for none of its operations, or still does.
LEMMA QueueStays ==
  ASSUME SessionTypeOK, QueueOK, NEW a \in Agents, OnlyTask(a), queue' = queue,
         task[a].at \notin Waiting \/ task'[a].at = task[a].at
  PROVE  QueueOK' /\ \A b \in Agents : Settles(b)' <=> Settles(b)
<1>1. \A i \in 1..Len(queue) : queue'[i][1] \in DOMAIN Awaited <=> queue[i][1] \in DOMAIN Awaited
  OBVIOUS
<1>2. \A i \in 1..Len(queue) : queue[i][2] \in Agents
  BY DEF SessionTypeOK
<1>3. ASSUME NEW i \in 1..Len(queue), queue[i][1] \in DOMAIN Awaited
      PROVE  task'[queue[i][2]].at = Awaited[queue[i][1]]
  <2>1. task[queue[i][2]].at = Awaited[queue[i][1]]
    BY <1>3 DEF QueueOK
  <2>2. task[a].at \notin Waiting => queue[i][2] # a
    BY <1>3, NobodyWaits
  <2> QED
    BY <1>2, <2>1, <2>2 DEF OnlyTask
<1>4. QueueOK'
  BY <1>1, <1>3 DEF QueueOK
<1>5. \A b \in Agents : Settles(b)' <=> Settles(b)
  BY DEF Settles
<1> QED
  BY <1>4, <1>5

LEMMA Pair ==
  ASSUME NEW x, NEW y, NEW p, p = <<x, y>>
  PROVE  p[1] = x /\ p[2] = y
OBVIOUS

\* An operation of a is queued, which a waits for from now on if anybody does.
LEMMA QueueGrows ==
  ASSUME SessionTypeOK, QueueOK, NEW a \in Agents, NEW name, OnlyTask(a),
         queue' = Append(queue, <<name, a>>), name \in Names,
         task[a].at \notin Waiting \/ (task'[a].at = task[a].at /\ name \notin DOMAIN Awaited),
         name \in DOMAIN Awaited => task'[a].at = Awaited[name]
  PROVE  /\ QueueOK' /\ queue' \in Seq(Names \X Agents)
         /\ \A b \in Agents : Settles(b) => Settles(b)'
<1>0. PICK n \in Nat : n = Len(queue)
  BY DEF SessionTypeOK
<1>1. queue \in Seq(Names \X Agents) /\ n \in Nat
  BY <1>0 DEF SessionTypeOK
<1>2. queue' \in Seq(Names \X Agents) /\ Len(queue') = n + 1
  BY <1>0, <1>1
<1>3. queue'[n + 1] = <<name, a>> /\ \A i \in 1..n : queue'[i] = queue[i]
  BY <1>0, <1>1
<1>4. \A i \in 1..n : queue'[i][1] \in DOMAIN Awaited <=> queue[i][1] \in DOMAIN Awaited
  BY <1>3
<1>5. PICK m \in Nat : m = n + 1 /\ m \in 1..n + 1 /\ queue'[m] = <<name, a>>
  BY <1>0, <1>3
<1>13. queue'[m][1] = name /\ queue'[m][2] = a
  <2>1. PICK op : op = <<name, a>>
    OBVIOUS
  <2>2. op[1] = name /\ op[2] = a
    BY <2>1, Pair
  <2>3. queue'[m] = op
    BY <1>5, <2>1
  <2> QED
    BY <2>2, <2>3
<1>6. \A i \in 1..n : queue[i][2] \in Agents
  BY <1>0, <1>1
<1>7. ASSUME NEW i \in 1..n, queue[i][1] \in DOMAIN Awaited
      PROVE  task'[queue[i][2]].at = Awaited[queue[i][1]]
  <2>1. task[queue[i][2]].at = Awaited[queue[i][1]]
    BY <1>7, <1>0 DEF QueueOK
  <2>2. task[a].at \notin Waiting => queue[i][2] # a
    BY <1>7, <1>0, NobodyWaits
  <2> QED
    BY <1>6, <2>1, <2>2 DEF OnlyTask
<1>8. ASSUME NEW i \in 1..n + 1, queue'[i][1] \in DOMAIN Awaited
      PROVE  task'[queue'[i][2]].at = Awaited[queue'[i][1]]
  <2>1. CASE i = m
    BY <1>5, <1>13, <1>8, <2>1
  <2>2. CASE i # m
    <3>1. i \in 1..n
      BY <1>0, <1>5, <1>13, <2>2
    <3> QED
      BY <1>3, <1>4, <1>7, <1>8, <3>1
  <2> QED
    BY <2>1, <2>2
<1>9. ASSUME name \in DOMAIN Awaited, NEW i \in 1..n, queue[i][1] \in DOMAIN Awaited
      PROVE  queue[i][2] # a
  BY <1>9, <1>0, NobodyWaits
<1>10. ASSUME NEW i \in 1..n + 1, NEW j \in 1..n + 1,
              queue'[i][1] \in DOMAIN Awaited, queue'[j][1] \in DOMAIN Awaited,
              queue'[i][2] = queue'[j][2]
       PROVE  i = j
  <2>1. CASE i \in 1..n /\ j \in 1..n
    BY <1>3, <1>4, <1>10, <2>1, <1>0 DEF QueueOK
  <2>2. CASE i = m /\ j \in 1..n
    BY <1>3, <1>4, <1>5, <1>13, <1>9, <1>10, <2>2
  <2>3. CASE j = m /\ i \in 1..n
    BY <1>3, <1>4, <1>5, <1>13, <1>9, <1>10, <2>3
  <2> QED
    BY <1>0, <1>5, <1>13, <2>1, <2>2, <2>3
<1>11. QueueOK'
  BY <1>2, <1>8, <1>10 DEF QueueOK
<1>12. ASSUME NEW b \in Agents, Settles(b)
       PROVE  Settles(b)'
  <2>1. PICK i \in 1..n : queue[i] = <<"settle", b>>
    BY <1>12, <1>0 DEF Settles
  <2>2. i \in 1..Len(queue') /\ queue'[i] = <<"settle", b>>
    BY <1>1, <1>2, <1>3, <2>1
  <2> QED
    BY <2>2 DEF Settles
<1> QED
  BY <1>2, <1>11, <1>12

\* The operation at the head, one of a, has ended; a waits for nothing else.
LEMMA QueueShrinks ==
  ASSUME SessionTypeOK, QueueOK, NEW a \in Agents, NEW name, OnlyTask(a),
         queue # <<>>, Head(queue) = <<name, a>>, queue' = Tail(queue),
         name \in DOMAIN Awaited \/ task'[a].at = task[a].at
  PROVE  /\ QueueOK' /\ queue' \in Seq(Names \X Agents)
         /\ \A b \in Agents : (name = "settle" => b # a) /\ Settles(b) => Settles(b)'
<1>0. PICK n \in Nat : n = Len(queue)
  BY DEF SessionTypeOK
<1>1. queue \in Seq(Names \X Agents) /\ n \in Nat /\ n > 0
  BY <1>0 DEF SessionTypeOK
<1>2. queue' \in Seq(Names \X Agents) /\ Len(queue') = n - 1
  BY <1>0, <1>1
<1>3. \A i \in 1..n - 1 : queue'[i] = queue[i + 1]
  BY <1>0, <1>1
<1>4. ASSUME NEW i \in 1..n - 1
      PROVE  \E j \in 1..n : j = i + 1 /\ queue'[i] = queue[j]
  BY <1>0, <1>1, <1>3
<1>5. \A i \in 1..n : queue[i][2] \in Agents
  BY <1>0, <1>1
<1>6. queue[1] = <<name, a>> /\ 1 \in 1..n
  BY <1>0, <1>1
<1>7. queue[1][1] \in DOMAIN Awaited <=> name \in DOMAIN Awaited
  BY <1>6
<1>8. ASSUME NEW i \in 1..n - 1, queue'[i][1] \in DOMAIN Awaited
      PROVE  task'[queue'[i][2]].at = Awaited[queue'[i][1]]
  <2>1. PICK j \in 1..n : j = i + 1 /\ queue'[i] = queue[j]
    BY <1>4
  <2>2. j # 1
    BY <2>1
  <2>3. task[queue[j][2]].at = Awaited[queue[j][1]]
    BY <1>8, <2>1, <1>0 DEF QueueOK
  <2>4. name \in DOMAIN Awaited => queue[j][2] # a
    BY <1>6, <1>7, <1>8, <2>1, <2>2, <1>0 DEF QueueOK
  <2>5. task'[queue[j][2]].at = task[queue[j][2]].at
    <3>1. queue[j] = <<queue[j][1], queue[j][2]>>
      BY <1>0, <1>1
    <3>2. CASE queue[j][2] = a
      BY <1>8, <2>1, <2>4, <3>2
    <3>3. CASE queue[j][2] # a
      BY <1>5, <2>1, <3>3 DEF OnlyTask
    <3> QED
      BY <3>2, <3>3
  <2> QED
    BY <2>1, <2>3, <2>5
<1>9. ASSUME NEW i \in 1..n - 1, NEW j \in 1..n - 1,
             queue'[i][1] \in DOMAIN Awaited, queue'[j][1] \in DOMAIN Awaited,
             queue'[i][2] = queue'[j][2]
      PROVE  i = j
  <2>1. PICK k \in 1..n : k = i + 1 /\ queue'[i] = queue[k]
    BY <1>4
  <2>2. PICK l \in 1..n : l = j + 1 /\ queue'[j] = queue[l]
    BY <1>4
  <2>3. k = l
    BY <1>9, <2>1, <2>2, <1>0 DEF QueueOK
  <2> QED
    BY <2>1, <2>2, <2>3
<1>10. QueueOK'
  BY <1>2, <1>8, <1>9 DEF QueueOK
<1>11. ASSUME NEW b \in Agents, name = "settle" => b # a, Settles(b)
       PROVE  Settles(b)'
  <2>1. PICK i \in 1..n : queue[i] = <<"settle", b>>
    BY <1>11, <1>0 DEF Settles
  <2>2. i # 1
    BY <1>6, <1>11, <2>1
  <2>3. i - 1 \in 1..Len(queue') /\ queue'[i - 1] = <<"settle", b>>
    <3>1. i - 1 \in 1..n - 1 /\ (i - 1) + 1 = i
      BY <1>1, <2>1, <2>2
    <3> QED
      BY <1>2, <1>3, <2>1, <3>1
  <2> QED
    BY <2>3 DEF Settles
<1> QED
  BY <1>2, <1>10, <1>11

\* What an operation at the head says about its executor.
LEMMA HeadIsAwaited ==
  ASSUME SessionTypeOK, QueueOK, NEW a \in Agents, NEW name, NEW at, InTurn(name, a, at),
         name \in DOMAIN Awaited
  PROVE  task[a].at = Awaited[name]
<1>1. queue[1] = <<name, a>> /\ 1 \in 1..Len(queue)
  BY DEF InTurn, SessionTypeOK
<1> QED
  BY <1>1 DEF QueueOK

-----------------------------------------------------------------------------
(* A step of one agent *)

\* What a step of a leaves of the other agents.
Apart(a) ==
  /\ OnlyTask(a)
  /\ abort'.at = abort.at /\ abort'.bound = abort.bound /\ abort'.launching = abort.launching
  /\ abort.failed => abort'.failed
  /\ stored.frozen => stored'.frozen
  /\ lost => lost'
  /\ \A b \in Agents \ {a} :
       /\ launch'[b] = launch[b] /\ session'[b] = session[b] /\ process'[b] = process[b]
       /\ IsActive(b)' => IsActive(b)
       /\ Settles(b) => Settles(b)'

LEMMA OthersStay ==
  ASSUME SessionInv, NEW a \in Agents, Apart(a), SessionTypeOK', NEW b \in Agents \ {a}
  PROVE  AgentOK(b)' /\ SettledOK(b)'
<1>1. AgentOK(b) /\ SettledOK(b)
  BY DEF SessionInv
<1>2. AgentOK(b)'
  BY <1>1 DEF AgentOK, Apart, OnlyTask, AbortCalled, Found
<1>3. SettledOK(b)'
  <2>1. stored.frozen \in BOOLEAN /\ lost \in BOOLEAN /\ stored'.frozen \in BOOLEAN /\ lost' \in BOOLEAN
        /\ abort.failed \in BOOLEAN /\ abort'.failed \in BOOLEAN
    BY DEF SessionInv, SessionTypeOK, Runs
  <2> QED
    BY <1>1, <2>1, Zenon DEF SettledOK, Apart, OnlyTask, AbortCalled, Found
<1> QED
  BY <1>2, <1>3

LEMMA OneAgentMoves ==
  ASSUME SessionInv, NEW a \in Agents, Apart(a), SessionTypeOK', QueueOK', AgentOK(a)', SettledOK(a)'
  PROVE  SessionInv'
<1>1. \A b \in Agents : AgentOK(b)' /\ SettledOK(b)'
  BY OthersStay
<1> QED
  BY <1>1 DEF SessionInv

\* An executor goes on, and remembers what it needs.

LEMMA TaskGoesOn ==
  ASSUME SessionTypeOK, NEW a \in Agents, NEW r \in Tasks, task' = [task EXCEPT ![a] = r]
  PROVE  task' \in [Agents -> Tasks] /\ OnlyTask(a) /\ task'[a] = r
BY DEF SessionTypeOK, Tasks, OnlyTask

LEMMA TaskGoes ==
  ASSUME SessionTypeOK, NEW a \in Agents, NEW at \in Places, Goes(a, at)
  PROVE  task' \in [Agents -> Tasks] /\ OnlyTask(a) /\ task'[a].at = at
<1> DEFINE r == [task[a] EXCEPT !.at = at]
<1>1. task[a] \in Tasks /\ task \in [Agents -> Tasks]
  BY DEF SessionTypeOK
<1>2. r \in Tasks /\ r.at = at
  BY <1>1 DEF Tasks
<1>3. task' = [task EXCEPT ![a] = r]
  BY DEF Goes
<1> QED
  BY <1>2, <1>3, TaskGoesOn

LEMMA Remembers ==
  ASSUME NEW at \in Places, NEW saw \in Nat, NEW error \in Errors
  PROVE  /\ [at |-> at, saw |-> saw, error |-> error] \in Tasks
         /\ [at |-> at, saw |-> saw, error |-> error].at = at
<1> HIDE DEF Places
<1> QED
  BY DEF Tasks

LEMMA TaskRests ==
  ASSUME SessionTypeOK, NEW a \in Agents, NEW at \in Places, task' = [task EXCEPT ![a] = Rest(at)]
  PROVE  task' \in [Agents -> Tasks] /\ OnlyTask(a) /\ task'[a].at = at
<1>1. Rest(at) \in Tasks /\ Rest(at).at = at
  BY Remembers, "other" \in Errors DEF Rest, Errors
<1> QED
  BY <1>1, TaskGoesOn

LEMMA TaskIsOver ==
  ASSUME SessionTypeOK, NEW a \in Agents, Over(a)
  PROVE  task' \in [Agents -> Tasks] /\ OnlyTask(a) /\ task'[a].at = "over"
BY TaskRests, "over" \in Places DEF Over, Places

LEMMA TaskFails ==
  ASSUME SessionTypeOK, NEW a \in Agents, NEW error \in Errors, Fails(a, error)
  PROVE  /\ task' \in [Agents -> Tasks] /\ OnlyTask(a) /\ task'[a].at = "stopping"
         /\ session' = [session EXCEPT ![a] = FALSE]
<1>1. [at |-> "stopping", saw |-> 0, error |-> error] \in Tasks
  BY DEF Tasks, Places, Launching
<1> QED
  BY <1>1, TaskGoesOn DEF Fails

-----------------------------------------------------------------------------
(* The launch *)

LEMMA BeginKeeps ==
  ASSUME SessionInv, NEW a \in Agents, Begin(a)
  PROVE  SessionInv'
<1>1. /\ SessionTypeOK /\ QueueOK /\ AgentOK(a) /\ SettledOK(a)
      /\ abort \in [at : {"no", "stopping", "waiting", "settling", "over"},
                    bound : SUBSET Agents, launching : SUBSET Agents, failed : BOOLEAN]
  BY DEF SessionInv, SessionTypeOK
<1>2. Quiet /\ stored' = stored /\ lost' = lost
  BY <1>1, ReadIsQuiet DEF Begin
<1>3. /\ task' \in [Agents -> Tasks] /\ OnlyTask(a)
      /\ \/ task'[a].at = "over" /\ launch' = launch
         \/ task'[a].at = "start" /\ launch' = [launch EXCEPT ![a] = "live"] /\ ~AbortCalled
  <2>1. CASE AbortCalled \/ session[a]
    BY <1>1, <2>1, TaskIsOver DEF Begin
  <2>2. CASE ~(AbortCalled \/ session[a])
    <3>1. [at |-> "start", saw |-> stored.version, error |-> "other"] \in Tasks
      <4>1. stored.version \in Nat /\ "start" \in Places
        BY <1>1 DEF SessionTypeOK, Runs, Places, Launching
      <4>2. "other" \in Errors
        BY DEF Errors
      <4> QED
        BY <4>1, <4>2, Remembers
    <3> QED
      BY <1>1, <2>2, <3>1, TaskGoesOn DEF Begin
  <2> QED
    BY <2>1, <2>2
<1>4. SessionTypeOK'
  BY <1>1, <1>2, <1>3 DEF SessionTypeOK, Begin, Quiet
<1>5. QueueOK' /\ \A b \in Agents : Settles(b)' <=> Settles(b)
  BY <1>1, <1>3, QueueStays DEF Begin, Waiting
<1>6. Apart(a)
  BY <1>1, <1>2, <1>3, <1>5 DEF SessionTypeOK, Begin, Apart, Quiet
<1> HIDE DEF IsActive
<1>7. AgentOK(a)'
  BY <1>1, <1>3 DEF SessionTypeOK, Begin, AgentOK, AbortCalled, Found, Launching
<1>8. SettledOK(a)'
  BY <1>1, <1>2, <1>3, <1>5
     DEF SessionTypeOK, Begin, SettledOK, AgentOK, AbortCalled, Found, Launching, Quiet
<1> QED
  BY <1>4, <1>5, <1>6, <1>7, <1>8, OneAgentMoves

LEMMA StoreStays ==
  ASSUME SessionTypeOK, stored' = stored, lost' = lost
  PROVE  Quiet
BY DEF SessionTypeOK, Quiet, IsActive, Attempt

\* Only the store moves.
LEMMA OnlyTheStoreMoves ==
  ASSUME SessionInv, Quiet,
         queue' = queue, task' = task, launch' = launch, session' = session,
         process' = process, abort' = abort
  PROVE  SessionInv'
<1>1. SessionTypeOK /\ QueueOK
  BY DEF SessionInv
<1>2. SessionTypeOK'
  BY <1>1 DEF SessionTypeOK, Quiet
<1>3. ASSUME NEW a \in Agents
      PROVE  QueueOK' /\ AgentOK(a)' /\ SettledOK(a)'
  <2>1. AgentOK(a) /\ SettledOK(a)
    BY DEF SessionInv
  <2>2. OnlyTask(a)
    BY DEF OnlyTask
  <2>3. QueueOK' /\ \A b \in Agents : Settles(b)' <=> Settles(b)
    BY <1>1, <2>2, QueueStays
  <2>4. AgentOK(a)'
    BY <2>1 DEF AgentOK, AbortCalled, Found
  <2>5. SettledOK(a)'
    BY <2>1, <2>3 DEF SettledOK, AbortCalled, Found, Quiet
  <2> QED
    BY <2>3, <2>4, <2>5
<1>4. QueueOK'
  <2>1. CASE Agents = {}
    <3>1. Len(queue) = 0
      BY <1>1, <2>1 DEF SessionTypeOK
    <3> QED
      BY <3>1 DEF QueueOK
  <2>2. CASE Agents # {}
    BY <1>3, <2>2
  <2> QED
    BY <2>1, <2>2
<1> QED
  BY <1>2, <1>3, <1>4 DEF SessionInv

LEMMA CheckOwnerKeeps ==
  ASSUME SessionInv, NEW a \in Agents, CheckOwner(a)
  PROVE  SessionInv'
<1>1. SessionTypeOK /\ QueueOK /\ AgentOK(a) /\ SettledOK(a)
  BY DEF SessionInv
<1>2. Quiet /\ stored' = stored /\ lost' = lost
  BY <1>1, ReadIsQuiet DEF CheckOwner
<1>3. /\ task' \in [Agents -> Tasks] /\ OnlyTask(a) /\ task'[a].at = "over"
      /\ task[a].at = "start"
  BY <1>1, TaskIsOver DEF CheckOwner
<1>4. QueueOK' /\ \A b \in Agents : Settles(b) => Settles(b)'
  BY <1>1, <1>3, QueueStays DEF CheckOwner, Waiting
<1>5. SessionTypeOK'
  BY <1>1, <1>2, <1>3, <1>4 DEF CheckOwner, Quiet, SessionTypeOK
<1>6. Apart(a)
  BY <1>1, <1>2, <1>3, <1>4 DEF CheckOwner, Apart, Quiet, SessionTypeOK
<1>7. AgentOK(a)'
  BY <1>1, <1>3 DEF CheckOwner, AgentOK, AbortCalled, Found, Launching, SessionTypeOK
<1>8. SettledOK(a)'
  BY <1>1, <1>2, <1>3, <1>4
     DEF CheckOwner, SettledOK, AgentOK, AbortCalled, Found, Launching, Quiet,
         SessionTypeOK
<1> QED
  BY <1>4, <1>5, <1>6, <1>7, <1>8, OneAgentMoves

LEMMA ReadFailsKeeps ==
  ASSUME SessionInv, NEW a \in Agents, ReadFails(a)
  PROVE  SessionInv'
<1>1. SessionTypeOK /\ QueueOK /\ AgentOK(a) /\ SettledOK(a)
  BY DEF SessionInv
<1>2. Quiet /\ lost' = TRUE
  BY <1>1, UnreadIsQuiet DEF ReadFails
<1>3. /\ task' \in [Agents -> Tasks] /\ OnlyTask(a) /\ task'[a].at = "over"
      /\ task[a].at \in {"again", "start", "reread"}
  BY <1>1, TaskIsOver DEF ReadFails
<1>4. QueueOK' /\ \A b \in Agents : Settles(b) => Settles(b)'
  BY <1>1, <1>3, QueueStays DEF ReadFails, Waiting
<1>5. SessionTypeOK'
  BY <1>1, <1>2, <1>3, <1>4 DEF ReadFails, Quiet, SessionTypeOK
<1>6. Apart(a)
  BY <1>1, <1>2, <1>3, <1>4 DEF ReadFails, Apart, Quiet, SessionTypeOK
<1>7. AgentOK(a)'
  BY <1>1, <1>3 DEF ReadFails, AgentOK, AbortCalled, Found, Launching, SessionTypeOK
<1>8. SettledOK(a)'
  BY <1>1, <1>2, <1>3, <1>4
     DEF ReadFails, SettledOK, AgentOK, AbortCalled, Found, Launching, Quiet,
         SessionTypeOK
<1> QED
  BY <1>4, <1>5, <1>6, <1>7, <1>8, OneAgentMoves

LEMMA ConnectKeeps ==
  ASSUME SessionInv, NEW a \in Agents, Connect(a)
  PROVE  SessionInv'
<1>1. SessionTypeOK /\ QueueOK /\ AgentOK(a) /\ SettledOK(a)
  BY DEF SessionInv
<1>2. Quiet /\ stored' = stored /\ lost' = lost
  BY <1>1, StoreStays DEF Connect
<1>3. /\ task' \in [Agents -> Tasks] /\ OnlyTask(a) /\ task[a].at = "connect"
      /\ launch' = launch /\ process' = process /\ abort' = abort
      /\ \/ /\ task'[a].at = "binding" /\ session' = session
            /\ queue' = Append(queue, <<"bind", a>>)
         \/ /\ task'[a].at = "stopping" /\ session' = [session EXCEPT ![a] = FALSE]
            /\ queue' = queue
  <2>1. CASE Goes(a, "binding") /\ Enqueue("bind", a) /\ UNCHANGED <<session, binding>>
    BY <1>1, <2>1, TaskGoes, "binding" \in Places
       DEF Connect, Enqueue, Places, Launching
  <2>2. CASE (\E error \in {"rpc", "other"} : FailsOf(a, error)) /\ UNCHANGED <<queue, step>>
    BY <1>1, <2>2, TaskFails DEF Connect, FailsOf, Errors
  <2> QED
    BY <2>1, <2>2 DEF Connect
<1>4. /\ QueueOK' /\ queue' \in Seq(Names \X Agents)
      /\ \A b \in Agents : Settles(b) => Settles(b)'
  <2>1. CASE queue' = queue
    BY <1>1, <1>3, <2>1, QueueStays DEF Waiting, SessionTypeOK
  <2>2. CASE task'[a].at = "binding" /\ queue' = Append(queue, <<"bind", a>>)
    BY <1>1, <1>3, <2>2, QueueGrows DEF Waiting, Names, Awaited
  <2> QED
    BY <1>3, <2>1, <2>2
<1>5. SessionTypeOK'
  BY <1>1, <1>2, <1>3, <1>4 DEF Connect, Quiet, SessionTypeOK
<1>6. Apart(a)
  BY <1>1, <1>2, <1>3, <1>4 DEF Connect, Apart, Quiet, SessionTypeOK
<1>7. AgentOK(a)'
  BY <1>1, <1>3 DEF Connect, AgentOK, AbortCalled, Found, Launching, SessionTypeOK
<1>8. SettledOK(a)'
  BY <1>1, <1>2, <1>3, <1>4
     DEF Connect, SettledOK, AgentOK, AbortCalled, Found, Launching, Quiet,
         SessionTypeOK
<1> QED
  BY <1>4, <1>5, <1>6, <1>7, <1>8, OneAgentMoves

\* startAttempt: another attempt of a, which is active if it was begun.
LEMMA StartIsRecorded ==
  ASSUME SessionTypeOK, NEW a \in Agents, NEW done \in BOOLEAN,
         Call(Owned(task[a].saw) /\ ~IsActive(a),
              [Committed EXCEPT !.attempts[a] = Append(stored.attempts[a], "starting")], done)
  PROVE  /\ stored' \in Runs /\ lost' \in BOOLEAN
         /\ stored.frozen => stored'.frozen
         /\ lost => lost'
         /\ \A b \in Agents \ {a} : IsActive(b)' => IsActive(b)
         /\ ~done => lost' \/ (IsActive(a)' => IsActive(a))
<1> DEFINE t == Append(stored.attempts[a], "starting")
           after == [Committed EXCEPT !.attempts[a] = t]
<1>1. stored \in Runs /\ lost \in BOOLEAN
  BY DEF SessionTypeOK
<1>2. /\ Committed \in Runs /\ Committed.frozen = stored.frozen
      /\ Committed.attempts = stored.attempts
  BY <1>1, CommitsAreRuns
<1>3. t \in Seq(AttemptStates) /\ stored.attempts \in [Agents -> Seq(AttemptStates)]
  BY <1>1 DEF Runs, AttemptStates
<1>4. after = [Committed EXCEPT !.attempts = [stored.attempts EXCEPT ![a] = t]]
  BY <1>2
<1>5. stored' = stored \/ stored' = after
  BY DEF Call, Read, Loses
<1>6. lost' = lost \/ lost' = TRUE
  BY DEF Call, Read, Loses
<1>7. ~done => lost' = TRUE \/ stored' = stored
  BY DEF Call, Read, Loses
<1> HIDE DEF t, after
<1>8. [stored.attempts EXCEPT ![a] = t] \in [Agents -> Seq(AttemptStates)]
  BY <1>3
<1>9. /\ after \in Runs /\ after.frozen = stored.frozen
      /\ after.attempts = [stored.attempts EXCEPT ![a] = t]
  BY <1>2, <1>4, <1>8 DEF Runs
<1>10. ASSUME NEW b \in Agents \ {a}
       PROVE  stored'.attempts[b] = stored.attempts[b]
  BY <1>3, <1>5, <1>9
<1>11. \A b \in Agents \ {a} : IsActive(b)' => IsActive(b)
  BY <1>10 DEF IsActive, Attempt
<1>12. ~done => lost' \/ (IsActive(a)' => IsActive(a))
  BY <1>7 DEF IsActive, Attempt
<1> QED
  BY <1>1, <1>5, <1>6, <1>9, <1>11, <1>12

LEMMA StartAttemptKeeps ==
  ASSUME SessionInv, NEW a \in Agents, StartAttempt(a)
  PROVE  SessionInv'
<1>1. SessionTypeOK /\ QueueOK /\ AgentOK(a) /\ SettledOK(a)
  BY DEF SessionInv
<1>2. PICK done \in BOOLEAN :
        /\ Call(Owned(task[a].saw) /\ ~IsActive(a),
                [Committed EXCEPT !.attempts[a] = Append(stored.attempts[a], "starting")], done)
        /\ \/ ~done /\ Over(a) /\ launch' = [launch EXCEPT ![a] = "none"]
              /\ session' = session /\ process' = process
           \/ /\ done /\ launch[a] = "canceled" /\ Fails(a, "other")
              /\ process' = [process EXCEPT ![a] = "none"] /\ launch' = launch
           \/ /\ done /\ launch[a] # "canceled" /\ task' = [task EXCEPT ![a] = Rest("connect")]
              /\ process' = [process EXCEPT ![a] = "alive"] /\ launch' = launch
              /\ session' = session
  BY DEF StartAttempt
<1>3. task[a].at = "start" /\ queue' = queue /\ abort' = abort
  BY DEF StartAttempt
<1>4. /\ stored' \in Runs /\ lost' \in BOOLEAN
      /\ stored.frozen => stored'.frozen
      /\ lost => lost'
      /\ \A b \in Agents \ {a} : IsActive(b)' => IsActive(b)
      /\ ~done => lost' \/ (IsActive(a)' => IsActive(a))
  BY <1>1, <1>2, StartIsRecorded
<1>5. /\ task' \in [Agents -> Tasks] /\ OnlyTask(a)
      /\ \/ /\ ~done /\ task'[a].at = "over" /\ launch' = [launch EXCEPT ![a] = "none"]
            /\ session' = session /\ process' = process
         \/ /\ task'[a].at = "stopping" /\ session' = [session EXCEPT ![a] = FALSE]
            /\ process' = [process EXCEPT ![a] = "none"] /\ launch' = launch
         \/ /\ launch[a] # "canceled" /\ task'[a].at = "connect"
            /\ process' = [process EXCEPT ![a] = "alive"] /\ launch' = launch
            /\ session' = session
  <2>1. CASE /\ ~done /\ Over(a) /\ launch' = [launch EXCEPT ![a] = "none"]
             /\ session' = session /\ process' = process
    BY <1>1, <2>1, TaskIsOver
  <2>2. CASE /\ Fails(a, "other") /\ launch' = launch
             /\ process' = [process EXCEPT ![a] = "none"]
    BY <1>1, <2>2, TaskFails, "other" \in Errors DEF Errors
  <2>3. CASE /\ launch[a] # "canceled" /\ task' = [task EXCEPT ![a] = Rest("connect")]
             /\ process' = [process EXCEPT ![a] = "alive"] /\ launch' = launch
             /\ session' = session
    BY <1>1, <2>3, TaskRests, "connect" \in Places DEF Places, Launching
  <2> QED
    BY <1>2, <2>1, <2>2, <2>3
<1>6. QueueOK' /\ \A b \in Agents : Settles(b) => Settles(b)'
  BY <1>1, <1>3, <1>5, QueueStays DEF Waiting
<1>7. SessionTypeOK'
  BY <1>1, <1>3, <1>4, <1>5 DEF SessionTypeOK
<1>8. Apart(a)
  BY <1>1, <1>3, <1>4, <1>5, <1>6 DEF Apart, SessionTypeOK
<1>9. AgentOK(a)'
  BY <1>1, <1>3, <1>5 DEF AgentOK, AbortCalled, Found, Launching, SessionTypeOK
<1>10. SettledOK(a)'
  BY <1>1, <1>3, <1>4, <1>5
     DEF SettledOK, AgentOK, AbortCalled, Found, Launching, SessionTypeOK
<1> QED
  BY <1>6, <1>7, <1>8, <1>9, <1>10, OneAgentMoves

LEMMA BeginBindKeeps ==
  ASSUME SessionInv, NEW a \in Agents, BeginBind(a)
  PROVE  SessionInv'
<1>1. Quiet
  BY ReadIsQuiet DEF BeginBind, SessionInv
<1> QED
  BY <1>1, OnlyTheStoreMoves DEF BeginBind, NextStep

LEMMA BindKeeps ==
  ASSUME SessionInv, NEW a \in Agents, Bind(a)
  PROVE  SessionInv'
<1>1. SessionTypeOK /\ QueueOK /\ AgentOK(a) /\ SettledOK(a)
  BY DEF SessionInv
<1>9. task[a].at = "binding"
  BY <1>1, HeadIsAwaited DEF Bind, Awaited
<1>10. PICK done \in BOOLEAN :
         /\ UpdateAttempt(a, step.saw, "running", done)
         /\ \/ Goes(a, "work") /\ session' = [session EXCEPT ![a] = TRUE] /\ launch[a] # "canceled"
            \/ Fails(a, "other")
  BY DEF Bind
<1>2. Quiet
  BY <1>1, <1>10, UpdateIsQuiet
<1>3. /\ task' \in [Agents -> Tasks] /\ OnlyTask(a) /\ task[a].at = "binding"
      /\ launch' = launch /\ process' = process /\ abort' = abort
      /\ \/ /\ task'[a].at = "work" /\ session' = [session EXCEPT ![a] = TRUE]
            /\ launch[a] # "canceled"
         \/ task'[a].at = "stopping" /\ session' = [session EXCEPT ![a] = FALSE]
  <2>1. CASE Goes(a, "work") /\ session' = [session EXCEPT ![a] = TRUE] /\ launch[a] # "canceled"
    BY <1>1, <1>9, <2>1, TaskGoes, "work" \in Places DEF Bind, Places, Launching
  <2>2. CASE Fails(a, "other")
    BY <1>1, <1>9, <2>2, TaskFails, "other" \in Errors DEF Bind, Errors
  <2> QED
    BY <1>10, <2>1, <2>2
<1>4. /\ QueueOK' /\ queue' \in Seq(Names \X Agents)
      /\ \A b \in Agents : Settles(b) => Settles(b)'
  BY <1>1, <1>3, QueueShrinks, "bind" \in DOMAIN Awaited DEF Bind, InTurn, Pop, Awaited
<1>5. SessionTypeOK'
  BY <1>1, <1>2, <1>3, <1>4 DEF Bind, Quiet, SessionTypeOK
<1>6. Apart(a)
  BY <1>1, <1>2, <1>3, <1>4 DEF Bind, Apart, Quiet, SessionTypeOK
<1>7. AgentOK(a)'
  BY <1>1, <1>3 DEF Bind, AgentOK, AbortCalled, Found, Launching, SessionTypeOK
<1>8. SettledOK(a)'
  BY <1>1, <1>2, <1>3, <1>4
     DEF Bind, SettledOK, AgentOK, AbortCalled, Found, Launching, Quiet, SessionTypeOK
<1> QED
  BY <1>4, <1>5, <1>6, <1>7, <1>8, OneAgentMoves

LEMMA WorkKeeps ==
  ASSUME SessionInv, NEW a \in Agents, Work(a)
  PROVE  SessionInv'
<1>1. SessionTypeOK /\ QueueOK /\ AgentOK(a) /\ SettledOK(a)
  BY DEF SessionInv
<1>2. Quiet /\ stored' = stored /\ lost' = lost
  BY <1>1, ReadIsQuiet DEF Work
<1>3. /\ task' \in [Agents -> Tasks] /\ OnlyTask(a) /\ task[a].at = "work"
      /\ launch' = launch /\ process' = process /\ abort' = abort
      /\ \/ /\ task'[a].at = "drain" /\ session' = session
            /\ queue' = Append(queue, <<"drained", a>>)
         \/ /\ task'[a].at = "stopping" /\ session' = [session EXCEPT ![a] = FALSE]
            /\ queue' = queue
  <2>1. CASE Goes(a, "drain") /\ Enqueue("drained", a) /\ UNCHANGED <<session, binding>>
    BY <1>1, <2>1, TaskGoes, "drain" \in Places DEF Work, Enqueue, Places, Launching
  <2>2. CASE (\E error \in Errors : Fails(a, error)) /\ UNCHANGED <<queue, step>>
    BY <1>1, <2>2, TaskFails DEF Work
  <2> QED
    BY <2>1, <2>2 DEF Work, Errors
<1>4. /\ QueueOK' /\ queue' \in Seq(Names \X Agents)
      /\ \A b \in Agents : Settles(b) => Settles(b)'
  <2>1. CASE queue' = queue
    BY <1>1, <1>3, <2>1, QueueStays DEF Waiting, SessionTypeOK
  <2>2. CASE task'[a].at = "drain" /\ queue' = Append(queue, <<"drained", a>>)
    BY <1>1, <1>3, <2>2, QueueGrows DEF Waiting, Names, Awaited
  <2> QED
    BY <1>3, <2>1, <2>2
<1>5. SessionTypeOK'
  BY <1>1, <1>2, <1>3, <1>4 DEF Work, Quiet, SessionTypeOK
<1>6. Apart(a)
  BY <1>1, <1>2, <1>3, <1>4 DEF Work, Apart, Quiet, SessionTypeOK
<1>7. AgentOK(a)'
  BY <1>1, <1>3 DEF Work, AgentOK, AbortCalled, Found, Launching, SessionTypeOK
<1>8. SettledOK(a)'
  BY <1>1, <1>2, <1>3, <1>4
     DEF Work, SettledOK, AgentOK, AbortCalled, Found, Launching, Quiet, SessionTypeOK
<1> QED
  BY <1>4, <1>5, <1>6, <1>7, <1>8, OneAgentMoves

LEMMA PromptFailsKeeps ==
  ASSUME SessionInv, NEW a \in Agents, PromptFails(a)
  PROVE  SessionInv'
<1>1. SessionTypeOK /\ QueueOK /\ AgentOK(a) /\ SettledOK(a)
  BY DEF SessionInv
<1>2. Quiet /\ stored' = stored /\ lost' = lost
  BY <1>1, StoreStays DEF PromptFails
<1>3. /\ task' \in [Agents -> Tasks] /\ OnlyTask(a) /\ task[a].at = "work"
      /\ task'[a].at = "stopping" /\ session' = [session EXCEPT ![a] = FALSE]
  BY <1>1, TaskFails, "rpc" \in Errors DEF PromptFails, FailsOf, Errors
<1>4. QueueOK' /\ \A b \in Agents : Settles(b) => Settles(b)'
  BY <1>1, <1>3, QueueStays DEF PromptFails, Waiting
<1>5. SessionTypeOK'
  BY <1>1, <1>2, <1>3, <1>4 DEF PromptFails, Quiet, SessionTypeOK
<1>6. Apart(a)
  BY <1>1, <1>2, <1>3, <1>4 DEF PromptFails, Apart, Quiet, SessionTypeOK
<1>7. AgentOK(a)'
  BY <1>1, <1>3 DEF PromptFails, AgentOK, AbortCalled, Found, Launching, SessionTypeOK
<1>8. SettledOK(a)'
  BY <1>1, <1>2, <1>3, <1>4
     DEF PromptFails, SettledOK, AgentOK, AbortCalled, Found, Launching, Quiet,
         SessionTypeOK
<1> QED
  BY <1>4, <1>5, <1>6, <1>7, <1>8, OneAgentMoves

LEMMA LaunchedKeeps ==
  ASSUME SessionInv, NEW a \in Agents, Launched(a)
  PROVE  SessionInv'
<1>1. SessionTypeOK /\ QueueOK /\ AgentOK(a) /\ SettledOK(a)
  BY DEF SessionInv
<1>9. task[a].at = "drain"
  BY <1>1, HeadIsAwaited DEF Launched, Awaited
<1>2. Quiet /\ stored' = stored /\ lost' = lost
  BY <1>1, ReadIsQuiet DEF Launched
<1>3. /\ task' \in [Agents -> Tasks] /\ OnlyTask(a) /\ task[a].at = "drain"
      /\ process' = process /\ abort' = abort
      /\ \/ /\ launch[a] = "canceled" /\ launch' = launch
            /\ task'[a].at = "stopping" /\ session' = [session EXCEPT ![a] = FALSE]
         \/ /\ launch[a] # "canceled" /\ launch' = [launch EXCEPT ![a] = "none"]
            /\ task'[a].at = "reread" /\ session' = session
  <2>1. CASE launch[a] = "canceled"
    BY <1>1, <1>9, <2>1, TaskFails, "other" \in Errors DEF Launched, Errors
  <2>2. CASE launch[a] # "canceled"
    BY <1>1, <1>9, <2>2, TaskGoes, "reread" \in Places DEF Launched, Places
  <2> QED
    BY <2>1, <2>2
<1>4. /\ QueueOK' /\ queue' \in Seq(Names \X Agents)
      /\ \A b \in Agents : Settles(b) => Settles(b)'
  BY <1>1, <1>3, QueueShrinks, "drained" \in DOMAIN Awaited
     DEF Launched, InTurn, Pop, Awaited
<1>5. SessionTypeOK'
  BY <1>1, <1>2, <1>3, <1>4 DEF Launched, Quiet, SessionTypeOK
<1>6. Apart(a)
  BY <1>1, <1>2, <1>3, <1>4 DEF Launched, Apart, Quiet, SessionTypeOK
<1>7. AgentOK(a)'
  BY <1>1, <1>3 DEF Launched, AgentOK, AbortCalled, Found, Launching, SessionTypeOK
<1>8. SettledOK(a)'
  BY <1>1, <1>2, <1>3, <1>4
     DEF Launched, SettledOK, AgentOK, AbortCalled, Found, Launching, Quiet,
         SessionTypeOK
<1> QED
  BY <1>4, <1>5, <1>6, <1>7, <1>8, OneAgentMoves

LEMMA StopChildKeeps ==
  ASSUME SessionInv, NEW a \in Agents, StopChild(a)
  PROVE  SessionInv'
<1>1. SessionTypeOK /\ QueueOK /\ AgentOK(a) /\ SettledOK(a)
  BY DEF SessionInv
<1>2. Quiet /\ stored' = stored /\ lost' = lost
  BY <1>1, ReadIsQuiet DEF StopChild
<1>3. /\ task' \in [Agents -> Tasks] /\ OnlyTask(a) /\ task[a].at = "stopping"
      /\ task'[a].at = "failed" /\ queue' = Append(queue, <<"fail", a>>)
  BY <1>1, TaskGoes, "failed" \in Places DEF StopChild, Enqueue, Places, Launching
<1>4. /\ QueueOK' /\ queue' \in Seq(Names \X Agents)
      /\ \A b \in Agents : Settles(b) => Settles(b)'
  BY <1>1, <1>3, QueueGrows DEF Waiting, Names, Awaited
<1>5. SessionTypeOK'
  BY <1>1, <1>2, <1>3, <1>4 DEF StopChild, Quiet, SessionTypeOK
<1>6. Apart(a)
  BY <1>1, <1>2, <1>3, <1>4 DEF StopChild, Apart, Quiet, SessionTypeOK
<1>7. AgentOK(a)'
  BY <1>1, <1>3 DEF StopChild, AgentOK, AbortCalled, Found, Launching, SessionTypeOK
<1>8. SettledOK(a)'
  BY <1>1, <1>2, <1>3, <1>4
     DEF StopChild, SettledOK, AgentOK, AbortCalled, Found, Launching, Quiet,
         SessionTypeOK
<1> QED
  BY <1>4, <1>5, <1>6, <1>7, <1>8, OneAgentMoves

LEMMA LaunchIsOver ==
  ASSUME SessionTypeOK, NEW a \in Agents, NEW again \in BOOLEAN, LaunchEnds(a, again)
  PROVE  /\ task' \in [Agents -> Tasks] /\ OnlyTask(a)
         /\ launch' = [launch EXCEPT ![a] = "none"]
         /\ \/ task'[a].at = "over"
            \/ task'[a].at = "again" /\ again /\ launch[a] = "live"
<1>1. CASE again /\ launch[a] = "live" /\ Again(a)
  BY <1>1, TaskRests, "again" \in Places DEF LaunchEnds, Places
<1>2. CASE ~(again /\ launch[a] = "live" /\ Again(a))
  BY <1>2, TaskRests, "over" \in Places DEF LaunchEnds, Places
<1> QED
  BY <1>1, <1>2

\* A launch that failed ends: what it leaves is settled, as far as it can be.
LEMMA FailureKeeps ==
  ASSUME SessionInv, NEW a \in Agents, NEW again \in BOOLEAN, NEW at, NEW broken \in BOOLEAN,
         InTurn("fail", a, at), LaunchEnds(a, again), Quiet,
         UNCHANGED <<session, process>>, abort' = [abort EXCEPT !.failed = @ \/ broken],
         again => stored'.frozen \/ lost' \/ ~IsActive(a)',
         ~broken /\ launch[a] = "canceled" => stored'.frozen \/ lost' \/ ~IsActive(a)'
  PROVE  SessionInv'
<1>1. SessionTypeOK /\ QueueOK /\ AgentOK(a) /\ SettledOK(a)
  BY DEF SessionInv
<1>2. task[a].at = "failed" /\ queue # <<>> /\ Head(queue) = <<"fail", a>> /\ queue' = Tail(queue)
  BY <1>1, HeadIsAwaited DEF Awaited, LaunchEnds, Pop, InTurn
<1>3. /\ task' \in [Agents -> Tasks] /\ OnlyTask(a)
      /\ launch' = [launch EXCEPT ![a] = "none"]
      /\ \/ task'[a].at = "over"
         \/ task'[a].at = "again" /\ again /\ launch[a] = "live"
  BY <1>1, LaunchIsOver
<1>4. /\ QueueOK' /\ queue' \in Seq(Names \X Agents)
      /\ \A b \in Agents : Settles(b) => Settles(b)'
  BY <1>1, <1>2, <1>3, QueueShrinks, "fail" \in DOMAIN Awaited DEF Awaited
<1>5. /\ abort'.at = abort.at /\ abort'.bound = abort.bound
      /\ abort'.launching = abort.launching
      /\ abort'.failed = (abort.failed \/ broken)
      /\ abort' \in [at : {"no", "stopping", "waiting", "settling", "over"},
                    bound : SUBSET Agents, launching : SUBSET Agents, failed : BOOLEAN]
  BY <1>1 DEF SessionTypeOK
<1>6. SessionTypeOK'
  BY <1>1, <1>3, <1>4, <1>5 DEF Quiet, SessionTypeOK
<1>7. Apart(a)
  BY <1>1, <1>3, <1>4, <1>5 DEF Apart, Quiet, SessionTypeOK
<1>8. AgentOK(a)'
  BY <1>1, <1>2, <1>3, <1>5 DEF AgentOK, AbortCalled, Found, Launching, SessionTypeOK
<1>9. SettledOK(a)'
  BY <1>1, <1>2, <1>3, <1>4, <1>5
     DEF SettledOK, AgentOK, AbortCalled, Found, Launching, Quiet, SessionTypeOK
<1> QED
  BY <1>4, <1>6, <1>7, <1>8, <1>9, OneAgentMoves

LEMMA ReadFailureKeeps ==
  ASSUME SessionInv, NEW a \in Agents, ReadFailure(a)
  PROVE  SessionInv'
<1>1. SessionTypeOK
  BY DEF SessionInv
<1>2. CASE Read /\ ~stored.frozen /\ ReadOn("write") /\ UNCHANGED <<task, launch>>
  BY <1>1, <1>2, ReadIsQuiet, OnlyTheStoreMoves DEF ReadFailure, ReadOn, NextStep
<1>3. CASE ((Read /\ stored.frozen) \/ Unread) /\ LaunchEnds(a, TRUE)
  <2>1. Quiet /\ (stored'.frozen \/ lost')
    BY <1>1, <1>3, ReadIsQuiet, UnreadIsQuiet
  <2>2. abort' = [abort EXCEPT !.failed = @ \/ FALSE]
    BY <1>1 DEF ReadFailure, SessionTypeOK
  <2> QED
    BY <1>3, <2>1, <2>2, FailureKeeps DEF ReadFailure
<1> QED
  BY <1>2, <1>3 DEF ReadFailure

LEMMA WriteFailureKeeps ==
  ASSUME SessionInv, NEW a \in Agents, WriteFailure(a)
  PROVE  SessionInv'
<1>1. SessionTypeOK
  BY DEF SessionInv
<1>2. PICK done \in BOOLEAN :
        /\ UpdateAttempt(a, step.saw, FailureStatus(a), done)
        /\ LaunchEnds(a, done \/ stored'.frozen)
        /\ abort' = [abort EXCEPT
             !.failed = @ \/ (~done /\ ~stored'.frozen /\ launch[a] = "canceled")]
  BY DEF WriteFailure
<1>3. FailureStatus(a) \in Inactive
  BY DEF FailureStatus, Inactive, AttemptStates
<1>4. Quiet /\ (done => ~IsActive(a)')
  BY <1>1, <1>2, <1>3, UpdateIsQuiet
<1>5. stored'.frozen \in BOOLEAN
  BY <1>4 DEF Quiet, Runs
<1> DEFINE broken == ~done /\ ~stored'.frozen /\ launch[a] = "canceled"
           again == done \/ stored'.frozen
<1>6. /\ again => stored'.frozen \/ lost' \/ ~IsActive(a)'
      /\ ~broken /\ launch[a] = "canceled" => stored'.frozen \/ lost' \/ ~IsActive(a)'
  BY <1>4
<1>7. /\ broken \in BOOLEAN /\ again \in BOOLEAN /\ LaunchEnds(a, again)
      /\ abort' = [abort EXCEPT !.failed = @ \/ broken]
      /\ InTurn("fail", a, "write") /\ UNCHANGED <<session, process>>
  BY <1>2, <1>5 DEF WriteFailure
<1> HIDE DEF broken, again
<1> QED
  BY <1>4, <1>6, <1>7, FailureKeeps

-----------------------------------------------------------------------------
(* The completion *)

LEMMA RereadKeeps ==
  ASSUME SessionInv, NEW a \in Agents, Reread(a)
  PROVE  SessionInv'
<1>1. SessionTypeOK /\ QueueOK /\ AgentOK(a) /\ SettledOK(a)
  BY DEF SessionInv
<1>2. Quiet /\ stored' = stored /\ lost' = lost
  BY <1>1, ReadIsQuiet DEF Reread
<1>3. /\ task' \in [Agents -> Tasks] /\ OnlyTask(a) /\ task[a].at = "reread"
      /\ launch' = launch /\ process' = process /\ abort' = abort /\ session' = session
      /\ \/ task'[a].at = "admitting" /\ queue' = Append(queue, <<"admit", a>>)
         \/ task'[a].at = "over" /\ queue' = queue
  <2>1. CASE session[a] /\ known <= stored.version
    <3> DEFINE r == [task[a] EXCEPT !.at = "admitting", !.saw = stored.version]
    <3>1. "admitting" \in Places /\ stored.version \in Nat /\ task[a] \in Tasks
      BY <1>1 DEF Places, Completing, SessionTypeOK, Runs
    <3>2. r \in Tasks /\ r.at = "admitting"
      <4> HIDE DEF Places
      <4> QED
        BY <3>1 DEF Tasks
    <3>3. task' = [task EXCEPT ![a] = r]
      BY <2>1 DEF Reread
    <3> QED
      BY <1>1, <2>1, <3>2, <3>3, TaskGoesOn DEF Reread, Enqueue
  <2>2. CASE ~(session[a] /\ known <= stored.version)
    BY <1>1, <2>2, TaskIsOver DEF Reread
  <2> QED
    BY <2>1, <2>2
<1>4. /\ QueueOK' /\ queue' \in Seq(Names \X Agents)
      /\ \A b \in Agents : Settles(b) => Settles(b)'
  <2>1. CASE queue' = queue
    BY <1>1, <1>3, <2>1, QueueStays DEF Waiting, SessionTypeOK
  <2>2. CASE task'[a].at = "admitting" /\ queue' = Append(queue, <<"admit", a>>)
    BY <1>1, <1>3, <2>2, QueueGrows DEF Waiting, Names, Awaited
  <2> QED
    BY <1>3, <2>1, <2>2
<1>5. SessionTypeOK'
  BY <1>1, <1>2, <1>3, <1>4 DEF Reread, Quiet, SessionTypeOK
<1>6. Apart(a)
  BY <1>1, <1>2, <1>3, <1>4 DEF Reread, Apart, Quiet, SessionTypeOK
<1>7. AgentOK(a)'
  BY <1>1, <1>3 DEF Reread, AgentOK, AbortCalled, Found, Launching, SessionTypeOK
<1>8. SettledOK(a)'
  BY <1>1, <1>2, <1>3, <1>4
     DEF Reread, SettledOK, AgentOK, AbortCalled, Found, Launching, Quiet, SessionTypeOK
<1> QED
  BY <1>4, <1>5, <1>6, <1>7, <1>8, OneAgentMoves

\* A completion is refused, or goes on to its transcript.
LEMMA AdmissionEnds ==
  ASSUME SessionInv, NEW a \in Agents, NEW at, InTurn("admit", a, at), Pop, Quiet,
         task' \in [Agents -> Tasks], OnlyTask(a), task'[a].at \in {"over", "closing"},
         UNCHANGED <<launch, session, process, abort>>
  PROVE  SessionInv'
<1>1. SessionTypeOK /\ QueueOK /\ AgentOK(a) /\ SettledOK(a)
  BY DEF SessionInv
<1>2. task[a].at = "admitting"
  BY <1>1, HeadIsAwaited DEF Awaited
<1>3. /\ QueueOK' /\ queue' \in Seq(Names \X Agents)
      /\ \A b \in Agents : Settles(b) => Settles(b)'
  BY <1>1, QueueShrinks, "admit" \in DOMAIN Awaited DEF InTurn, Pop, Awaited
<1>4. SessionTypeOK'
  BY <1>1, <1>3 DEF Quiet, SessionTypeOK
<1>5. Apart(a)
  BY <1>1, <1>3 DEF Apart, Quiet, SessionTypeOK
<1>6. AgentOK(a)'
  BY <1>1, <1>2 DEF AgentOK, AbortCalled, Found, Launching, SessionTypeOK
<1>7. SettledOK(a)'
  BY <1>1, <1>2, <1>3 DEF SettledOK, AbortCalled, Found, Quiet, SessionTypeOK
<1> QED
  BY <1>3, <1>4, <1>5, <1>6, <1>7, OneAgentMoves

LEMMA AdmitReadsKeeps ==
  ASSUME SessionInv, NEW a \in Agents, AdmitReads(a)
  PROVE  SessionInv'
<1>1. SessionTypeOK
  BY DEF SessionInv
<1>2. CASE Read /\ NextStep("attempt", 0) /\ UNCHANGED task
  BY <1>1, <1>2, ReadIsQuiet, OnlyTheStoreMoves DEF AdmitReads, NextStep
<1>3. CASE (Read \/ Unread) /\ Over(a) /\ Pop
  <2>1. Quiet
    BY <1>1, <1>3, ReadIsQuiet, UnreadIsQuiet
  <2>2. task' \in [Agents -> Tasks] /\ OnlyTask(a) /\ task'[a].at = "over"
    BY <1>1, <1>3, TaskIsOver
  <2> QED
    BY <1>3, <2>1, <2>2, AdmissionEnds DEF AdmitReads
<1> QED
  BY <1>2, <1>3 DEF AdmitReads

LEMMA AdmitKeeps ==
  ASSUME SessionInv, NEW a \in Agents, Admit(a)
  PROVE  SessionInv'
<1>1. SessionTypeOK
  BY DEF SessionInv
<1>2. Quiet
  BY <1>1, ReadIsQuiet, UnreadIsQuiet DEF Admit
<1>3. /\ task' \in [Agents -> Tasks] /\ OnlyTask(a)
      /\ task'[a].at \in {"over", "closing"}
  <2>1. CASE task' = [task EXCEPT ![a] = Rest("closing")]
    BY <1>1, <2>1, TaskRests, "closing" \in Places DEF Places, Completing
  <2>2. CASE Over(a)
    BY <1>1, <2>2, TaskIsOver
  <2> QED
    BY <2>1, <2>2 DEF Admit
<1> QED
  BY <1>2, <1>3, AdmissionEnds DEF Admit

LEMMA FetchKeeps ==
  ASSUME SessionInv, NEW a \in Agents, Fetch(a)
  PROVE  SessionInv'
<1>1. SessionTypeOK /\ QueueOK /\ AgentOK(a) /\ SettledOK(a)
  BY DEF SessionInv
<1>2. Quiet /\ stored' = stored /\ lost' = lost
  BY <1>1, StoreStays DEF Fetch
<1>3. /\ task' \in [Agents -> Tasks] /\ OnlyTask(a) /\ task[a].at = "closing"
      /\ task'[a].at = "halting"
      /\ launch' = launch /\ process' = process /\ abort' = abort /\ session' = session
      /\ queue' = queue
  <2>1. PICK error \in Errors :
          task' = [task EXCEPT ![a].at = "halting", ![a].error = error]
    <3>1. "none" \in Errors /\ "other" \in Errors /\ {"rpc", "other"} \subseteq Errors
      BY DEF Errors
    <3> QED
      BY <3>1 DEF Fetch, Fetched
  <2> DEFINE r == [task[a] EXCEPT !.at = "halting", !.error = error]
  <2>2. "halting" \in Places /\ task[a] \in Tasks
    BY <1>1 DEF Places, Completing, SessionTypeOK
  <2>3. r \in Tasks /\ r.at = "halting"
    <3> HIDE DEF Places, Errors
    <3> QED
      BY <2>2 DEF Tasks
  <2>4. task' = [task EXCEPT ![a] = r]
    BY <2>1
  <2> QED
    BY <1>1, <2>3, <2>4, TaskGoesOn DEF Fetch, supervisor
<1>4. QueueOK' /\ \A b \in Agents : Settles(b) => Settles(b)'
  BY <1>1, <1>3, QueueStays DEF Fetch, Waiting
<1>5. SessionTypeOK'
  BY <1>1, <1>2, <1>3, <1>4 DEF Fetch, Quiet, SessionTypeOK
<1>6. Apart(a)
  BY <1>1, <1>2, <1>3, <1>4 DEF Fetch, Apart, Quiet, SessionTypeOK
<1>7. AgentOK(a)'
  BY <1>1, <1>3 DEF Fetch, AgentOK, AbortCalled, Found, Launching, SessionTypeOK
<1>8. SettledOK(a)'
  BY <1>1, <1>2, <1>3, <1>4
     DEF Fetch, SettledOK, AgentOK, AbortCalled, Found, Launching, Quiet, SessionTypeOK
<1> QED
  BY <1>4, <1>5, <1>6, <1>7, <1>8, OneAgentMoves

LEMMA HaltKeeps ==
  ASSUME SessionInv, NEW a \in Agents, Halt(a)
  PROVE  SessionInv'
<1>1. SessionTypeOK /\ QueueOK /\ AgentOK(a) /\ SettledOK(a)
  BY DEF SessionInv
<1>2. Quiet /\ stored' = stored /\ lost' = lost
  BY <1>1, ReadIsQuiet DEF Halt
<1>3. /\ task' \in [Agents -> Tasks] /\ OnlyTask(a) /\ task[a].at = "halting"
      /\ task'[a].at = "finishing" /\ queue' = Append(queue, <<"finish", a>>)
  BY <1>1, TaskGoes, "finishing" \in Places DEF Halt, Enqueue, Places, Completing
<1>4. /\ QueueOK' /\ queue' \in Seq(Names \X Agents)
      /\ \A b \in Agents : Settles(b) => Settles(b)'
  BY <1>1, <1>3, QueueGrows DEF Waiting, Names, Awaited
<1>5. SessionTypeOK'
  BY <1>1, <1>2, <1>3, <1>4 DEF Halt, Quiet, SessionTypeOK
<1>6. Apart(a)
  BY <1>1, <1>2, <1>3, <1>4 DEF Halt, Apart, Quiet, SessionTypeOK
<1>7. AgentOK(a)'
  BY <1>1, <1>3 DEF Halt, AgentOK, AbortCalled, Found, Launching, SessionTypeOK
<1>8. SettledOK(a)'
  BY <1>1, <1>2, <1>3, <1>4
     DEF Halt, SettledOK, AgentOK, AbortCalled, Found, Launching, Quiet, SessionTypeOK
<1> QED
  BY <1>4, <1>5, <1>6, <1>7, <1>8, OneAgentMoves

\* The last operation of a completion releases the session; another attempt
\* follows one that is settled.
LEMMA CompletionEnds ==
  ASSUME SessionInv, NEW a \in Agents, NEW at, InTurn("finish", a, at), Release(a), Quiet,
         task' \in [Agents -> Tasks], OnlyTask(a), task'[a].at \in {"over", "again"},
         task'[a].at = "again" => ~IsActive(a)',
         UNCHANGED <<launch, process, abort>>
  PROVE  SessionInv'
<1>1. SessionTypeOK /\ QueueOK /\ AgentOK(a) /\ SettledOK(a)
  BY DEF SessionInv
<1>2. task[a].at = "finishing"
  BY <1>1, HeadIsAwaited DEF Awaited
<1>3. /\ QueueOK' /\ queue' \in Seq(Names \X Agents)
      /\ \A b \in Agents : Settles(b) => Settles(b)'
  BY <1>1, QueueShrinks, "finish" \in DOMAIN Awaited DEF InTurn, Release, Pop, Awaited
<1>4. SessionTypeOK'
  BY <1>1, <1>3 DEF Quiet, SessionTypeOK, Release
<1>5. Apart(a)
  BY <1>1, <1>3 DEF Apart, Quiet, SessionTypeOK, Release
<1>6. AgentOK(a)'
  BY <1>1, <1>2 DEF AgentOK, AbortCalled, Found, Launching, SessionTypeOK, Release
<1>7. SettledOK(a)'
  BY <1>1, <1>2, <1>3 DEF SettledOK, AbortCalled, Found, Quiet, SessionTypeOK
<1> QED
  BY <1>3, <1>4, <1>5, <1>6, <1>7, OneAgentMoves

LEMMA FinishFailsKeeps ==
  ASSUME SessionInv, NEW a \in Agents, NEW at, InTurn("finish", a, at), FinishFails(a), Quiet,
         UNCHANGED <<launch, process, abort>>
  PROVE  SessionInv'
<1>1. task' \in [Agents -> Tasks] /\ OnlyTask(a) /\ task'[a].at = "over"
  BY TaskIsOver DEF FinishFails, SessionInv
<1> QED
  BY <1>1, CompletionEnds DEF FinishFails

LEMMA FinishReadsKeeps ==
  ASSUME SessionInv, NEW a \in Agents, FinishReads(a)
  PROVE  SessionInv'
<1>1. Quiet
  BY ReadIsQuiet, UnreadIsQuiet DEF FinishReads, SessionInv
<1>2. CASE ReadOn("authorize") /\ UNCHANGED <<task, session>>
  BY <1>1, <1>2, OnlyTheStoreMoves DEF FinishReads, ReadOn, NextStep
<1>3. CASE FinishFails(a)
  BY <1>1, <1>3, FinishFailsKeeps DEF FinishReads
<1> QED
  BY <1>2, <1>3 DEF FinishReads

LEMMA FinishAuthorizesKeeps ==
  ASSUME SessionInv, NEW a \in Agents, FinishAuthorizes(a)
  PROVE  SessionInv'
<1>1. Quiet
  BY ReadIsQuiet, UnreadIsQuiet DEF FinishAuthorizes, SessionInv
<1>2. CASE ReadOn("write") /\ UNCHANGED <<task, session>>
  BY <1>1, <1>2, OnlyTheStoreMoves DEF FinishAuthorizes, ReadOn, NextStep
<1>3. CASE FinishFails(a)
  BY <1>1, <1>3, FinishFailsKeeps DEF FinishAuthorizes
<1> QED
  BY <1>2, <1>3 DEF FinishAuthorizes

LEMMA FinishWritesKeeps ==
  ASSUME SessionInv, NEW a \in Agents, FinishWrites(a)
  PROVE  SessionInv'
<1> DEFINE to == IF task[a].error = "none" THEN "completed" ELSE "failed"
<1>1. SessionTypeOK /\ to \in Inactive
  BY DEF SessionInv, Inactive, AttemptStates
<1>2. PICK done \in BOOLEAN :
        /\ UpdateAttempt(a, step.saw, to, done)
        /\ \/ /\ done /\ Release(a)
              /\ task' = [task EXCEPT ![a] = Rest(IF Again(a) THEN "again" ELSE "over")]
           \/ FinishFails(a)
  BY DEF FinishWrites
<1> HIDE DEF to
<1>3. Quiet /\ (done => ~IsActive(a)')
  BY <1>1, <1>2, UpdateIsQuiet
<1>4. CASE /\ done /\ Release(a)
           /\ task' = [task EXCEPT ![a] = Rest(IF Again(a) THEN "again" ELSE "over")]
  <2>1. PICK at \in {"again", "over"} : task' = [task EXCEPT ![a] = Rest(at)]
    BY <1>4
  <2>2. task' \in [Agents -> Tasks] /\ OnlyTask(a) /\ task'[a].at = at
    BY <1>1, <2>1, TaskRests, at \in Places DEF Places
  <2> QED
    BY <1>3, <1>4, <2>1, <2>2, CompletionEnds DEF FinishWrites
<1>5. CASE FinishFails(a)
  BY <1>3, <1>5, FinishFailsKeeps DEF FinishWrites
<1> QED
  BY <1>2, <1>4, <1>5

-----------------------------------------------------------------------------
(* The children, and what they send *)

\* What nobody waits for is done, and says nothing of an agent.
LEMMA OnlyTheQueueShrinks ==
  ASSUME SessionInv, NEW a \in Agents, NEW name \in {"exited", "activity"}, NEW at,
         InTurn(name, a, at), Pop, Quiet,
         UNCHANGED <<task, launch, session, process, abort>>
  PROVE  SessionInv'
<1>1. SessionTypeOK /\ QueueOK /\ AgentOK(a) /\ SettledOK(a)
  BY DEF SessionInv
<1>2. OnlyTask(a) /\ task'[a].at = task[a].at
  BY DEF OnlyTask
<1>3. /\ QueueOK' /\ queue' \in Seq(Names \X Agents)
      /\ \A b \in Agents : Settles(b) => Settles(b)'
  BY <1>1, <1>2, QueueShrinks DEF InTurn, Pop
<1>4. SessionTypeOK'
  BY <1>1, <1>3 DEF Quiet, SessionTypeOK
<1>5. Apart(a)
  BY <1>1, <1>2, <1>3 DEF Apart, Quiet
<1>6. AgentOK(a)'
  BY <1>1 DEF AgentOK, AbortCalled, Found
<1>7. SettledOK(a)'
  BY <1>1, <1>3 DEF SettledOK, AbortCalled, Found, Quiet
<1> QED
  BY <1>3, <1>4, <1>5, <1>6, <1>7, OneAgentMoves

LEMMA NoticesKeep ==
  ASSUME SessionInv, NEW a \in Agents,
         ExitedReads(a) \/ ExitedWrites(a) \/ ActivityReads(a) \/ ActivityWrites(a)
  PROVE  SessionInv'
<1>1. SessionTypeOK
  BY DEF SessionInv
<1>2. CASE ExitedReads(a)
  <2>1. Quiet
    BY <1>1, <1>2, ReadIsQuiet, UnreadIsQuiet DEF ExitedReads
  <2>2. CASE ReadOn("write")
    BY <1>2, <2>1, <2>2, OnlyTheStoreMoves DEF ExitedReads, ReadOn, NextStep
  <2>3. CASE Pop
    BY <1>2, <2>1, <2>3, OnlyTheQueueShrinks DEF ExitedReads
  <2> QED
    BY <1>2, <2>2, <2>3 DEF ExitedReads
<1>3. CASE ExitedWrites(a)
  <2>1. "interrupted" \in Inactive
    BY DEF Inactive, AttemptStates
  <2>2. Quiet
    BY <1>1, <1>3, <2>1, UpdateIsQuiet DEF ExitedWrites
  <2> QED
    BY <1>3, <2>2, OnlyTheQueueShrinks DEF ExitedWrites
<1>4. CASE ActivityReads(a)
  <2>1. Quiet
    BY <1>1, <1>4, ReadIsQuiet, UnreadIsQuiet DEF ActivityReads
  <2>2. CASE ReadOn("write")
    BY <1>4, <2>1, <2>2, OnlyTheStoreMoves DEF ActivityReads, ReadOn, NextStep
  <2>3. CASE Pop
    BY <1>4, <2>1, <2>3, OnlyTheQueueShrinks DEF ActivityReads
  <2> QED
    BY <1>4, <2>2, <2>3 DEF ActivityReads
<1>5. CASE ActivityWrites(a)
  <2>1. PICK done \in BOOLEAN : Call(Owned(step.saw), Committed, done)
    BY <1>5 DEF ActivityWrites
  <2>2. Quiet
    BY <1>1, <2>1, CommitIsQuiet
  <2> QED
    BY <1>5, <2>2, OnlyTheQueueShrinks DEF ActivityWrites
<1> QED
  BY <1>2, <1>3, <1>4, <1>5

LEMMA NoticeExitKeeps ==
  ASSUME SessionInv, NEW a \in Agents, NoticeExit(a)
  PROVE  SessionInv'
<1>1. SessionTypeOK /\ QueueOK /\ AgentOK(a) /\ SettledOK(a)
  BY DEF SessionInv
<1>2. Quiet /\ stored' = stored /\ lost' = lost
  BY <1>1, ReadIsQuiet DEF NoticeExit
<1>3. OnlyTask(a) /\ task'[a].at = task[a].at
  BY DEF NoticeExit, OnlyTask
<1>4. /\ QueueOK' /\ queue' \in Seq(Names \X Agents)
      /\ \A b \in Agents : Settles(b) => Settles(b)'
  <2>1. queue' = Append(queue, <<"exited", a>>) /\ "exited" \in Names
    BY DEF NoticeExit, Enqueue, Names
  <2> QED
    BY <1>1, <1>3, <2>1, QueueGrows DEF Awaited
<1>5. SessionTypeOK'
  BY <1>1, <1>2, <1>3, <1>4 DEF NoticeExit, Quiet, SessionTypeOK
<1>6. Apart(a)
  BY <1>1, <1>2, <1>3, <1>4 DEF NoticeExit, Apart, Quiet, SessionTypeOK
<1>7. AgentOK(a)'
  BY <1>1, <1>3 DEF NoticeExit, AgentOK, AbortCalled, Found, Launching, SessionTypeOK
<1>8. SettledOK(a)'
  BY <1>1, <1>2, <1>3, <1>4
     DEF NoticeExit, SettledOK, AgentOK, AbortCalled, Found, Launching, Quiet,
         SessionTypeOK
<1> QED
  BY <1>4, <1>5, <1>6, <1>7, <1>8, OneAgentMoves

LEMMA EmitKeeps ==
  ASSUME SessionInv, NEW a \in Agents, Emit(a)
  PROVE  SessionInv'
<1>1. SessionTypeOK /\ QueueOK /\ AgentOK(a) /\ SettledOK(a)
  BY DEF SessionInv
<1>2. Quiet /\ stored' = stored /\ lost' = lost
  BY <1>1, StoreStays DEF Emit
<1>3. OnlyTask(a) /\ task'[a].at = task[a].at
  BY DEF Emit, Surroundings, OnlyTask
<1>4. /\ QueueOK' /\ queue' \in Seq(Names \X Agents)
      /\ \A b \in Agents : Settles(b) => Settles(b)'
  <2>1. queue' = Append(queue, <<"activity", a>>) /\ "activity" \in Names
    BY DEF Emit, Enqueue, Names
  <2> QED
    BY <1>1, <1>3, <2>1, QueueGrows DEF Awaited
<1>5. SessionTypeOK'
  BY <1>1, <1>2, <1>3, <1>4 DEF Emit, Quiet, SessionTypeOK, Surroundings
<1>6. Apart(a)
  BY <1>1, <1>2, <1>3, <1>4 DEF Emit, Apart, Quiet, SessionTypeOK, Surroundings
<1>7. AgentOK(a)'
  BY <1>1, <1>3
     DEF Emit, AgentOK, AbortCalled, Found, Launching, SessionTypeOK, Surroundings
<1>8. SettledOK(a)'
  BY <1>1, <1>2, <1>3, <1>4
     DEF Emit, SettledOK, AgentOK, AbortCalled, Found, Launching, Quiet, SessionTypeOK,
         Surroundings
<1> QED
  BY <1>4, <1>5, <1>6, <1>7, <1>8, OneAgentMoves

LEMMA ExitsKeeps ==
  ASSUME SessionInv, NEW a \in Agents, Exits(a)
  PROVE  SessionInv'
<1>1. SessionTypeOK /\ QueueOK /\ AgentOK(a) /\ SettledOK(a)
  BY DEF SessionInv
<1>2. Quiet /\ stored' = stored /\ lost' = lost
  BY <1>1, StoreStays DEF Exits
<1>3. OnlyTask(a) /\ task'[a].at = task[a].at
  BY DEF Exits, Surroundings, OnlyTask
<1>4. QueueOK' /\ \A b \in Agents : Settles(b) => Settles(b)'
  BY <1>1, <1>3, QueueStays DEF Exits, Waiting
<1>5. SessionTypeOK'
  BY <1>1, <1>2, <1>3, <1>4 DEF Exits, Quiet, SessionTypeOK, Surroundings
<1>6. Apart(a)
  BY <1>1, <1>2, <1>3, <1>4 DEF Exits, Apart, Quiet, SessionTypeOK, Surroundings
<1>7. AgentOK(a)'
  BY <1>1, <1>3
     DEF Exits, AgentOK, AbortCalled, Found, Launching, SessionTypeOK, Surroundings
<1>8. SettledOK(a)'
  BY <1>1, <1>2, <1>3, <1>4
     DEF Exits, SettledOK, AgentOK, AbortCalled, Found, Launching, Quiet, SessionTypeOK,
         Surroundings
<1> QED
  BY <1>4, <1>5, <1>6, <1>7, <1>8, OneAgentMoves

LEMMA OthersCommitKeeps ==
  ASSUME SessionInv, OthersCommit
  PROVE  SessionInv'
<1>1. stored \in Runs /\ lost \in BOOLEAN
  BY DEF SessionInv, SessionTypeOK
<1>2. /\ Committed \in Runs /\ Committed.frozen = stored.frozen
      /\ Committed.attempts = stored.attempts
  BY <1>1, CommitsAreRuns
<1>3. /\ [Committed EXCEPT !.frozen = TRUE] \in Runs
      /\ [Committed EXCEPT !.frozen = TRUE].attempts = stored.attempts
  BY <1>2 DEF Runs
<1>4. stored' \in Runs /\ stored'.attempts = stored.attempts /\ ~stored.frozen /\ lost' = lost
  BY <1>2, <1>3 DEF OthersCommit
<1>5. Quiet
  BY <1>1, <1>4 DEF Quiet, IsActive, Attempt
<1> QED
  BY <1>5, OnlyTheStoreMoves DEF OthersCommit, Surroundings

-----------------------------------------------------------------------------
(* The abortion *)

LEMMA CallAbortKeeps ==
  ASSUME SessionInv, CallAbort
  PROVE  SessionInv'
<1> DEFINE launching == {a \in Agents : launch[a] # "none"}
           bound == {a \in Agents : session[a]}
<1>1. SessionTypeOK /\ QueueOK
  BY DEF SessionInv
<1>2. Quiet /\ stored' = stored /\ lost' = lost
  BY <1>1, ReadIsQuiet DEF CallAbort
<1>3. /\ abort' = [at |-> "stopping", bound |-> bound, launching |-> launching, failed |-> FALSE]
      /\ launch' = [a \in Agents |-> IF a \in launching THEN "canceled" ELSE "none"]
      /\ session' = [a \in Agents |-> FALSE] /\ ~AbortCalled
      /\ queue' = queue /\ task' = task /\ process' = process
  BY DEF CallAbort
<1>4. launching \in SUBSET Agents /\ bound \in SUBSET Agents
  OBVIOUS
<1>5. SessionTypeOK'
  <2> HIDE DEF launching, bound
  <2> QED
    BY <1>1, <1>2, <1>3, <1>4 DEF SessionTypeOK
<1>6. QueueOK'
  BY <1>1, <1>3 DEF QueueOK
<1>7. ASSUME NEW a \in Agents
      PROVE  AgentOK(a)' /\ SettledOK(a)'
  <2>1. AgentOK(a) /\ SettledOK(a)
    BY DEF SessionInv
  <2>2. /\ a \in launching <=> launch[a] # "none"
        /\ a \in bound <=> session[a]
    OBVIOUS
  <2> HIDE DEF launching, bound
  <2>3. AgentOK(a)'
    BY <1>1, <1>3, <2>1, <2>2 DEF AgentOK, AbortCalled, Found, SessionTypeOK
  <2>4. SettledOK(a)'
    BY <1>1, <1>2, <1>3, <2>1, <2>2
       DEF SettledOK, AbortCalled, Found, SessionTypeOK, Quiet
  <2> QED
    BY <2>3, <2>4
<1> QED
  BY <1>5, <1>6, <1>7 DEF SessionInv

LEMMA AbortStopsKeeps ==
  ASSUME SessionInv, AbortStops
  PROVE  SessionInv'
<1>1. SessionTypeOK /\ QueueOK
  BY DEF SessionInv
<1>2. Quiet /\ stored' = stored /\ lost' = lost
  BY <1>1, ReadIsQuiet DEF AbortStops
<1>3. /\ abort' = [abort EXCEPT !.at = "waiting"] /\ abort.at = "stopping"
      /\ queue' = queue /\ task' = task /\ launch' = launch /\ session' = session
  BY DEF AbortStops
<1>4. /\ process' \in [Agents -> {"none", "alive", "exited"}]
      /\ \A a \in Agents : process'[a] = IF a \in Found /\ process[a] = "alive"
                                         THEN "exited" ELSE process[a]
  BY <1>1 DEF AbortStops, SessionTypeOK
<1>5. SessionTypeOK'
  BY <1>1, <1>2, <1>3, <1>4 DEF SessionTypeOK
<1>6. QueueOK'
  BY <1>1, <1>3 DEF QueueOK
<1>7. ASSUME NEW a \in Agents
      PROVE  AgentOK(a)' /\ SettledOK(a)'
  <2>1. AgentOK(a) /\ SettledOK(a)
    BY DEF SessionInv
  <2>2. AgentOK(a)'
    BY <1>1, <1>3, <1>4, <2>1 DEF AgentOK, AbortCalled, Found, SessionTypeOK
  <2>3. SettledOK(a)'
    BY <1>1, <1>2, <1>3, <2>1 DEF SettledOK, AbortCalled, Found, SessionTypeOK, Quiet
  <2> QED
    BY <2>2, <2>3
<1> QED
  BY <1>5, <1>6, <1>7 DEF SessionInv

\* The sequence of a finite set holds all of it.
LEMMA SetToSeqIsComplete ==
  ASSUME NEW S, IsFiniteSet(S)
  PROVE  /\ Cardinality(S) \in Nat
         /\ SetToSeq(S) \in [1..Cardinality(S) -> S]
         /\ \A x \in S : \E i \in 1..Cardinality(S) : SetToSeq(S)[i] = x
<1> DEFINE n == Cardinality(S)
<1>1. n \in Nat /\ ExistsBijection(1..n, S)
  BY FS_CardinalityType
<1>2. \E f \in [1..n -> S] : IsInjective(f)
  BY <1>1 DEF ExistsBijection, Bijection, Injection
<1>3. SetToSeq(S) \in [1..n -> S] /\ IsInjective(SetToSeq(S))
  BY <1>2 DEF SetToSeq
<1>4. SetToSeq(S) \in Injection(1..n, S)
  BY <1>3 DEF Injection
<1>5. IsFiniteSet(1..n) /\ Cardinality(1..n) = n
  BY <1>1, FS_Interval
<1>6. SetToSeq(S) \in Surjection(1..n, S)
  BY <1>4, <1>5, FS_Injection
<1> QED
  BY <1>1, <1>3, <1>6 DEF Surjection

LEMMA Concatenated ==
  ASSUME NEW S, NEW s \in Seq(S), NEW t \in Seq(S), NEW m \in Nat, NEW n \in Nat,
         Len(s) = m, Len(t) = n
  PROVE  /\ s \o t \in Seq(S) /\ Len(s \o t) = m + n
         /\ \A i \in 1..m : (s \o t)[i] = s[i]
         /\ \A i \in m + 1..m + n : (s \o t)[i] = t[i - m]
OBVIOUS

LEMMA AbortWaitsKeeps ==
  ASSUME SessionInv, AbortWaits
  PROVE  SessionInv'
<1> DEFINE S == abort.bound \ abort.launching
           rest == SetToSeq(S)
           more == [i \in DOMAIN rest |-> <<"settle", rest[i]>>]
<1>1. SessionTypeOK /\ QueueOK
  BY DEF SessionInv
<1>2. Quiet /\ stored' = stored /\ lost' = lost
  BY <1>1, ReadIsQuiet DEF AbortWaits
<1>3. /\ abort' = [abort EXCEPT !.at = "settling"] /\ abort.at = "waiting"
      /\ \A a \in abort.launching : launch[a] = "none"
      /\ queue' = queue \o more
      /\ task' = task /\ launch' = launch /\ session' = session /\ process' = process
  BY DEF AbortWaits
<1>4. S \subseteq Agents /\ IsFiniteSet(S)
  BY <1>1, FS_Subset, SessionAssumption DEF SessionTypeOK
<1>5. PICK n \in Nat :
        /\ rest \in [1..n -> S]
        /\ \A x \in S : \E i \in 1..n : rest[i] = x
  BY <1>4, SetToSeqIsComplete
<1> HIDE DEF rest
<1>6. /\ more \in Seq(Names \X Agents) /\ Len(more) = n
      /\ \A i \in 1..n : more[i] = <<"settle", rest[i]>>
  <2>1. \A i \in 1..n : rest[i] \in Agents
    BY <1>4, <1>5
  <2>2. "settle" \in Names
    BY DEF Names
  <2>3. DOMAIN rest = 1..n
    BY <1>5
  <2>4. more \in [1..n -> Names \X Agents] /\ \A i \in 1..n : more[i] = <<"settle", rest[i]>>
    <3> HIDE DEF Names
    <3> QED
      BY <2>1, <2>2, <2>3
  <2> HIDE DEF more
  <2> QED
    BY <2>4
<1> HIDE DEF more, S
<1>7. PICK m \in Nat : m = Len(queue)
  BY <1>1 DEF SessionTypeOK
<1>8. /\ queue' \in Seq(Names \X Agents) /\ Len(queue') = m + n
      /\ \A i \in 1..m : queue'[i] = queue[i]
      /\ \A i \in m + 1..m + n : queue'[i] = more[i - m]
  <2>1. queue \in Seq(Names \X Agents)
    BY <1>1 DEF SessionTypeOK
  <2> HIDE DEF Names
  <2> QED
    BY <1>3, <1>6, <1>7, <2>1, Concatenated
<1>9. ASSUME NEW i \in 1..m + n, queue'[i][1] \in DOMAIN Awaited
      PROVE  i \in 1..m /\ queue'[i] = queue[i]
  <2>1. CASE i \in 1..m
    BY <1>8, <2>1
  <2>2. CASE i \notin 1..m
    <3>1. i \in m + 1..m + n /\ i - m \in 1..n
      BY <1>7, <2>2
    <3>2. PICK op : op = <<"settle", rest[i - m]>>
      OBVIOUS
    <3>3. queue'[i] = op
      BY <1>6, <1>8, <3>1, <3>2
    <3>4. op[1] = "settle"
      BY <3>2, Pair
    <3> QED
      BY <1>9, <3>3, <3>4 DEF Awaited
  <2> QED
    BY <2>1, <2>2
<1>10. QueueOK'
  <2>1. ASSUME NEW i \in 1..m + n, queue'[i][1] \in DOMAIN Awaited
        PROVE  task'[queue'[i][2]].at = Awaited[queue'[i][1]]
    BY <1>1, <1>3, <1>7, <1>9, <2>1 DEF QueueOK
  <2>2. ASSUME NEW i \in 1..m + n, NEW j \in 1..m + n,
               queue'[i][1] \in DOMAIN Awaited, queue'[j][1] \in DOMAIN Awaited,
               queue'[i][2] = queue'[j][2]
        PROVE  i = j
    <3>1. i \in 1..m /\ queue'[i] = queue[i] /\ j \in 1..m /\ queue'[j] = queue[j]
      BY <1>9, <2>2
    <3> QED
      BY <1>1, <1>7, <2>2, <3>1 DEF QueueOK
  <2> QED
    BY <1>8, <2>1, <2>2 DEF QueueOK
<1>11. ASSUME NEW b \in Agents, Settles(b)
       PROVE  Settles(b)'
  <2>1. PICK i \in 1..m : queue[i] = <<"settle", b>>
    BY <1>7, <1>11 DEF Settles
  <2>2. i \in 1..Len(queue') /\ queue'[i] = <<"settle", b>>
    BY <1>7, <1>8, <2>1
  <2> QED
    BY <2>2 DEF Settles
<1>12. ASSUME NEW b \in S
       PROVE  Settles(b)'
  <2>1. PICK i \in 1..n : rest[i] = b
    BY <1>5
  <2>2. m + i \in m + 1..m + n /\ m + i \in 1..Len(queue') /\ (m + i) - m = i
    BY <1>5, <1>7, <1>8
  <2>3. queue'[m + i] = <<"settle", b>>
    BY <1>6, <1>8, <2>1, <2>2
  <2> QED
    BY <2>2, <2>3 DEF Settles
<1>13. SessionTypeOK'
  BY <1>1, <1>2, <1>3, <1>8 DEF SessionTypeOK
<1>14. ASSUME NEW a \in Agents
       PROVE  AgentOK(a)' /\ SettledOK(a)'
  <2>1. AgentOK(a) /\ SettledOK(a)
    BY DEF SessionInv
  <2>2. AgentOK(a)'
    BY <1>1, <1>3, <2>1 DEF AgentOK, AbortCalled, Found, SessionTypeOK
  <2>3. SettledOK(a)'
    BY <1>1, <1>2, <1>3, <1>12, <2>1
       DEF SettledOK, AbortCalled, Found, SessionTypeOK, Quiet, S
  <2> QED
    BY <2>2, <2>3
<1> QED
  BY <1>10, <1>13, <1>14 DEF SessionInv

\* A settlement ends: the attempt is settled, or the abortion has failed.
LEMMA SettlementEnds ==
  ASSUME SessionInv, NEW a \in Agents, NEW at, NEW broken \in BOOLEAN,
         InTurn("settle", a, at), Pop, Quiet,
         abort' = [abort EXCEPT !.failed = @ \/ broken],
         stored'.frozen \/ lost' \/ broken \/ ~IsActive(a)',
         UNCHANGED <<task, launch, session, process>>
  PROVE  SessionInv'
<1>1. SessionTypeOK /\ QueueOK /\ AgentOK(a) /\ SettledOK(a)
  BY DEF SessionInv
<1>2. OnlyTask(a) /\ task'[a].at = task[a].at
  BY DEF OnlyTask
<1>3. /\ QueueOK' /\ queue' \in Seq(Names \X Agents)
      /\ \A b \in Agents \ {a} : Settles(b) => Settles(b)'
  BY <1>1, <1>2, QueueShrinks DEF InTurn, Pop
<1>4. /\ abort'.at = abort.at /\ abort'.bound = abort.bound
      /\ abort'.launching = abort.launching
      /\ abort'.failed = (abort.failed \/ broken)
      /\ abort' \in [at : {"no", "stopping", "waiting", "settling", "over"},
                    bound : SUBSET Agents, launching : SUBSET Agents, failed : BOOLEAN]
  BY <1>1 DEF SessionTypeOK
<1>5. SessionTypeOK'
  BY <1>1, <1>3, <1>4 DEF Quiet, SessionTypeOK
<1>6. Apart(a)
  BY <1>1, <1>2, <1>3, <1>4 DEF Apart, Quiet, SessionTypeOK
<1>7. AgentOK(a)'
  BY <1>1, <1>4 DEF AgentOK, AbortCalled, Found
<1>8. SettledOK(a)'
  BY <1>1, <1>4 DEF SettledOK, AbortCalled, Found, Quiet, SessionTypeOK
<1> QED
  BY <1>3, <1>5, <1>6, <1>7, <1>8, OneAgentMoves

LEMMA SettleReadsKeeps ==
  ASSUME SessionInv, NEW a \in Agents, SettleReads(a)
  PROVE  SessionInv'
<1>1. SessionTypeOK
  BY DEF SessionInv
<1>2. CASE Read /\ ReadOn("write") /\ UNCHANGED abort
  BY <1>1, <1>2, ReadIsQuiet, OnlyTheStoreMoves DEF SettleReads, ReadOn, NextStep
<1>3. CASE Read /\ (stored.frozen \/ ~IsActive(a)) /\ Pop /\ UNCHANGED abort
  <2>1. Quiet /\ (stored'.frozen \/ ~IsActive(a)')
    BY <1>1, <1>3, ReadIsQuiet DEF IsActive, Attempt
  <2>2. abort' = [abort EXCEPT !.failed = @ \/ FALSE]
    BY <1>1, <1>3 DEF SessionTypeOK
  <2> QED
    BY <1>3, <2>1, <2>2, SettlementEnds DEF SettleReads
<1>4. CASE Unread /\ Pop /\ abort' = [abort EXCEPT !.failed = TRUE]
  <2>1. Quiet /\ lost'
    BY <1>1, <1>4, UnreadIsQuiet
  <2>2. abort' = [abort EXCEPT !.failed = @ \/ TRUE]
    BY <1>1, <1>4 DEF SessionTypeOK
  <2> QED
    BY <1>4, <2>1, <2>2, SettlementEnds DEF SettleReads
<1> QED
  BY <1>2, <1>3, <1>4 DEF SettleReads

LEMMA SettleWritesKeeps ==
  ASSUME SessionInv, NEW a \in Agents, SettleWrites(a)
  PROVE  SessionInv'
<1>1. SessionTypeOK /\ "canceled" \in Inactive
  BY DEF SessionInv, Inactive, AttemptStates
<1>2. PICK done \in BOOLEAN :
        /\ UpdateAttempt(a, step.saw, "canceled", done)
        /\ abort' = [abort EXCEPT !.failed = @ \/ (~done /\ ~stored'.frozen)]
  BY DEF SettleWrites
<1>3. Quiet /\ (done => ~IsActive(a)')
  BY <1>1, <1>2, UpdateIsQuiet
<1> DEFINE broken == ~done /\ ~stored'.frozen
<1>4. broken \in BOOLEAN /\ (stored'.frozen \/ lost' \/ broken \/ ~IsActive(a)')
  BY <1>3 DEF Quiet, Runs
<1>5. abort' = [abort EXCEPT !.failed = @ \/ broken]
  BY <1>2
<1> HIDE DEF broken
<1> QED
  BY <1>3, <1>4, <1>5, SettlementEnds DEF SettleWrites

LEMMA AbortEndsKeeps ==
  ASSUME SessionInv, AbortEnds
  PROVE  SessionInv'
<1>1. SessionTypeOK /\ QueueOK
  BY DEF SessionInv
<1>2. Quiet /\ stored' = stored /\ lost' = lost
  BY <1>1, ReadIsQuiet DEF AbortEnds
<1>3. /\ abort' = [abort EXCEPT !.at = "over"] /\ abort.at = "settling"
      /\ queue' = queue /\ task' = task /\ launch' = launch /\ session' = session
      /\ process' = process
  BY DEF AbortEnds
<1>4. ASSUME NEW a \in Agents
      PROVE  ~Settles(a)
  <2>1. SUFFICES ASSUME NEW i \in 1..Len(queue), queue[i] = <<"settle", a>>
                 PROVE  FALSE
    BY DEF Settles
  <2>2. PICK op : op = <<"settle", a>>
    OBVIOUS
  <2>3. op[1] = "settle" /\ queue[i] = op
    BY <2>1, <2>2, Pair
  <2>4. i \in DOMAIN queue
    BY <1>1, <2>1 DEF SessionTypeOK
  <2> QED
    BY <2>3, <2>4 DEF AbortEnds
<1>5. SessionTypeOK'
  BY <1>1, <1>2, <1>3 DEF SessionTypeOK
<1>6. QueueOK'
  BY <1>1, <1>3 DEF QueueOK
<1>7. ASSUME NEW a \in Agents
      PROVE  AgentOK(a)' /\ SettledOK(a)'
  <2>1. AgentOK(a) /\ SettledOK(a)
    BY DEF SessionInv
  <2>2. AgentOK(a)'
    BY <1>1, <1>3, <2>1 DEF AgentOK, AbortCalled, Found, SessionTypeOK
  <2>3. SettledOK(a)'
    BY <1>1, <1>2, <1>3, <1>4, <2>1
       DEF SettledOK, AgentOK, AbortCalled, Found, SessionTypeOK, Quiet
  <2> QED
    BY <2>2, <2>3
<1> QED
  BY <1>5, <1>6, <1>7 DEF SessionInv

-----------------------------------------------------------------------------
(* What the invariant gives *)

LEMMA SessionInvInit ==
  ASSUME SessionInit
  PROVE  SessionInv
<1>1. SessionTypeOK
  <2>1. stored \in Runs
    BY DEF SessionInit, Runs
  <2>2. task \in [Agents -> Tasks]
    <3>1. "idle" \in Places /\ "other" \in Errors
      BY DEF Places, Errors
    <3>2. Rest("idle") \in Tasks
      BY <3>1, Remembers DEF Rest
    <3> QED
      BY <3>2 DEF SessionInit
  <2>3. queue \in Seq(Names \X Agents)
    BY DEF SessionInit
  <2> QED
    BY <2>1, <2>2, <2>3 DEF SessionInit, SessionTypeOK
<1>2. QueueOK
  BY DEF SessionInit, QueueOK
<1>3. \A a \in Agents : AgentOK(a) /\ SettledOK(a)
  BY
     DEF SessionInit, AgentOK, SettledOK, AbortCalled, Found, IsActive, Attempt, Rest,
         Launching
<1> QED
  BY <1>1, <1>2, <1>3 DEF SessionInv

LEMMA SessionInvStep ==
  ASSUME SessionInv, [SessionNext]_sessionVars
  PROVE  SessionInv'
<1>1. CASE UNCHANGED sessionVars
  <2>1. Quiet
    BY <1>1, StoreStays DEF SessionInv, sessionVars
  <2> QED
    BY <1>1, <2>1, OnlyTheStoreMoves DEF sessionVars, supervisor
<1>2. ASSUME NEW a \in Agents,
             \/ Begin(a) \/ Executes(a) \/ ReadFails(a) \/ PromptFails(a)
             \/ NoticeExit(a) \/ Emit(a) \/ Exits(a)
      PROVE  SessionInv'
  BY <1>2, BeginKeeps, CheckOwnerKeeps, StartAttemptKeeps, ConnectKeeps, WorkKeeps,
     StopChildKeeps, RereadKeeps, FetchKeeps, HaltKeeps, ReadFailsKeeps, PromptFailsKeeps,
     NoticeExitKeeps, EmitKeeps, ExitsKeeps
     DEF Executes
<1>3. CASE QueueRuns
  <2>1. PICK a \in Agents :
    \/ BeginBind(a) \/ Bind(a) \/ Launched(a) \/ ReadFailure(a) \/ WriteFailure(a)
    \/ AdmitReads(a) \/ Admit(a) \/ FinishReads(a) \/ FinishAuthorizes(a) \/ FinishWrites(a)
    \/ ExitedReads(a) \/ ExitedWrites(a) \/ ActivityReads(a) \/ ActivityWrites(a)
    \/ SettleReads(a) \/ SettleWrites(a)
    BY <1>3 DEF QueueRuns
  <2> QED
    BY <2>1, BeginBindKeeps, BindKeeps, LaunchedKeeps, ReadFailureKeeps, WriteFailureKeeps,
       AdmitReadsKeeps, AdmitKeeps, FinishReadsKeeps, FinishAuthorizesKeeps, FinishWritesKeeps,
       NoticesKeep, SettleReadsKeeps, SettleWritesKeeps
<1>4. CASE CallAbort \/ Aborts \/ OthersCommit
  BY <1>4, CallAbortKeeps, AbortStopsKeeps, AbortWaitsKeeps, AbortEndsKeeps, OthersCommitKeeps
     DEF Aborts
<1> QED
  BY <1>1, <1>2, <1>3, <1>4 DEF SessionNext

\* When abortRun has ended, nothing that it found is left at work, whichever of
\* the run's sessions were being launched, bound, completed or given up, and
\* whatever else failed or was committed meanwhile, for every set of agents
\* and any number of disturbances (phase-session.ts:176-232, 361-398, 454-505).
THEOREM AbortsAreThorough == SessionSpec => []AbortIsThorough
<1>1. SessionInit => SessionInv
  BY SessionInvInit
<1>2. SessionInv /\ [SessionNext]_sessionVars => SessionInv'
  BY SessionInvStep
<1>3. SessionInv => AbortIsThorough
  <2>1. SUFFICES ASSUME SessionInv, abort.at = "over", NEW a \in Agents
                 PROVE  /\ process[a] # "alive" /\ launch[a] = "none" /\ ~session[a]
                        /\ ~abort.failed /\ ~stored.frozen /\ ~lost /\ a \in Found => ~IsActive(a)
    BY DEF AbortIsThorough, Found, SessionInv, SessionTypeOK
  <2>2. AgentOK(a) /\ SettledOK(a)
    BY <2>1 DEF SessionInv
  <2> QED
    BY <2>1, <2>2 DEF AgentOK, SettledOK, AbortCalled
<1> QED
  BY <1>1, <1>2, <1>3, PTL DEF SessionSpec

-----------------------------------------------------------------------------
(* What an executor waits for is queued, and the queue can go on *)

Queued(x) == \E i \in 1..Len(queue) : queue[i] = x

\* The operation that an executor waits for, and the stages of each.
Operation ==
  [binding |-> "bind", drain |-> "drained", failed |-> "fail",
   admitting |-> "admit", finishing |-> "finish"]

Stages ==
  [bind     |-> {"first", "write"},              drained  |-> {"first"},
   fail     |-> {"first", "write"},              admit    |-> {"first", "attempt"},
   finish   |-> {"first", "authorize", "write"}, exited   |-> {"first", "write"},
   activity |-> {"first", "write"},              settle   |-> {"first", "write"}]

StepOK ==
  step.at \in IF queue = <<>> THEN {"first"} ELSE Stages[Head(queue)[1]]

\* The places an executor is at only with a child that was started.
WithChild ==
  {"connect", "binding", "work", "drain", "reread", "admitting", "closing"}

WaitOK(a) ==
  /\ task[a].at \in Waiting => Queued(<<Operation[task[a].at], a>>)
  /\ task[a].at \in WithChild => process[a] # "none"

DueInv == StepOK /\ \A a \in Agents : WaitOK(a)

LEMMA TaskMoves ==
  ASSUME SessionTypeOK, NEW a \in Agents, NEW at,
         Goes(a, at) \/ task' = [task EXCEPT ![a] = Rest(at)]
  PROVE  OnlyTask(a) /\ task'[a].at = at
BY DEF SessionTypeOK, Tasks, Rest, Goes, OnlyTask

LEMMA TaskEnds ==
  ASSUME SessionTypeOK, NEW a \in Agents, NEW error, Over(a) \/ Fails(a, error)
  PROVE  OnlyTask(a) /\ task'[a].at \in {"over", "stopping"}
<1>1. CASE Over(a)
  BY <1>1, TaskMoves DEF Over
<1>2. CASE Fails(a, error)
  BY <1>2 DEF Fails, SessionTypeOK, OnlyTask
<1> QED
  BY <1>1, <1>2

LEMMA HeadIs ==
  ASSUME SessionTypeOK, NEW a, NEW name, NEW at, InTurn(name, a, at)
  PROVE  /\ queue # <<>> /\ Head(queue) = <<name, a>> /\ Head(queue)[1] = name
         /\ step.at = at
BY DEF InTurn

\* The queue grows at its end.
LEMMA AppendedIsQueued ==
  ASSUME SessionTypeOK, StepOK, NEW a \in Agents, NEW name \in Names,
         queue' = Append(queue, <<name, a>>), step' = step
  PROVE  /\ StepOK' /\ Queued(<<name, a>>)'
         /\ \A x : Queued(x) => Queued(x)'
<1>1. PICK q : q = queue /\ q \in Seq(Names \X Agents) /\ Len(q) \in Nat
  BY DEF SessionTypeOK
<1>2. PICK y : y = <<name, a>> /\ y \in Names \X Agents /\ y[1] = name
  <2>1. PICK y : y = <<name, a>>
    OBVIOUS
  <2>2. y \in Names \X Agents
    BY <2>1
  <2>3. y[1] = name
    BY <2>1, Pair
  <2> QED
    BY <2>1, <2>2, <2>3
<1>3. /\ queue' = Append(q, y) /\ Len(queue') = Len(q) + 1 /\ queue'[Len(q) + 1] = y
      /\ \A i \in 1..Len(q) : queue'[i] = q[i]
  BY <1>1, <1>2
<1>4. Queued(<<name, a>>)'
  BY <1>1, <1>2, <1>3 DEF Queued
<1>5. ASSUME NEW x, Queued(x) PROVE Queued(x)'
  BY <1>1, <1>3, <1>5 DEF Queued
<1>6. StepOK'
  <2>1. queue' # <<>>
    BY <1>1, <1>3
  <2>2. CASE queue = <<>>
    <3>1. Head(queue') = y
      BY <1>1, <1>2, <2>2
    <3>2. "first" \in Stages[name]
      BY DEF Stages, Names, Awaited
    <3> QED
      BY <1>2, <2>1, <2>2, <3>1, <3>2 DEF StepOK
  <2>3. CASE queue # <<>>
    <3>1. Head(queue') = Head(queue)
      BY <1>1, <1>2, <1>3, <2>3
    <3> QED
      BY <2>1, <2>3, <3>1 DEF StepOK
  <2> QED
    BY <2>2, <2>3
<1> QED
  BY <1>4, <1>5, <1>6

\* The queue loses its head.
LEMMA OnlyTheHeadGoes ==
  ASSUME SessionTypeOK, SessionTypeOK', queue # <<>>, Pop
  PROVE  /\ StepOK'
         /\ \A x : Queued(x) /\ x # Head(queue) => Queued(x)'
<1>1. PICK q : q = queue /\ q \in Seq(Names \X Agents) /\ Len(q) \in Nat /\ q # <<>>
  BY DEF SessionTypeOK
<1>2. /\ queue' = Tail(q) /\ Len(queue') = Len(q) - 1 /\ Head(queue) = q[1]
      /\ \A i \in 1..(Len(q) - 1) : queue'[i] = q[i + 1]
  BY <1>1 DEF Pop
<1>3. ASSUME NEW x, Queued(x), x # Head(queue) PROVE Queued(x)'
  <2>1. PICK i \in 1..Len(q) : q[i] = x
    BY <1>1, <1>3 DEF Queued
  <2>2. i - 1 \in 1..(Len(q) - 1) /\ (i - 1) + 1 = i
    BY <1>1, <1>2, <1>3, <2>1
  <2>3. queue'[i - 1] = x
    BY <1>2, <2>1, <2>2
  <2> QED
    BY <1>2, <2>2, <2>3 DEF Queued
<1>4. StepOK'
  <2>1. step'.at = "first"
    BY DEF Pop, Idle
  <2>2. ASSUME queue' # <<>> PROVE "first" \in Stages[Head(queue')[1]]
    <3>1. Head(queue') \in Names \X Agents
      BY <2>2 DEF SessionTypeOK
    <3>2. Head(queue')[1] \in Names
      BY <3>1
    <3> QED
      BY <3>2 DEF Stages, Names, Awaited
  <2> QED
    BY <2>1, <2>2 DEF StepOK
<1> QED
  BY <1>3, <1>4

\* One executor moves.
LEMMA OneMoves ==
  ASSUME DueInv, StepOK', NEW a \in Agents, OnlyTask(a), WaitOK(a)',
         \A b \in Agents \ {a} : process[b] # "none" => process'[b] # "none",
         \A b \in Agents \ {a} : \A op : Queued(<<op, b>>) => Queued(<<op, b>>)'
  PROVE  DueInv'
<1>1. ASSUME NEW b \in Agents \ {a} PROVE WaitOK(b)'
  BY <1>1 DEF DueInv, WaitOK, OnlyTask
<1> QED
  BY <1>1 DEF DueInv

\* The queue stays, and the executor waits for nothing new.
LEMMA Stays ==
  ASSUME SessionTypeOK, DueInv, NEW a \in Agents, OnlyTask(a),
         queue' = queue, step' = step,
         task'[a].at \notin Waiting \/ task'[a].at = task[a].at,
         task'[a].at \in WithChild => process'[a] # "none",
         \A b \in Agents \ {a} : process[b] # "none" => process'[b] # "none"
  PROVE  DueInv'
<1>1. \A x : Queued(x) <=> Queued(x)'
  BY DEF Queued
<1>2. StepOK'
  BY DEF DueInv, StepOK
<1>3. WaitOK(a)'
  BY <1>1 DEF DueInv, WaitOK
<1> QED
  BY <1>1, <1>2, <1>3, OneMoves

\* An operation is queued, which the executor waits for if for any.
LEMMA Grows ==
  ASSUME SessionTypeOK, DueInv, NEW a \in Agents, NEW name \in Names, OnlyTask(a),
         queue' = Append(queue, <<name, a>>), step' = step,
         \/ task'[a].at = task[a].at
         \/ task'[a].at \in Waiting /\ name = Operation[task'[a].at],
         task'[a].at \in WithChild => process[a] # "none",
         process' = process \/ process' = [process EXCEPT ![a] = process'[a]],
         process[a] # "none" => process'[a] # "none"
  PROVE  DueInv'
<1>1. /\ StepOK' /\ Queued(<<name, a>>)'
      /\ \A x : Queued(x) => Queued(x)'
  BY AppendedIsQueued DEF DueInv
<1>2. WaitOK(a)'
  BY <1>1 DEF DueInv, WaitOK
<1>3. \A b \in Agents \ {a} : process[b] # "none" => process'[b] # "none"
  BY DEF SessionTypeOK
<1> QED
  BY <1>1, <1>2, <1>3, OneMoves

\* The operation at the head goes on.
LEMMA GoesOn ==
  ASSUME SessionTypeOK, DueInv, NEW a \in Agents, NEW name, NEW at, InTurn(name, a, at),
         queue' = queue, step'.at \in Stages[name], UNCHANGED <<task, process>>
  PROVE  DueInv'
<1>1. \A x : Queued(x) <=> Queued(x)'
  BY DEF Queued
<1>2. StepOK'
  BY HeadIs DEF StepOK
<1>3. \A b \in Agents : WaitOK(b)'
  BY <1>1 DEF DueInv, WaitOK
<1> QED
  BY <1>2, <1>3 DEF DueInv

\* The operation at the head ends, and its executor waits no more.
LEMMA Ended ==
  ASSUME SessionTypeOK, SessionTypeOK', DueInv, NEW a \in Agents, NEW name, NEW at,
         InTurn(name, a, at), Pop, OnlyTask(a),
         \/ task'[a].at \notin Waiting
         \/ name \in {"exited", "activity", "settle"} /\ task'[a].at = task[a].at,
         task'[a].at \in WithChild => process[a] # "none",
         process' = process
  PROVE  DueInv'
<1>1. queue # <<>> /\ Head(queue) = <<name, a>>
  BY HeadIs
<1>2. StepOK' /\ \A x : Queued(x) /\ x # <<name, a>> => Queued(x)'
  BY <1>1, OnlyTheHeadGoes
<1>3. \A b \in Agents \ {a} : \A op : Queued(<<op, b>>) => Queued(<<op, b>>)'
  BY <1>2
<1>4. WaitOK(a)'
  <2>1. PICK place : place = task'[a].at
    OBVIOUS
  <2>2. ASSUME place \in Waiting
        PROVE  Queued(<<Operation[place], a>>)'
    <3>1. place = task[a].at /\ name \in {"exited", "activity", "settle"}
      BY <2>1, <2>2
    <3>2. Operation[place] # name
      BY <2>2, <3>1 DEF Operation, Waiting
    <3>3. Queued(<<Operation[place], a>>)
      BY <2>2, <3>1 DEF DueInv, WaitOK
    <3> QED
      BY <1>2, <3>2, <3>3
  <2> QED
    BY <2>1, <2>2 DEF WaitOK
<1> QED
  BY <1>2, <1>3, <1>4, OneMoves

\* The steps of an executor.
LEMMA ExecutorIsDue ==
  ASSUME SessionTypeOK, SessionTypeOK', QueueOK, DueInv, NEW a \in Agents,
         \/ Begin(a) \/ CheckOwner(a) \/ ReadFails(a) \/ StartAttempt(a) \/ Connect(a)
         \/ Work(a) \/ PromptFails(a) \/ StopChild(a) \/ Reread(a) \/ Fetch(a) \/ Halt(a)
  PROVE  DueInv'
<1>0. /\ WaitOK(a)
      /\ task \in [Agents -> Tasks] /\ process \in [Agents -> {"none", "alive", "exited"}]
  BY DEF DueInv, SessionTypeOK
<1>1. CASE Begin(a)
  <2>1. OnlyTask(a) /\ task'[a].at \in {"over", "stopping", "start"}
    <3>1. CASE AbortCalled \/ session[a]
      BY <1>1, <3>1, TaskEnds DEF Begin
    <3>2. CASE ~(AbortCalled \/ session[a])
      BY <1>0, <1>1, <3>2 DEF Begin, OnlyTask
    <3> QED
      BY <3>1, <3>2
  <2>2. UNCHANGED <<queue, step, process>>
    BY <1>1 DEF Begin
  <2> QED
    BY <2>1, <2>2, Stays DEF Waiting, WithChild
<1>2. CASE CheckOwner(a) \/ ReadFails(a)
  <2>1. OnlyTask(a) /\ task'[a].at \in {"over", "stopping"}
    BY <1>2, TaskEnds DEF CheckOwner, ReadFails
  <2>2. UNCHANGED <<queue, step, process>>
    BY <1>2 DEF CheckOwner, ReadFails
  <2> QED
    BY <2>1, <2>2, Stays DEF Waiting, WithChild
<1>3. CASE StartAttempt(a)
  <2>1. \/ Over(a) /\ process' = process
        \/ Fails(a, "other") /\ process' = [process EXCEPT ![a] = "none"]
        \/ task' = [task EXCEPT ![a] = Rest("connect")]
             /\ process' = [process EXCEPT ![a] = "alive"]
    BY <1>3 DEF StartAttempt
  <2>2. OnlyTask(a) /\ task'[a].at \in {"over", "stopping", "connect"}
    BY <2>1, TaskEnds, TaskMoves
  <2>3. task'[a].at = "connect" => process'[a] = "alive"
    <3>1. Over(a) \/ Fails(a, "other") => task'[a].at # "connect"
      BY TaskEnds
    <3> QED
      BY <1>0, <2>1, <3>1
  <2>4. \A b \in Agents \ {a} : process[b] # "none" => process'[b] # "none"
    BY <1>0, <2>1
  <2>5. UNCHANGED <<queue, step>>
    BY <1>3 DEF StartAttempt
  <2> QED
    BY <2>2, <2>3, <2>4, <2>5, Stays DEF Waiting, WithChild
<1>4. CASE Connect(a) \/ Work(a) \/ PromptFails(a)
  <2>1. UNCHANGED process
    BY <1>4 DEF Connect, Work, PromptFails
  <2>2. CASE \E error : Fails(a, error) /\ UNCHANGED <<queue, step>>
    <3>1. OnlyTask(a) /\ task'[a].at \in {"over", "stopping"}
      BY <2>2, TaskEnds
    <3> QED
      BY <2>1, <2>2, <3>1, Stays DEF Waiting, WithChild
  <2>3. CASE task[a].at = "connect" /\ Goes(a, "binding") /\ Enqueue("bind", a)
    <3>1. OnlyTask(a) /\ task'[a].at = "binding"
      BY <2>3, TaskMoves
    <3>2. process[a] # "none" /\ "bind" \in Names
      BY <1>0, <2>3 DEF WaitOK, WithChild, Names, Awaited
    <3> QED
      BY <2>1, <2>3, <3>1, <3>2, Grows DEF Enqueue, Waiting, Operation
  <2>4. CASE task[a].at = "work" /\ Goes(a, "drain") /\ Enqueue("drained", a)
    <3>1. OnlyTask(a) /\ task'[a].at = "drain"
      BY <2>4, TaskMoves
    <3>2. process[a] # "none" /\ "drained" \in Names
      BY <1>0, <2>4 DEF WaitOK, WithChild, Names, Awaited
    <3> QED
      BY <2>1, <2>4, <3>1, <3>2, Grows DEF Enqueue, Waiting, Operation
  <2> QED
    BY <1>4, <2>2, <2>3, <2>4 DEF Connect, Work, PromptFails, FailsOf
<1>5. CASE StopChild(a) \/ Halt(a)
  <2>1. PICK to \in {"failed", "finishing"} :
          Goes(a, to) /\ Enqueue(Operation[to], a)
    BY <1>5 DEF StopChild, Halt, Operation
  <2>2. OnlyTask(a) /\ task'[a].at = to
    BY <2>1, TaskMoves
  <2>3. /\ process' = [process EXCEPT ![a] = process'[a]]
        /\ process[a] # "none" => process'[a] # "none"
    BY <1>0, <1>5 DEF StopChild, Halt
  <2>4. Operation[to] \in Names /\ to \in Waiting /\ to \notin WithChild
    BY DEF Operation, Names, Awaited, Waiting, WithChild
  <2> QED
    BY <2>1, <2>2, <2>3, <2>4, Grows DEF Enqueue
<1>6. CASE Reread(a)
  <2>1. CASE Over(a) /\ UNCHANGED <<queue, step, process>>
    <3>1. OnlyTask(a) /\ task'[a].at \in {"over", "stopping"}
      BY <2>1, TaskEnds
    <3> QED
      BY <2>1, <3>1, Stays DEF Waiting, WithChild
  <2>2. CASE /\ task' = [task EXCEPT ![a].at = "admitting", ![a].saw = stored.version]
             /\ Enqueue("admit", a) /\ UNCHANGED process
    <3>1. OnlyTask(a) /\ task'[a].at = "admitting"
      BY <1>0, <2>2 DEF OnlyTask, Tasks
    <3>2. process[a] # "none" /\ "admit" \in Names
      BY <1>0, <1>6 DEF Reread, WaitOK, WithChild, Names, Awaited
    <3>3. queue' = Append(queue, <<"admit", a>>) /\ step' = step /\ process' = process
      BY <2>2 DEF Enqueue
    <3>4. task'[a].at \in Waiting /\ "admit" = Operation[task'[a].at]
      BY <3>1 DEF Waiting, Operation
    <3> QED
      BY <3>1, <3>2, <3>3, <3>4, Grows
  <2> QED
    BY <1>6, <2>1, <2>2 DEF Reread
<1>7. CASE Fetch(a)
  <2>1. /\ \E error : task' = [task EXCEPT ![a].at = "halting", ![a].error = error]
        /\ UNCHANGED <<queue, step, process>>
    BY <1>7 DEF Fetch, Fetched, supervisor
  <2>2. OnlyTask(a) /\ task'[a].at = "halting"
    BY <1>0, <2>1 DEF OnlyTask, Tasks
  <2> QED
    BY <2>1, <2>2, Stays DEF Waiting, WithChild
<1> QED
  BY <1>1, <1>2, <1>3, <1>4, <1>5, <1>6, <1>7

\* The operations of the queue.
LEMMA OperationIsDue ==
  ASSUME SessionTypeOK, SessionTypeOK', QueueOK, DueInv, NEW a \in Agents,
         \/ BeginBind(a) \/ Bind(a) \/ Launched(a) \/ ReadFailure(a) \/ WriteFailure(a)
         \/ AdmitReads(a) \/ Admit(a) \/ FinishReads(a) \/ FinishAuthorizes(a) \/ FinishWrites(a)
         \/ ExitedReads(a) \/ ExitedWrites(a) \/ ActivityReads(a) \/ ActivityWrites(a)
         \/ SettleReads(a) \/ SettleWrites(a)
  PROVE  DueInv'
<1>0. /\ WaitOK(a) /\ process' = process
      /\ task \in [Agents -> Tasks] /\ process \in [Agents -> {"none", "alive", "exited"}]
  BY DEF DueInv, SessionTypeOK, BeginBind, Bind, Launched, ReadFailure, WriteFailure, AdmitReads,
         Admit, FinishReads, FinishAuthorizes, FinishWrites, ExitedReads, ExitedWrites,
         ActivityReads, ActivityWrites, SettleReads, SettleWrites
<1>1. ASSUME NEW name, NEW at, InTurn(name, a, at), queue' = queue, step'.at \in Stages[name],
             task' = task
      PROVE  DueInv'
  BY <1>0, <1>1, GoesOn
<1>2. ASSUME NEW name, NEW at, InTurn(name, a, at), Pop, OnlyTask(a),
             task'[a].at \notin Waiting \cup WithChild
      PROVE  DueInv'
  BY <1>0, <1>2, Ended
<1>3. ASSUME NEW name \in {"exited", "activity", "settle"}, NEW at, InTurn(name, a, at), Pop,
             task' = task
      PROVE  DueInv'
  <2>1. OnlyTask(a) /\ task'[a].at = task[a].at
    BY <1>3 DEF OnlyTask
  <2>2. task'[a].at \in WithChild => process[a] # "none"
    BY <1>0, <1>3 DEF WaitOK
  <2> QED
    BY <1>0, <1>3, <2>1, <2>2, Ended
<1>4. CASE BeginBind(a)
  BY <1>1, <1>4 DEF BeginBind, NextStep, Stages
<1>5. CASE Bind(a)
  <2>1. InTurn("bind", a, "write") /\ Pop
    BY <1>5 DEF Bind
  <2>2. task[a].at = "binding"
    BY <2>1, HeadIsAwaited DEF Awaited
  <2>3. CASE Goes(a, "work")
    <3>1. OnlyTask(a) /\ task'[a].at = "work"
      BY <2>3, TaskMoves
    <3>2. process[a] # "none"
      BY <1>0, <2>2 DEF WaitOK, WithChild
    <3> QED
      BY <1>0, <2>1, <3>1, <3>2, Ended DEF Waiting
  <2>4. CASE Fails(a, "other")
    BY <1>2, <2>1, <2>4, TaskEnds DEF Waiting, WithChild
  <2> QED
    BY <1>5, <2>3, <2>4 DEF Bind
<1>6. CASE Launched(a)
  <2>1. InTurn("drained", a, "first") /\ Pop
    BY <1>6 DEF Launched
  <2>2. task[a].at = "drain"
    BY <2>1, HeadIsAwaited DEF Awaited
  <2>3. CASE Goes(a, "reread")
    <3>1. OnlyTask(a) /\ task'[a].at = "reread"
      BY <2>3, TaskMoves
    <3>2. process[a] # "none"
      BY <1>0, <2>2 DEF WaitOK, WithChild
    <3> QED
      BY <1>0, <2>1, <3>1, <3>2, Ended DEF Waiting
  <2>4. CASE Fails(a, "other")
    BY <1>2, <2>1, <2>4, TaskEnds DEF Waiting, WithChild
  <2> QED
    BY <1>6, <2>3, <2>4 DEF Launched
<1>7. CASE ReadFailure(a) \/ WriteFailure(a)
  <2>1. CASE \E at, again : InTurn("fail", a, at) /\ LaunchEnds(a, again)
    <3>1. PICK at : InTurn("fail", a, at) /\ \E again : LaunchEnds(a, again)
      BY <2>1
    <3>2. PICK to \in {"again", "over"} : task' = [task EXCEPT ![a] = Rest(to)] /\ Pop
      BY <3>1 DEF LaunchEnds
    <3>3. OnlyTask(a) /\ task'[a].at = to
      BY <3>2, TaskMoves
    <3> QED
      BY <1>2, <3>1, <3>2, <3>3 DEF Waiting, WithChild
  <2>2. CASE InTurn("fail", a, "first") /\ ReadOn("write") /\ UNCHANGED task
    BY <1>1, <2>2 DEF ReadOn, NextStep, Stages
  <2> QED
    BY <1>7, <2>1, <2>2 DEF ReadFailure, WriteFailure
<1>8. CASE AdmitReads(a)
  <2>1. CASE NextStep("attempt", 0) /\ UNCHANGED task
    BY <1>1, <1>8, <2>1 DEF AdmitReads, NextStep, Stages
  <2>2. CASE Over(a) /\ Pop
    BY <1>2, <1>8, <2>2, TaskEnds DEF AdmitReads, Waiting, WithChild
  <2> QED
    BY <1>8, <2>1, <2>2 DEF AdmitReads
<1>9. CASE Admit(a)
  <2>1. InTurn("admit", a, "attempt") /\ Pop
    BY <1>9 DEF Admit
  <2>2. task[a].at = "admitting"
    BY <2>1, HeadIsAwaited DEF Awaited
  <2>3. CASE task' = [task EXCEPT ![a] = Rest("closing")]
    <3>1. OnlyTask(a) /\ task'[a].at = "closing"
      BY <2>3, TaskMoves
    <3>2. process[a] # "none"
      BY <1>0, <2>2 DEF WaitOK, WithChild
    <3> QED
      BY <1>0, <2>1, <3>1, <3>2, Ended DEF Waiting
  <2>4. CASE Over(a)
    BY <1>2, <2>1, <2>4, TaskEnds DEF Waiting, WithChild
  <2> QED
    BY <1>9, <2>3, <2>4 DEF Admit
<1>10. ASSUME NEW at, InTurn("finish", a, at), FinishFails(a)
       PROVE  DueInv'
  BY <1>2, <1>10, TaskEnds DEF FinishFails, Release, Waiting, WithChild
<1>11. CASE FinishReads(a)
  <2>1. CASE ReadOn("authorize") /\ UNCHANGED task
    BY <1>1, <1>11, <2>1 DEF FinishReads, ReadOn, NextStep, Stages
  <2> QED
    BY <1>10, <1>11, <2>1 DEF FinishReads
<1>12. CASE FinishAuthorizes(a)
  <2>1. CASE ReadOn("write") /\ UNCHANGED task
    BY <1>1, <1>12, <2>1 DEF FinishAuthorizes, ReadOn, NextStep, Stages
  <2> QED
    BY <1>10, <1>12, <2>1 DEF FinishAuthorizes
<1>13. CASE FinishWrites(a)
  <2>1. CASE \E to \in {"again", "over"} : task' = [task EXCEPT ![a] = Rest(to)] /\ Release(a)
    <3>1. PICK to \in {"again", "over"} : task' = [task EXCEPT ![a] = Rest(to)] /\ Release(a)
      BY <2>1
    <3>2. OnlyTask(a) /\ task'[a].at = to
      BY <3>1, TaskMoves
    <3> QED
      BY <1>2, <1>13, <3>1, <3>2 DEF FinishWrites, Release, Waiting, WithChild
  <2> QED
    BY <1>10, <1>13, <2>1 DEF FinishWrites
<1>14. CASE ExitedReads(a) \/ ActivityReads(a) \/ SettleReads(a)
  <2>1. PICK name \in {"exited", "activity", "settle"} : InTurn(name, a, "first") /\ task' = task
    BY <1>14 DEF ExitedReads, ActivityReads, SettleReads
  <2>2. ReadOn("write") \/ Pop
    BY <1>14 DEF ExitedReads, ActivityReads, SettleReads
  <2>3. "write" \in Stages[name]
    BY DEF Stages
  <2> QED
    BY <1>1, <1>3, <2>1, <2>2, <2>3 DEF ReadOn, NextStep
<1>15. CASE ExitedWrites(a) \/ ActivityWrites(a) \/ SettleWrites(a)
  <2>1. PICK name \in {"exited", "activity", "settle"} :
          InTurn(name, a, "write") /\ task' = task /\ Pop
    BY <1>15 DEF ExitedWrites, ActivityWrites, SettleWrites
  <2> QED
    BY <1>3, <2>1
<1> QED
  BY <1>4, <1>5, <1>6, <1>7, <1>8, <1>9, <1>11, <1>12, <1>13, <1>14, <1>15

LEMMA DueStep ==
  ASSUME SessionInv, SessionInv', DueInv, [SessionNext]_sessionVars
  PROVE  DueInv'
<1>0. /\ SessionTypeOK /\ SessionTypeOK' /\ QueueOK
      /\ task \in [Agents -> Tasks] /\ process \in [Agents -> {"none", "alive", "exited"}]
  BY DEF SessionInv, SessionTypeOK
<1>1. ASSUME NEW a \in Agents,
             Begin(a) \/ Executes(a) \/ ReadFails(a) \/ PromptFails(a)
      PROVE  DueInv'
  BY <1>0, <1>1, ExecutorIsDue DEF Executes
<1>2. CASE QueueRuns
  BY <1>0, <1>2, OperationIsDue DEF QueueRuns
<1>3. ASSUME NEW a \in Agents, NoticeExit(a) \/ Emit(a)
      PROVE  DueInv'
  <2>1. PICK name \in {"exited", "activity"} :
          queue' = Append(queue, <<name, a>>) /\ step' = step
    BY <1>3 DEF NoticeExit, Emit, Enqueue, Surroundings
  <2>2. UNCHANGED <<task, process>>
    BY <1>3 DEF NoticeExit, Emit, Surroundings
  <2>3. OnlyTask(a) /\ task'[a].at = task[a].at
    BY <2>2 DEF OnlyTask
  <2>4. task'[a].at \in WithChild => process[a] # "none"
    BY <2>3 DEF DueInv, WaitOK
  <2>5. name \in Names
    BY DEF Names
  <2> QED
    BY <1>0, <2>1, <2>2, <2>3, <2>4, <2>5, Grows
<1>4. ASSUME UNCHANGED <<queue, step, task>>,
             \A a \in Agents : process[a] # "none" => process'[a] # "none"
      PROVE  DueInv'
  <2>1. \A x : Queued(x) <=> Queued(x)'
    BY <1>4 DEF Queued
  <2>2. StepOK'
    BY <1>4 DEF DueInv, StepOK
  <2>3. \A a \in Agents : WaitOK(a)'
    BY <1>4, <2>1 DEF DueInv, WaitOK
  <2> QED
    BY <2>2, <2>3 DEF DueInv
<1>5. ASSUME NEW a \in Agents, Exits(a)
      PROVE  DueInv'
  BY <1>0, <1>4, <1>5 DEF Exits, Surroundings
<1>6. CASE CallAbort \/ AbortEnds \/ OthersCommit \/ UNCHANGED sessionVars
  BY <1>4, <1>6 DEF CallAbort, AbortEnds, OthersCommit, Surroundings, sessionVars, supervisor
<1>7. CASE AbortStops
  BY <1>0, <1>4, <1>7 DEF AbortStops
<1>8. CASE AbortWaits
  <2>1. PICK more \in Seq(Names \X Agents) : queue' = queue \o more
    <3> DEFINE rest == SetToSeq(abort.bound \ abort.launching)
    <3>1. queue' = queue \o [i \in DOMAIN rest |-> <<"settle", rest[i]>>]
      BY <1>8 DEF AbortWaits
    <3>2. rest \in Seq(Agents)
      <4>1. IsFiniteSet(abort.bound \ abort.launching) /\ abort.bound \ abort.launching \subseteq Agents
        BY <1>0, FS_Subset, SessionAssumption DEF SessionTypeOK
      <4> HIDE DEF rest
      <4> QED
        BY <4>1, SetToSeqIsComplete DEF rest
    <3> HIDE DEF rest
    <3>3. [i \in DOMAIN rest |-> <<"settle", rest[i]>>] \in Seq(Names \X Agents)
      BY <3>2 DEF Names
    <3> QED
      BY <3>1, <3>3
  <2>2. UNCHANGED <<step, task, process>>
    BY <1>8 DEF AbortWaits
  <2>3. PICK q : q = queue /\ q \in Seq(Names \X Agents) /\ Len(q) \in Nat
    BY <1>0 DEF SessionTypeOK
  <2>4. /\ queue' = q \o more /\ Len(queue') = Len(q) + Len(more) /\ Len(more) \in Nat
        /\ \A i \in 1..Len(q) : queue'[i] = q[i]
    BY <2>1, <2>3
  <2>5. ASSUME NEW x, Queued(x) PROVE Queued(x)'
    BY <2>3, <2>4, <2>5 DEF Queued
  <2>6. StepOK'
    <3>1. CASE queue # <<>>
      <4>1. queue' # <<>> /\ Head(queue') = Head(queue)
        BY <2>3, <2>4, <3>1
      <4> QED
        BY <2>2, <3>1, <4>1 DEF DueInv, StepOK
    <3>2. CASE queue = <<>>
      <4>1. step'.at = "first"
        BY <2>2, <3>2 DEF DueInv, StepOK
      <4>2. ASSUME queue' # <<>> PROVE "first" \in Stages[Head(queue')[1]]
        <5>1. Head(queue') \in Names \X Agents
          BY <1>0, <4>2 DEF SessionTypeOK
        <5>2. Head(queue')[1] \in Names
          BY <5>1
        <5> QED
          BY <5>2 DEF Stages, Names, Awaited
      <4> QED
        BY <4>1, <4>2 DEF StepOK
    <3> QED
      BY <3>1, <3>2
  <2>7. \A a \in Agents : WaitOK(a)'
    BY <2>2, <2>5 DEF DueInv, WaitOK
  <2> QED
    BY <2>6, <2>7 DEF DueInv
<1> QED
  BY <1>1, <1>2, <1>3, <1>5, <1>6, <1>7, <1>8 DEF SessionNext, Aborts

LEMMA SessionInvariants == SessionSpec => [](SessionInv /\ DueInv)
<1>1. SessionInit => SessionInv
  BY SessionInvInit
<1>2. SessionInit => DueInv
  <2>1. SUFFICES ASSUME SessionInit PROVE DueInv
    OBVIOUS
  <2>2. step.at = "first" /\ queue = <<>>
    BY <2>1 DEF SessionInit, Idle
  <2>3. \A a \in Agents : task[a].at = "idle"
    BY <2>1 DEF SessionInit, Rest
  <2> QED
    BY <2>2, <2>3 DEF DueInv, StepOK, WaitOK, Waiting, WithChild
<1>3. SessionInv /\ [SessionNext]_sessionVars => SessionInv'
  BY SessionInvStep
<1>4. SessionInv /\ SessionInv' /\ DueInv /\ [SessionNext]_sessionVars => DueInv'
  BY DueStep
<1> QED
  BY <1>1, <1>2, <1>3, <1>4, PTL DEF SessionSpec

\* The executor can take a step of its own: its call of the helper or of its
\* child is answered or fails, or what it waits for has come.
HasStep(a) ==
  \/ task[a].at \in {"again", "start", "stopping", "reread", "halting"}
  \/ task[a].at \in {"connect", "closing"} /\ process[a] \in {"alive", "exited"}
  \/ task[a].at = "work" /\ (AbortCalled \/ settled[a] \/ process[a] = "exited")

\* The head of the queue is at one of its stages, each of which has an outcome
\* for whatever the store and the helper answer.
QueueHasStep == queue # <<>> /\ step.at \in Stages[Head(queue)[1]]

AbortHasStep ==
  \/ abort.at = "stopping"
  \/ /\ abort.at = "waiting"
     /\ \A a \in abort.launching : launch[a] = "none"
     /\ \A a \in abort.bound : task[a].at \notin Completing
  \/ abort.at = "settling" /\ \A i \in DOMAIN queue : queue[i][1] # "settle"

\* The agent is at work in its child, and nobody has aborted the run.
AgentWorks(a) ==
  task[a].at = "work" /\ process[a] = "alive" /\ ~settled[a] /\ ~AbortCalled

LEMMA ExecutorGoesOn ==
  ASSUME SessionInv, DueInv, NEW a \in Agents, task[a].at \notin {"idle", "over"}
  PROVE  \/ HasStep(a) \/ AgentWorks(a)
         \/ Queued(<<Operation[task[a].at], a>>) /\ QueueHasStep
<1>1. /\ task[a].at \in Places /\ process[a] \in {"none", "alive", "exited"}
      /\ WaitOK(a) /\ StepOK /\ queue \in Seq(Names \X Agents)
  BY DEF SessionInv, SessionTypeOK, Tasks, DueInv
<1>2. CASE task[a].at \in Waiting
  <2>1. Queued(<<Operation[task[a].at], a>>)
    BY <1>1, <1>2 DEF WaitOK
  <2>2. queue # <<>>
    BY <2>1, <1>1 DEF Queued
  <2> QED
    BY <1>1, <2>1, <2>2 DEF StepOK, QueueHasStep
<1>3. CASE task[a].at \in {"connect", "work", "closing"}
  <2>1. process[a] # "none"
    BY <1>1, <1>3 DEF WaitOK, WithChild
  <2> QED
    BY <1>1, <1>3, <2>1 DEF HasStep, AgentWorks
<1>4. CASE task[a].at \notin Waiting \cup {"connect", "work", "closing"}
  BY <1>1, <1>4 DEF Places, Launching, Completing, Waiting, HasStep
<1> QED
  BY <1>2, <1>3, <1>4

\* No executor waits for what will not come: unless its agent is at work, it can
\* go on by itself, or the operation it waits for is in the queue of the run and
\* the head of the queue can go on, in every interleaving of executors,
\* notifications and the abort (phase-session.ts:107-174, 454-505, 648-655).
THEOREM NoWakeupIsLost ==
  SessionSpec =>
    [](\A a \in Agents : task[a].at \notin {"idle", "over"} =>
         \/ HasStep(a) \/ AgentWorks(a)
         \/ Queued(<<Operation[task[a].at], a>>) /\ QueueHasStep)
<1>1. SessionInv /\ DueInv =>
        \A a \in Agents : task[a].at \notin {"idle", "over"} =>
          \/ HasStep(a) \/ AgentWorks(a)
          \/ Queued(<<Operation[task[a].at], a>>) /\ QueueHasStep
  BY ExecutorGoesOn
<1> QED
  BY <1>1, SessionInvariants, PTL

\* An aborted run is never stuck: until abortRun has ended and every executor
\* with it, the abort, an executor or the queue can go on, although the abort
\* waits for launches and completions, these for the queue, and the settlements
\* of the abort queue up behind all of them (phase-session.ts:176-232).  What is
\* left of AbortedWorkEnds is that those steps are taken, and end.
THEOREM AbortNeverStalls ==
  SessionSpec =>
    [](AbortCalled /\ ~(abort.at = "over" /\ \A a \in Agents : task[a].at \in {"idle", "over"})
         => AbortHasStep \/ QueueHasStep \/ \E a \in Agents : HasStep(a))
<1>1. ASSUME SessionInv, DueInv, AbortCalled,
             ~(abort.at = "over" /\ \A a \in Agents : task[a].at \in {"idle", "over"})
      PROVE  AbortHasStep \/ QueueHasStep \/ \E a \in Agents : HasStep(a)
  <2>1. ASSUME NEW a \in Agents, task[a].at \notin {"idle", "over"}
        PROVE  QueueHasStep \/ HasStep(a)
    BY <1>1, <2>1, ExecutorGoesOn DEF AgentWorks
  <2>2. /\ abort.at \in {"stopping", "waiting", "settling", "over"}
        /\ abort.launching \subseteq Agents /\ abort.bound \subseteq Agents
        /\ queue \in Seq(Names \X Agents)
    BY <1>1 DEF SessionInv, SessionTypeOK, AbortCalled
  <2>3. CASE abort.at = "stopping"
    BY <2>3 DEF AbortHasStep
  <2>4. CASE abort.at = "waiting"
    <3>1. CASE \E a \in abort.launching : launch[a] # "none"
      <4>1. PICK a \in Agents : launch[a] # "none"
        BY <2>2, <3>1
      <4>2. task[a].at \in Launching
        BY <1>1, <4>1 DEF SessionInv, AgentOK
      <4> QED
        BY <2>1, <4>1, <4>2 DEF Launching
    <3>2. CASE \E a \in abort.bound : task[a].at \in Completing
      <4>1. PICK a \in Agents : task[a].at \in Completing
        BY <2>2, <3>2
      <4> QED
        BY <2>1, <4>1 DEF Completing
    <3> QED
      BY <2>4, <3>1, <3>2 DEF AbortHasStep
  <2>5. CASE abort.at = "settling"
    <3>1. CASE queue = <<>>
      BY <2>5, <3>1 DEF AbortHasStep
    <3>2. CASE queue # <<>>
      BY <1>1, <3>2 DEF DueInv, StepOK, QueueHasStep
    <3> QED
      BY <3>1, <3>2
  <2>6. CASE abort.at = "over"
    BY <1>1, <2>1, <2>6
  <2> QED
    BY <2>2, <2>3, <2>4, <2>5, <2>6
<1>2. SessionInv /\ DueInv =>
        (AbortCalled /\ ~(abort.at = "over" /\ \A a \in Agents : task[a].at \in {"idle", "over"})
           => AbortHasStep \/ QueueHasStep \/ \E a \in Agents : HasStep(a))
  BY <1>1
<1> QED
  BY <1>2, SessionInvariants, PTL

-----------------------------------------------------------------------------
(* The client *)

\* A client that has started up has had a child, what is in the wire was
\* written by it, and a closed client has seen it exit or never had it.
RpcInv ==
  /\ RpcTypeOK
  /\ OpenRequestsAreHeld
  /\ NoChildIsLeft
  /\ AnswersAreCorrelated
  /\ started = "idle" => child = "none"
  /\ started # "up" => \A r \in Request : outcome[r] # "open"
  /\ started = "refused" => closed /\ child \in {"none", "unborn"}
  /\ timer # "off" => child = "exited"
  /\ \A i \in 1..Len(wire) : wire[i] \in Request => wire[i] \in answered

LEMMA InitRpc == RpcInit => RpcInv
<1> SUFFICES ASSUME RpcInit PROVE RpcInv
  OBVIOUS
<1>1. wire \in Seq(Request \cup {Event, Garbage}) /\ Len(wire) = 0
  BY DEF RpcInit
<1>2. RpcTypeOK
  BY <1>1 DEF RpcInit, RpcTypeOK
<1>3. OpenRequestsAreHeld /\ NoChildIsLeft /\ AnswersAreCorrelated
  BY DEF RpcInit, OpenRequestsAreHeld, NoChildIsLeft, AnswersAreCorrelated
<1> QED BY <1>1, <1>2, <1>3 DEF RpcInv, RpcInit

\* The handlers that end the client leave no request open.
LEMMA RejectLeavesNone ==
  ASSUME RpcTypeOK, OpenRequestsAreHeld, RejectPending
  PROVE  /\ pending' = {}
         /\ outcome' \in [Request -> {"none", "open", "answered", "rejected"}]
         /\ \A r \in Request : outcome'[r] # "open"
         /\ \A r \in Request : outcome'[r] = "answered" => outcome[r] = "answered"
BY DEF RpcTypeOK, OpenRequestsAreHeld, RejectPending, Rejected

\* What BeginStop leaves behind.
LEMMA StopBegins ==
  ASSUME RpcTypeOK, BeginStop
  PROVE  /\ stopping' \in {"grace", "forced", "stopped"}
BY DEF RpcTypeOK, BeginStop

\* The steps in which only the child and its pipes move.
LEMMA WorldStep ==
  ASSUME RpcInv, UNCHANGED client,
         child' \in {"none", "unborn", "alive", "killed", "exited"},
         pipes' \in {"own", "shared", "ended"},
         wire' \in Seq(Request \cup {Event, Garbage}),
         answered' \in SUBSET Request, answered \subseteq answered',
         child' \in {"alive", "killed"} => child' = child,
         started \in {"idle", "refused"} => child' = child,
         timer # "off" => child' = "exited",
         \A i \in 1..Len(wire') : wire'[i] \in Request => wire'[i] \in answered'
  PROVE  RpcInv'
BY DEF RpcInv, RpcTypeOK, OpenRequestsAreHeld, NoChildIsLeft,
       AnswersAreCorrelated, client

LEMMA AppendWrites ==
  ASSUME NEW S, NEW s \in Seq(S), NEW x \in S, NEW A,
         \A i \in 1..Len(s) : s[i] \in Request => s[i] \in A
  PROVE  \A i \in 1..Len(Append(s, x)) :
           Append(s, x)[i] \in Request => Append(s, x)[i] \in A \cup ({x} \cap Request)
<1> TAKE i \in 1..Len(Append(s, x))
<1>1. CASE i = Len(s) + 1
  BY <1>1
<1>2. CASE i \in 1..Len(s)
  BY <1>2
<1> QED BY <1>1, <1>2

LEMMA WriteStep ==
  ASSUME RpcInv, NEW record \in Request \cup {Event, Garbage}, Write(record)
  PROVE  RpcInv'
<1>1. wire \in Seq(Request \cup {Event, Garbage}) /\ answered \in SUBSET Request
  BY DEF RpcInv, RpcTypeOK
<1>2. \A i \in 1..Len(wire) : wire[i] \in Request => wire[i] \in answered
  BY DEF RpcInv
<1>3. \A i \in 1..Len(wire') : wire'[i] \in Request => wire'[i] \in answered'
  BY <1>1, <1>2, AppendWrites DEF Write
<1>4. wire' \in Seq(Request \cup {Event, Garbage}) /\ answered' \in SUBSET Request
      /\ answered \subseteq answered'
  BY <1>1 DEF Write
<1> QED BY <1>3, <1>4, WorldStep DEF Write, RpcInv, RpcTypeOK

\* Reading a record: an answer in the wire was written for its request.
LEMMA AcceptStep == RpcInv /\ Accept => RpcInv'
<1> SUFFICES ASSUME RpcInv, Accept PROVE RpcInv'
  OBVIOUS
<1> DEFINE record == Head(wire)
<1>1. /\ wire \in Seq(Request \cup {Event, Garbage}) /\ wire # <<>>
      /\ wire' = Tail(wire)
      /\ UNCHANGED <<started, closed, timer, child, pipes, answered>>
  BY DEF Accept, RpcInv, RpcTypeOK
<1>2. /\ wire' \in Seq(Request \cup {Event, Garbage})
      /\ \A i \in 1..Len(wire') : wire'[i] \in Request => wire'[i] \in answered'
      /\ record \in Request => record \in answered
  <2>1. /\ Len(wire) \in Nat \ {0} /\ Len(wire') = Len(wire) - 1
        /\ \A i \in 1..Len(wire') : wire'[i] = wire[i + 1] /\ i + 1 \in 1..Len(wire)
        /\ wire' \in Seq(Request \cup {Event, Garbage})
        /\ record = wire[1] /\ 1 \in 1..Len(wire)
    BY <1>1
  <2> QED BY <1>1, <2>1 DEF RpcInv
<1>3. CASE UNCHANGED <<failed, stopping, pending, outcome>>
  BY <1>1, <1>2, <1>3 DEF RpcInv, RpcTypeOK, OpenRequestsAreHeld, NoChildIsLeft,
     AnswersAreCorrelated
<1>4. CASE /\ ~closed /\ ~failed /\ record \in pending
           /\ pending' = pending \ {record}
           /\ outcome' = [outcome EXCEPT ![record] = "answered"]
           /\ UNCHANGED <<failed, stopping>>
  <2>1. record \in Request
    BY <1>4 DEF RpcInv, RpcTypeOK
  <2>2. RpcTypeOK'
    BY <1>1, <1>2, <1>4, <2>1 DEF RpcInv, RpcTypeOK
  <2>3. OpenRequestsAreHeld' /\ AnswersAreCorrelated'
    BY <1>1, <1>2, <1>4, <2>1 DEF RpcInv, RpcTypeOK, OpenRequestsAreHeld,
       AnswersAreCorrelated
  <2> QED BY <1>1, <1>2, <1>4, <2>2, <2>3 DEF RpcInv, NoChildIsLeft
<1>5. CASE ~closed /\ ~failed /\ FailProtocol
  <2>1. RpcTypeOK /\ OpenRequestsAreHeld /\ RejectPending /\ BeginStop /\ failed' = TRUE
    BY <1>5 DEF FailProtocol, RpcInv
  <2>2. /\ pending' = {}
        /\ outcome' \in [Request -> {"none", "open", "answered", "rejected"}]
        /\ \A r \in Request : outcome'[r] # "open"
        /\ \A r \in Request : outcome'[r] = "answered" => outcome[r] = "answered"
        /\ stopping' \in {"grace", "forced", "stopped"}
    BY <2>1, RejectLeavesNone, StopBegins
  <2>3. RpcTypeOK'
    BY <1>1, <1>2, <2>1, <2>2 DEF RpcTypeOK
  <2> QED BY <1>1, <1>2, <2>1, <2>2, <2>3 DEF RpcInv, OpenRequestsAreHeld,
          NoChildIsLeft, AnswersAreCorrelated
<1> QED BY <1>3, <1>4, <1>5 DEF Accept, Correlated

\* The client's steps that end it: what is open is rejected.
LEMMA EndingStep ==
  ASSUME RpcInv, RejectPending, UNCHANGED world,
         started' \in {started, "refused"},
         started' = "refused" => closed' /\ child \in {"none", "unborn"},
         failed' \in BOOLEAN, closed' \in BOOLEAN,
         stopping' \in {"none", "grace", "forced", "stopped"},
         timer' \in {"off", "armed", "over"},
         timer' # "off" => child = "exited",
         failed' => closed' \/ stopping' # "none",
         closed' => child \notin {"alive", "killed"},
         closed => closed'
  PROVE  RpcInv'
<1>1. /\ pending' = {}
      /\ outcome' \in [Request -> {"none", "open", "answered", "rejected"}]
      /\ \A r \in Request : outcome'[r] # "open"
      /\ \A r \in Request : outcome'[r] = "answered" => outcome[r] = "answered"
  BY RejectLeavesNone DEF RpcInv
<1>2. RpcTypeOK'
  BY <1>1 DEF RpcInv, RpcTypeOK, world
<1> QED BY <1>1, <1>2 DEF RpcInv, OpenRequestsAreHeld, NoChildIsLeft,
        AnswersAreCorrelated, world

\* What handleProcessError leaves behind.
LEMMA ErrorEnds ==
  ASSUME RpcTypeOK, ProcessError
  PROVE  /\ RejectPending /\ failed' = TRUE /\ timer' = timer
         /\ closed' \in BOOLEAN /\ (closed => closed')
         /\ stopping' \in {"none", "grace", "forced", "stopped"}
         /\ child \in {"none", "unborn"} => closed'
         /\ child \notin {"none", "unborn"} => closed' = closed /\ stopping' # "none"
BY StopBegins DEF RpcTypeOK, ProcessError

LEMMA ErrorStep ==
  ASSUME RpcInv, ProcessError, UNCHANGED world,
         started' = started \/ (started' = "refused" /\ child \in {"none", "unborn"})
  PROVE  RpcInv'
<1>1. RpcTypeOK /\ NoChildIsLeft
  BY DEF RpcInv
<1>2. /\ RejectPending /\ failed' = TRUE /\ timer' = timer
      /\ closed' \in BOOLEAN /\ (closed => closed')
      /\ stopping' \in {"none", "grace", "forced", "stopped"}
      /\ child \in {"none", "unborn"} => closed'
      /\ child \notin {"none", "unborn"} => closed' = closed /\ stopping' # "none"
  BY <1>1, ErrorEnds
<1> QED BY <1>1, <1>2, EndingStep DEF RpcInv, RpcTypeOK, NoChildIsLeft

LEMMA StartStep == RpcInv /\ Start => RpcInv'
<1> SUFFICES ASSUME RpcInv, Start PROVE RpcInv'
  OBVIOUS
<1>0. /\ started = "idle" /\ child = "none" /\ timer = "off"
      /\ UNCHANGED <<pipes, wire, answered>> /\ ~closed
  BY DEF RpcInv, Start, RpcTypeOK
<1>1. CASE /\ child' \in {"unborn", "alive"} /\ started' = "spawning"
           /\ UNCHANGED <<failed, closed, stopping, timer, pending, outcome>>
  <2>1. RpcTypeOK'
    BY <1>0, <1>1 DEF RpcInv, RpcTypeOK
  <2>2. OpenRequestsAreHeld' /\ AnswersAreCorrelated' /\ NoChildIsLeft'
    BY <1>0, <1>1 DEF RpcInv, OpenRequestsAreHeld, AnswersAreCorrelated,
       NoChildIsLeft
  <2> QED BY <1>0, <1>1, <2>1, <2>2 DEF RpcInv
<1>2. CASE started' = "refused" /\ ProcessError /\ UNCHANGED child
  BY <1>0, <1>2, ErrorStep DEF world
<1> QED BY <1>1, <1>2 DEF Start

LEMMA SpawnedStep == RpcInv /\ Spawned => RpcInv'
<1> SUFFICES ASSUME RpcInv, Spawned PROVE RpcInv'
  OBVIOUS
<1>1. CASE /\ started' = "up"
           /\ UNCHANGED <<failed, closed, stopping, timer, pending, outcome>>
  <2>1. RpcTypeOK'
    BY <1>1 DEF RpcInv, RpcTypeOK, Spawned, world
  <2> QED BY <1>1, <2>1 DEF RpcInv, OpenRequestsAreHeld, AnswersAreCorrelated,
          NoChildIsLeft, Spawned, world
<1>2. CASE child = "unborn" /\ started' = "refused" /\ ProcessError
  BY <1>2, ErrorStep DEF Spawned
<1> QED BY <1>1, <1>2 DEF Spawned

LEMMA AskStep ==
  ASSUME RpcInv, NEW r \in Request, Ask(r)
  PROVE  RpcInv'
<1>1. RpcTypeOK'
  BY DEF RpcInv, RpcTypeOK, Ask, world
<1>2. OpenRequestsAreHeld'
  BY DEF RpcInv, RpcTypeOK, OpenRequestsAreHeld, Ask, world
<1>3. NoChildIsLeft' /\ AnswersAreCorrelated'
  BY DEF RpcInv, RpcTypeOK, NoChildIsLeft, AnswersAreCorrelated, Ask, world
<1> QED BY <1>1, <1>2, <1>3 DEF RpcInv, Ask, world

\* The steps that stop the client, or end it.
LEMMA ClosingStep ==
  ASSUME RpcInv, (\E r \in Request : Timeout(r)) \/ Stop \/ Close \/ Broken
  PROVE  RpcInv'
<1>0. RpcTypeOK /\ NoChildIsLeft /\ OpenRequestsAreHeld
      /\ (timer # "off" => child = "exited")
      /\ (started = "refused" => closed /\ child \in {"none", "unborn"})
  BY DEF RpcInv
<1>1. ASSUME NEW r \in Request, Timeout(r) PROVE RpcInv'
  <2>1. stopping' \in {"grace", "forced", "stopped"}
    BY <1>0, <1>1, StopBegins DEF Timeout
  <2> QED BY <1>0, <1>1, <2>1, EndingStep DEF Timeout, RpcTypeOK, NoChildIsLeft
<1>2. CASE Stop
  <2>1. stopping' \in {"grace", "forced", "stopped"}
    BY <1>0, <1>2, StopBegins DEF Stop
  <2>2. CASE started = "idle" \/ closed
    <3>1. \A r \in Request : outcome[r] # "open"
      BY <1>0, <2>2 DEF RpcInv, OpenRequestsAreHeld
    <3>2. UNCHANGED <<pending, outcome, started, failed, closed, timer, child,
                      pipes, wire, answered>>
      BY <1>2, <2>2 DEF Stop, world
    <3>3. RpcTypeOK'
      BY <1>0, <2>1, <3>2 DEF RpcTypeOK
    <3> QED BY <1>0, <2>1, <3>1, <3>2, <3>3 DEF RpcInv, OpenRequestsAreHeld,
            NoChildIsLeft, AnswersAreCorrelated
  <2>3. CASE ~(started = "idle" \/ closed)
    BY <1>0, <1>2, <2>1, <2>3, EndingStep DEF Stop, RpcTypeOK, NoChildIsLeft
  <2> QED BY <2>2, <2>3
<1>3. CASE Close
  BY <1>0, <1>3, EndingStep DEF Close, RpcTypeOK, NoChildIsLeft
<1>4. CASE Broken
  BY <1>4, ErrorStep DEF Broken
<1> QED BY <1>1, <1>2, <1>3, <1>4

\* The steps that touch the pipes or wait for something.
LEMMA WaitingStep ==
  ASSUME RpcInv, Escalate \/ Stopped \/ Exit \/ DestroyPipes
  PROVE  RpcInv'
<1>0. /\ UNCHANGED <<started, failed, closed, pending, outcome, answered>>
      /\ (child' = child \/ (child = "alive" /\ child' = "killed"))
      /\ stopping' \in {stopping, "forced", "stopped"}
      /\ (stopping # "none" \/ stopping' = stopping)
      /\ (stopping' # "none" \/ stopping = "none")
      /\ timer' \in {"off", "armed", "over"}
      /\ (timer' # timer => child = "exited")
      /\ pipes' \in {pipes, "ended"}
      /\ (wire' = wire \/ wire' = <<>>)
      /\ (closed => child' = child)
  <2>0. /\ timer \in {"off", "armed", "over"}
        /\ timer # "off" => child = "exited"
    BY DEF RpcInv, RpcTypeOK
  <2>1. CASE Escalate
    BY <2>0, <2>1 DEF Escalate
  <2>2. CASE Stopped
    BY <2>0, <2>2 DEF Stopped, world
  <2>3. CASE Exit
    BY <2>0, <2>3 DEF Exit, world
  <2>4. CASE DestroyPipes
    BY <2>0, <2>4 DEF DestroyPipes
  <2> QED BY <2>1, <2>2, <2>3, <2>4
<1>1. /\ wire' \in Seq(Request \cup {Event, Garbage})
      /\ \A i \in 1..Len(wire') : wire'[i] \in Request => wire'[i] \in answered'
  <2>1. wire \in Seq(Request \cup {Event, Garbage})
        /\ \A i \in 1..Len(wire) : wire[i] \in Request => wire[i] \in answered
    BY DEF RpcInv, RpcTypeOK
  <2>2. CASE wire' = <<>>
    BY <2>2
  <2>3. CASE wire' = wire
    BY <1>0, <2>1, <2>3
  <2> QED BY <1>0, <2>2, <2>3
<1>2. RpcTypeOK'
  BY <1>0, <1>1 DEF RpcInv, RpcTypeOK
<1>3. OpenRequestsAreHeld' /\ AnswersAreCorrelated' /\ NoChildIsLeft'
  BY <1>0 DEF RpcInv, OpenRequestsAreHeld, AnswersAreCorrelated, NoChildIsLeft
<1>4. timer' # "off" => child' = "exited"
  BY <1>0 DEF RpcInv
<1> QED BY <1>0, <1>1, <1>2, <1>3, <1>4 DEF RpcInv

LEMMA ChildStep ==
  ASSUME RpcInv, Share \/ LetGo \/ Die
  PROVE  RpcInv'
BY WorldStep DEF RpcInv, RpcTypeOK, Share, LetGo, Die

-----------------------------------------------------------------------------
(* The theorems *)

\* Requests, the child and the client's state stay in step: what is pending is
\* held by a promise, and what the client has given up is being stopped
\* (jsonl-client.ts:120-327).
THEOREM RpcInvariant == RpcSpec => []RpcInv
<1>1. RpcInv /\ [RpcNext]_rpcVars => RpcInv'
  <2> SUFFICES ASSUME RpcInv, [RpcNext]_rpcVars PROVE RpcInv'
    OBVIOUS
  <2>1. CASE Start
    BY <2>1, StartStep
  <2>2. CASE Spawned
    BY <2>2, SpawnedStep
  <2>3. CASE (\E r \in Request : Timeout(r)) \/ Stop \/ Close \/ Broken
    BY <2>3, ClosingStep
  <2>4. CASE Escalate \/ Stopped \/ Exit \/ DestroyPipes
    BY <2>4, WaitingStep
  <2>5. CASE Accept
    BY <2>5, AcceptStep
  <2>6. ASSUME NEW r \in Request, Ask(r) PROVE RpcInv'
    BY <2>6, AskStep
  <2>7. ASSUME NEW r \in Request, Answer(r) PROVE RpcInv'
    BY <2>7, WriteStep DEF Answer
  <2>8. ASSUME NEW record \in {Event, Garbage}, Write(record) PROVE RpcInv'
    BY <2>8, WriteStep
  <2>9. CASE Share \/ LetGo \/ Die
    BY <2>9, ChildStep
  <2>10. CASE UNCHANGED rpcVars
    BY <2>10, WorldStep DEF RpcInv, RpcTypeOK, rpcVars, world
  <2> QED BY <2>1, <2>2, <2>3, <2>4, <2>5, <2>6, <2>7, <2>8, <2>9, <2>10
          DEF RpcNext, Handlers
<1> QED BY <1>1, InitRpc, PTL DEF RpcSpec

\* No failure, stop or exit forgets a request, however many are in flight
\* (jsonl-client.ts:147-157, 280-327).
THEOREM RequestsAreHeld == RpcSpec => []OpenRequestsAreHeld
<1>1. RpcInv => OpenRequestsAreHeld
  BY DEF RpcInv
<1> QED BY <1>1, RpcInvariant, PTL

\* A client that has failed is stopping its child, and a closed one has none
\* that lives (jsonl-client.ts:184-210, 280-311).
THEOREM ChildrenAreStopped == RpcSpec => []NoChildIsLeft
<1>1. RpcInv => NoChildIsLeft
  BY DEF RpcInv
<1> QED BY <1>1, RpcInvariant, PTL

\* A request is settled only by an answer to itself, whatever else the child
\* writes (jsonl-client.ts:258-278).
THEOREM AnswersCorrelate == RpcSpec => []AnswersAreCorrelated
<1>1. RpcInv => AnswersAreCorrelated
  BY DEF RpcInv
<1> QED BY <1>1, RpcInvariant, PTL

-----------------------------------------------------------------------------
(* Stopping the child *)

\* A stop that was forced has ended the pipes and killed the child, a stop that
\* is over has the client closed, and a client that is up has a child.
StopInv ==
  /\ stopping = "forced" => pipes = "ended" /\ child # "alive"
  /\ stopping \in {"grace", "forced"} => started # "idle"
  /\ stopping = "stopped" => closed \/ started = "idle"
  /\ started = "spawning" => child # "none"
  /\ started = "up" => child \in {"alive", "killed", "exited"}

LEMMA StopInvStep ==
  ASSUME RpcInv, StopInv, [RpcNext]_rpcVars
  PROVE  StopInv'
<1> USE DEF RpcInv, RpcTypeOK, StopInv
<1>1. CASE Start \/ Spawned
  BY <1>1 DEF Start, Spawned, ProcessError, BeginStop, world
<1>2. ASSUME NEW r \in Request, Timeout(r) \/ Ask(r)
      PROVE  StopInv'
  BY <1>2 DEF Timeout, Ask, BeginStop, world
<1>3. CASE Stop \/ Broken
  BY <1>3 DEF Stop, Broken, ProcessError, BeginStop, world
<1>4. CASE Escalate \/ Stopped \/ Exit \/ DestroyPipes \/ Close
  BY <1>4 DEF Escalate, Stopped, Exit, DestroyPipes, Close, world
<1>5. CASE Accept
  BY <1>5 DEF Accept, FailProtocol, BeginStop
<1>6. CASE \/ \E r \in Request : Answer(r)
           \/ \E record \in {Event, Garbage} : Write(record)
  BY <1>6 DEF Answer, Write, client
<1>7. CASE Share \/ LetGo \/ Die
  BY <1>7 DEF Share, LetGo, Die, client
<1>8. CASE UNCHANGED rpcVars
  BY <1>8 DEF rpcVars, client, world
<1> QED
  BY <1>1, <1>2, <1>3, <1>4, <1>5, <1>6, <1>7, <1>8 DEF RpcNext, Handlers

LEMMA ClientInvariants == RpcSpec => [](RpcInv /\ StopInv)
<1>1. RpcInit => StopInv
  BY DEF RpcInit, StopInv
<1> QED BY <1>1, RpcInvariant, StopInvStep, PTL DEF RpcSpec

\* When stop has returned, the client is closed, with the child gone or never
\* born, or it was never started (jsonl-client.ts:179-210).
THEOREM StoppedIsClosed ==
  RpcSpec => [](stopping = "stopped" =>
                  started = "idle" \/ (closed /\ child \notin {"alive", "killed"}))
<1>1. RpcInv /\ StopInv
        => (stopping = "stopped" =>
              started = "idle" \/ (closed /\ child \notin {"alive", "killed"}))
  BY DEF RpcInv, StopInv, NoChildIsLeft
<1> QED BY <1>1, ClientInvariants, PTL

\* What a stop that has begun waits for: a timer of the client's, an event that
\* Node owes it, or the exit of a child that was sent SIGKILL.  Never for a
\* child to comply, or for the holder of its pipes to let go.
StopIsDue ==
  \/ closed                                        \* Stopped
  \/ stopping = "grace" /\ ~closed                 \* Escalate
  \/ started = "spawning"                          \* Spawned
  \/ child = "killed" /\ started = "up"            \* Die
  \/ child = "exited" /\ timer = "off"             \* Exit
  \/ timer # "off" /\ ~closed /\ pipes = "ended"   \* Close

StoppingStep ==
  Stopped \/ Escalate \/ Spawned \/ (child = "killed" /\ Die) \/ Exit \/ Close

\* stop always has such a step due until it returns (jsonl-client.ts:179-210).
THEOREM StopNeverWaitsForTheChild ==
  RpcSpec => [](stopping \in {"grace", "forced"} => StopIsDue)
<1>1. RpcInv /\ StopInv => (stopping \in {"grace", "forced"} => StopIsDue)
  BY DEF RpcInv, RpcTypeOK, StopInv, StopIsDue
<1> QED BY <1>1, ClientInvariants, PTL

\* How far a stop is from its end.
StopRank ==
  (CASE stopping = "none" -> 3 [] stopping = "grace" -> 2
     [] stopping = "forced" -> 1 [] OTHER -> 0)
  + (CASE child \in {"unborn", "alive"} -> 2 [] child = "killed" -> 1 [] OTHER -> 0)
  + (IF started = "spawning" THEN 1 ELSE 0)
  + (IF timer = "off" THEN 1 ELSE 0)
  + (IF closed THEN 0 ELSE 1)

\* Once stop is called nothing takes it further from its end, whatever the child
\* writes and the user asks, and each of the steps it waits for brings it nearer.
\* With StopNeverWaitsForTheChild, what is left of StopEnds is that a step that
\* stays due is taken (jsonl-client.ts:179-210, 294-327).
THEOREM StopAdvances ==
  RpcSpec => [][stopping # "none" =>
                  /\ StopRank' \in Nat /\ StopRank' <= StopRank
                  /\ StoppingStep => StopRank' < StopRank]_rpcVars
<1>1. ASSUME RpcInv, StopInv, RpcInv', RpcNext, stopping # "none"
      PROVE  /\ StopRank' \in Nat /\ StopRank' <= StopRank
             /\ StoppingStep => StopRank' < StopRank
  <2> USE <1>1 DEF RpcInv, RpcTypeOK, StopInv, StopRank
  <2>1. CASE Spawned
    <3>1. /\ started = "spawning" /\ started' # "spawning"
          /\ UNCHANGED <<stopping, timer, child>> /\ (closed => closed')
      BY <2>1 DEF Spawned, ProcessError, world
    <3> QED BY <3>1
  <2>2. CASE Stopped
    BY <2>2 DEF Stopped, world
  <2>3. CASE Escalate
    BY <2>3 DEF Escalate
  <2>4. CASE Exit
    BY <2>4 DEF Exit, world
  <2>5. CASE Close
    BY <2>5 DEF Close, world
  <2>6. CASE Die
    BY <2>6 DEF Die, client
  <2>7. CASE ~StoppingStep /\ ~Die
    <3>1. /\ UNCHANGED <<started, stopping, child, closed>>
          /\ timer' = timer \/ (timer = "armed" /\ timer' = "over")
      <4>1. CASE DestroyPipes \/ Stop \/ Broken \/ Accept
        BY <4>1 DEF DestroyPipes, Stop, Broken, Accept, ProcessError, FailProtocol,
                    BeginStop, world
      <4>2. CASE \/ \E r \in Request : Timeout(r) \/ Answer(r)
                 \/ \E record \in {Event, Garbage} : Write(record)
                 \/ Share \/ LetGo
        BY <4>2 DEF Timeout, Answer, Write, Share, LetGo, BeginStop, client, world
      <4>3. ~Start /\ ~\E r \in Request : Ask(r)
        BY DEF Start, Ask
      <4> QED BY <2>7, <4>1, <4>2, <4>3 DEF RpcNext, Handlers, StoppingStep
    <3> QED BY <2>7, <3>1
  <2> QED BY <2>1, <2>2, <2>3, <2>4, <2>5, <2>6, <2>7 DEF StoppingStep
<1>2. RpcInv /\ StopInv /\ RpcInv' /\ [RpcNext]_rpcVars
        => [stopping # "none" =>
              /\ StopRank' \in Nat /\ StopRank' <= StopRank
              /\ StoppingStep => StopRank' < StopRank]_rpcVars
  BY <1>1
<1> QED BY <1>2, ClientInvariants, PTL DEF RpcSpec

=============================================================================
