--------------------------- MODULE SignalConsumer ---------------------------
(***************************************************************************)
(* The paper signal consumer of src/execution/paper/signal_consumer.py:    *)
(* instances that poll Redis for signals, first on a stream, then under    *)
(* keys, and put each on their orchestrator's queue.  What keeps a signal  *)
(* from being put twice is spread over four records: a processing lock,    *)
(* the status of its key, the processed set in Redis and a copy of it.     *)
(*                                                                         *)
(* A step is what an instance does between two awaits that reach Redis.    *)
(* Abstractions.  A signal is valid, actionable when it is written and of  *)
(* an allowed symbol: the others are skipped.  The health marker is left   *)
(* out.  The queue is the orchestrator's: the model counts what is put.    *)
(***************************************************************************)
EXTENDS PaperKillSwitch, FiniteSets

CONSTANTS
  Keyed,        \* signals stored under a key of their own
  Streamed,     \* signals published on the stream; a signal may be both
  NoSignal,
  Conditions    \* the conditions to study, some of Environments

Instances == Managers
Signals == Keyed \cup Streamed

(* faults: Redis commands may raise when "refused", and after they took    *)
(* effect when "lost"; loads: the processed set can be loaded at a start;  *)
(* interrupts: instances are stopped and crash; switched: operators use    *)
(* the kill switch; live: the instances deployed.                          *)
Environments ==
  [faults : {"none", "refused", "lost"}, loads : BOOLEAN,
   interrupts : BOOLEAN, switched : BOOLEAN, live : SUBSET Instances]

ASSUME ConsumerAssumption ==
  /\ IsFiniteSet(Instances)
  /\ NoSignal \notin Signals
  /\ Conditions \subseteq Environments

VARIABLES
  processed,    \* PROCESSED_SET_KEY
  consumed,     \* keyed signals with status "consumed"
  locks,        \* signals whose processing key exists
  stream,       \* the message of each streamed signal
  known,        \* _processed_signals
  pc,           \* where each instance is
  batch,        \* keys or messages of this poll still to look at
  current,      \* the signal being looked at
  submissions,  \* how often each signal was put on a queue, up to twice
  env           \* the conditions of this behaviour, chosen once

redisVars == <<processed, consumed, locks, stream>>
vars == <<switchVars, redisVars, known, pc, batch, current, submissions, env>>

(* An instance is down; asleep or at the kill switch; about to read the    *)
(* stream; going through keys or messages; or with one signal: about to    *)
(* lock it, to put it, to set its status, to add it to the processed set   *)
(* (of a message: "noting"), to release the lock or to acknowledge.        *)
Section == {"locked", "marking", "recording", "releasing", "stopping"}
Places == {"down", "idle", "polling", "keys", "messages", "ready", "noting",
           "acking"} \cup Section

TypeOK ==
  /\ SwitchTypeOK
  /\ processed \subseteq Signals
  /\ consumed \subseteq Keyed
  /\ locks \subseteq Keyed
  /\ stream \in [Streamed -> {"unsent", "new", "pending", "acked"}]
  /\ known \in [Instances -> SUBSET Signals]
  /\ pc \in [Instances -> Places]
  /\ batch \in [Instances -> SUBSET Signals]
  /\ current \in [Instances -> Signals \cup {NoSignal}]
  /\ \A i \in Instances :
       current[i] # NoSignal <=> pc[i] \in Section \cup {"ready", "noting", "acking"}
  /\ submissions \in [Signals -> 0..2]
  /\ env \in Environments

Init ==
  /\ SwitchInit
  /\ processed = {} /\ consumed = {} /\ locks = {}
  /\ stream = [s \in Streamed |-> "unsent"]
  /\ known = [i \in Instances |-> {}]
  /\ pc = [i \in Instances |-> "down"]
  /\ batch = [i \in Instances |-> {}]
  /\ current = [i \in Instances |-> NoSignal]
  /\ submissions = [s \in Signals |-> 0]
  /\ env \in Conditions

(* A Redis command takes effect or not, and answers or raises. *)
Outcomes ==
  CASE env.faults = "none"    -> {"answers"}
    [] env.faults = "refused" -> {"answers", "raises"}
    [] env.faults = "lost"    -> {"answers", "raises", "raises_after"}

Effect(outcome, new, old) == IF outcome = "raises" THEN old ELSE new

Goto(i, place) == pc' = [pc EXCEPT ![i] = place]

(* Mutant: the signal stays at hand. *)
Leave_KeepsSignal(i, s, place) ==
  /\ batch' = [batch EXCEPT ![i] = @ \ {s}]
  /\ UNCHANGED current
  /\ Goto(i, place)

(* Done with the signal at hand. *)
Leave(i, s, place) ==
  /\ batch' = [batch EXCEPT ![i] = @ \ {s}]
  /\ current' = [current EXCEPT ![i] = NoSignal]
  /\ Goto(i, place)

Put(s) == submissions' = [submissions EXCEPT ![s] = UpTo(2, @ + 1)]

-----------------------------------------------------------------------------
(* start, and the ends of an instance. *)

(* Mutant: an instance starts with an empty processed set. *)
Start_Forgets(i) ==
  /\ i \in env.live /\ pc[i] = "down"
  /\ known' = [known EXCEPT ![i] = {}]
  /\ cache' = [cache EXCEPT ![i] = Stale]
  /\ Goto(i, "idle")
  /\ UNCHANGED <<remaining, activeFor, redisVars, batch, current, submissions,
                 env>>

(* Loads the processed set; nothing, if Redis raises. *)
Start(i) ==
  /\ i \in env.live /\ pc[i] = "down"
  /\ \/ known' = [known EXCEPT ![i] = processed]
     \/ ~env.loads /\ known' = [known EXCEPT ![i] = {}]
  /\ cache' = [cache EXCEPT ![i] = Stale]
  /\ Goto(i, "idle")
  /\ UNCHANGED <<remaining, activeFor, redisVars, batch, current, submissions,
                 env>>

(* The process ends: everything but Redis is gone. *)
Crash(i) ==
  /\ env.interrupts /\ pc[i] # "down"
  /\ batch' = [batch EXCEPT ![i] = {}]
  /\ current' = [current EXCEPT ![i] = NoSignal]
  /\ Goto(i, "down")
  /\ UNCHANGED <<switchVars, redisVars, known, submissions, env>>

(* stop cancels the poll task at its await; inside the try block that      *)
(* still releases the lock, anywhere else it ends like a crash.            *)
Stop(i) ==
  /\ env.interrupts /\ pc[i] \in {"marking", "recording"}
  /\ Goto(i, "stopping")
  /\ UNCHANGED <<switchVars, redisVars, known, batch, current, submissions, env>>

-----------------------------------------------------------------------------
(* _poll_once. *)

(* The kill switch is asked once, for the whole batch. *)
Poll(i) ==
  /\ pc[i] = "idle"
  /\ \E answer \in BOOLEAN :
       /\ GetStatus(i, answer, env.faults # "none")
       /\ Goto(i, IF answer THEN "idle" ELSE "polling")
  /\ UNCHANGED <<remaining, activeFor, redisVars, known, batch, current,
                 submissions, env>>

(* XREADGROUP with ">": messages no instance of the group was given yet. *)
NewMessages == {s \in Streamed : stream[s] = "new"}

Delivered == [s \in Streamed |-> IF s \in NewMessages THEN "pending" ELSE stream[s]]

(* Mutant: without messages the poll ends. *)
ReadStream_NoFallback(i) ==
  /\ pc[i] = "polling"
  /\ stream' = Delivered
  /\ batch' = [batch EXCEPT ![i] = NewMessages]
  /\ Goto(i, "messages")
  /\ UNCHANGED <<switchVars, processed, consumed, locks, known, current,
                 submissions, env>>

(* The keys are scanned only if the stream had nothing, or raised. *)
ReadStream(i) ==
  /\ pc[i] = "polling"
  /\ \E outcome \in Outcomes :
       /\ stream' = Effect(outcome, Delivered, stream)
       /\ IF outcome = "answers" /\ NewMessages # {}
            THEN Goto(i, "messages") /\ batch' = [batch EXCEPT ![i] = NewMessages]
            ELSE Goto(i, "keys") /\ batch' = [batch EXCEPT ![i] = Keyed]
  /\ UNCHANGED <<switchVars, processed, consumed, locks, known, current,
                 submissions, env>>

EndBatch(i) ==
  /\ pc[i] \in {"keys", "messages"} /\ batch[i] = {}
  /\ Goto(i, "idle")
  /\ UNCHANGED <<switchVars, redisVars, known, batch, current, submissions, env>>

-----------------------------------------------------------------------------
(* A signal under a key. *)

Skip(i, s) ==
  /\ Leave(i, s, "keys")
  /\ UNCHANGED <<switchVars, redisVars, known, submissions, env>>

(* The data cannot be read, or the signal is processed or not actionable. *)
SkipKey(i, s) ==
  /\ pc[i] = "keys" /\ s \in batch[i]
  /\ s \in known[i] \/ s \in consumed \/ env.faults # "none"
  /\ Skip(i, s)

ReadKey(i, s) ==
  /\ pc[i] = "keys" /\ s \in batch[i]
  /\ s \notin known[i] /\ s \notin consumed
  /\ current' = [current EXCEPT ![i] = s]
  /\ Goto(i, "ready")
  /\ UNCHANGED <<switchVars, redisVars, known, batch, submissions, env>>

(* Mutant: SET without NX. *)
Acquire_NoNX(i) ==
  /\ pc[i] = "ready"
  /\ locks' = locks \cup {current[i]}
  /\ Goto(i, "locked")
  /\ UNCHANGED <<switchVars, processed, consumed, stream, known, batch,
                 current, submissions, env>>

(* SET NX EX; what was read before is not read again. *)
Acquire(i) ==
  /\ pc[i] = "ready" /\ current[i] \notin locks
  /\ locks' = locks \cup {current[i]}
  /\ Goto(i, "locked")
  /\ UNCHANGED <<switchVars, processed, consumed, stream, known, batch,
                 current, submissions, env>>

(* The lock is held, or SET raised; the signal waits for another poll. *)
GiveUpLock(i) ==
  /\ pc[i] = "ready"
  /\ \E outcome \in Outcomes :
       /\ outcome # "answers" \/ current[i] \in locks
       /\ locks' = Effect(outcome, locks \cup {current[i]}, locks)
  /\ Leave(i, current[i], "keys")
  /\ UNCHANGED <<switchVars, processed, consumed, stream, known, submissions,
                 env>>

SubmitKeyed(i) ==
  /\ pc[i] = "locked"
  /\ Put(current[i])
  /\ Goto(i, "marking")
  /\ UNCHANGED <<switchVars, redisVars, known, batch, current, env>>

MarkConsumed(i) ==
  /\ pc[i] = "marking"
  /\ \E outcome \in Outcomes :
       consumed' = Effect(outcome, consumed \cup {current[i]}, consumed)
  /\ Goto(i, "recording")
  /\ UNCHANGED <<switchVars, processed, locks, stream, known, batch, current,
                 submissions, env>>

(* _mark_signal_processed, of a key or a message. *)
MarkProcessed(i) ==
  /\ pc[i] \in {"recording", "noting"}
  /\ \E outcome \in Outcomes :
       /\ processed' = Effect(outcome, processed \cup {current[i]}, processed)
       /\ known' = IF outcome = "answers"
                     THEN [known EXCEPT ![i] = @ \cup {current[i]}] ELSE known
  /\ Goto(i, IF pc[i] = "recording" THEN "releasing" ELSE "acking")
  /\ UNCHANGED <<switchVars, consumed, locks, stream, batch, current,
                 submissions, env>>

(* DELETE, whoever holds the lock. *)
Release(i) ==
  /\ pc[i] \in {"releasing", "stopping"}
  /\ \E outcome \in Outcomes :
       locks' = Effect(outcome, locks \ {current[i]}, locks)
  /\ IF pc[i] = "releasing"
       THEN Leave(i, current[i], "keys")
       ELSE /\ batch' = [batch EXCEPT ![i] = {}]
            /\ current' = [current EXCEPT ![i] = NoSignal]
            /\ Goto(i, "down")
  /\ UNCHANGED <<switchVars, processed, consumed, stream, known, submissions,
                 env>>

-----------------------------------------------------------------------------
(* A signal on the stream: no lock is taken. *)

SubmitMessage(i, s) ==
  /\ pc[i] = "messages" /\ s \in batch[i] /\ s \notin known[i]
  /\ Put(s)
  /\ current' = [current EXCEPT ![i] = s]
  /\ Goto(i, "noting")
  /\ UNCHANGED <<switchVars, redisVars, known, batch, env>>

(* A message of a processed signal is only acknowledged. *)
SkipMessage(i, s) ==
  /\ pc[i] = "messages" /\ s \in batch[i] /\ s \in known[i]
  /\ current' = [current EXCEPT ![i] = s]
  /\ Goto(i, "acking")
  /\ UNCHANGED <<switchVars, redisVars, known, batch, submissions, env>>

Acknowledge(i) ==
  /\ pc[i] = "acking"
  /\ \E outcome \in Outcomes :
       stream' = Effect(outcome, [stream EXCEPT ![current[i]] = "acked"], stream)
  /\ Leave(i, current[i], "messages")
  /\ UNCHANGED <<switchVars, processed, consumed, locks, known, submissions, env>>

-----------------------------------------------------------------------------
(* The producers, Redis and the operators. *)

Publish(s) ==
  /\ stream[s] = "unsent"
  /\ stream' = [stream EXCEPT ![s] = "new"]
  /\ UNCHANGED <<switchVars, processed, consumed, locks, known, pc, batch,
                 current, submissions, env>>

InSection(s) == {i \in Instances : pc[i] \in Section /\ current[i] = s}

(* PROCESSING_MARKER_TTL is a minute: it outlives the few commands sent    *)
(* under the lock, unless their instance is gone.                          *)
LockExpires(s) ==
  /\ s \in locks /\ InSection(s) = {}
  /\ locks' = locks \ {s}
  /\ UNCHANGED <<switchVars, processed, consumed, stream, known, pc, batch,
                 current, submissions, env>>

Operate ==
  /\ env.switched
  /\ ActivateSwitch \/ DeactivateSwitch
  /\ UNCHANGED <<redisVars, known, pc, batch, current, submissions, env>>

Tick ==
  /\ env.switched
  /\ SwitchTick
  /\ UNCHANGED <<redisVars, known, pc, batch, current, submissions, env>>

Work(i) ==
  \/ Poll(i) \/ ReadStream(i) \/ EndBatch(i)
  \/ \E s \in Signals :
       SkipKey(i, s) \/ ReadKey(i, s) \/ SubmitMessage(i, s) \/ SkipMessage(i, s)
  \/ Acquire(i) \/ GiveUpLock(i) \/ SubmitKeyed(i) \/ MarkConsumed(i)
  \/ MarkProcessed(i) \/ Release(i) \/ Acknowledge(i)

Next ==
  \/ \E i \in Instances : Start(i) \/ Crash(i) \/ Stop(i) \/ Work(i)
  \/ \E s \in Streamed : Publish(s)
  \/ \E s \in Keyed : LockExpires(s)
  \/ Operate \/ Tick

Spec == Init /\ [][Next]_vars

(* An instance that is up keeps polling, a lock expires and time passes;   *)
(* nobody has to start an instance or publish.                             *)
Fairness ==
  /\ \A i \in Instances : WF_vars(Work(i))
  /\ \A s \in Keyed : WF_vars(LockExpires(s))
  /\ WF_vars(Tick)

FairSpec == Spec /\ Fairness

-----------------------------------------------------------------------------
(* Signals recorded as processed, in Redis or in a copy, and those that    *)
(* are done with where they were found.                                    *)
Processed == processed \cup UNION {known[i] : i \in Instances}
Settled == consumed \cup {s \in Streamed : stream[s] = "acked"}

(* One instance, at whose starts the processed set can be loaded, and a    *)
(* command that raises has no effect.                                      *)
Lone == Cardinality(env.live) = 1 /\ env.loads /\ env.faults # "lost"

I == INSTANCE SignalIntake WITH
  HandedOut <- Streamed \ Keyed,
  puts <- submissions,
  processed <- Processed,
  settled <- Settled,
  remembers <- Lone

(* Whichever command raises and wherever an instance ends, no record of a  *)
(* signal is ahead of the orchestrator's queue (it would lose the signal); *)
(* one that is only on the stream is put at most once, without a lock; and *)
(* "the processed set prevents duplicates after restart": with one         *)
(* instance, however often it ends, a processed signal is not put again.   *)
TakesIn == I!Spec

(* "Only one consumer instance processes a signal at a time", whatever     *)
(* raises and whoever ends.                                                *)
LockExcludes == \A s \in Keyed : Cardinality(InSection(s)) <= 1

(* A keyed signal is put some day if, in the end, one instance stays up    *)
(* and the others stay down, and the switch stays off: no lock, message or *)
(* record left behind by those that ended keeps it from being taken over.  *)
TakenOver ==
  \A i \in Instances :
    /\ env.faults = "none"
    /\ <>[](pc[i] # "down" /\ \A j \in Instances \ {i} : pc[j] = "down")
    /\ <>[](~Active)
    => \A s \in Keyed : <>(submissions[s] > 0)

(* No batch begins once the switch has been on for CACHE_TTL_SECONDS, as   *)
(* long as Redis answers.                                                  *)
SwitchStopsPolls ==
  [][env.faults = "none" =>
       \A i \in Instances :
         pc[i] = "idle" /\ pc'[i] = "polling" => activeFor < CacheTtl]_vars

(* "Atomically acquire processing lock to prevent double-processing": no   *)
(* signal is put twice while nothing fails and nobody is interrupted.      *)
LockPreventsDoubles ==
  env.faults = "none" /\ ~env.interrupts =>
    \A s \in Keyed : submissions[s] <= 1

=============================================================================
