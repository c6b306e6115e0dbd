-------------------------------- MODULE Ranging --------------------------------
(***************************************************************************)
(* The two ToF sensors: ToFRead on core 0 reads them in turn into the      *)
(* slots of a result channel each, ToFProc on core 1 takes the newest      *)
(* frame out of each channel into a cache (main/sensor_task.c,             *)
(* sensor_schedule.c, drivers/tof_driver.c).  Time counts half periods     *)
(* of 50 ms.                                                               *)
(***************************************************************************)
EXTENDS Naturals

CONSTANTS
  First, Second,   \* the sensors ToF-A and ToF-B
  Part,            \* the pieces of a frame that are read and copied one by one
  Available,       \* the sensors that came up: a_ok, b_ok
  MaxTime          \* bound of the model: half periods

Tof == {First, Second}

ASSUME RangingAssumption == First # Second /\ Available \subseteq Tof /\ MaxTime \in Nat

VARIABLES
  now,          \* half periods since the start
  due,          \* next_due_a_us, next_due_b_us
  slot_state,   \* per channel and slot, who has claimed it
  generation,   \* per channel, the newest verified frame
  buffer,       \* per channel and slot, the frame each piece is from, 0 for none
  reading,      \* task_tof_read: pc, sensor, pieces left to read
  proc,         \* task_tof_processor: pc, sensor, generation seen, pieces left
  result,       \* its static result, frame per piece
  taken,        \* its generation_a, generation_b
  tof_notified,     \* its notification is pending
  cache         \* s_cache_a, s_cache_b: generation, frame per piece

channelVars == <<slot_state, generation, buffer>>
readVars == <<now, due, reading>>
procVars == <<proc, result, taken, cache>>
rangingVars == <<channelVars, readVars, procVars, tof_notified>>

NoReading == [pc |-> "poll", tof |-> First, todo |-> {}]
Unread == [p \in Part |-> 0]

RangingInit ==
  /\ now = 0
  /\ due = [t \in Tof |-> IF t = First THEN 0 ELSE 1]
  /\ slot_state = [t \in Tof |-> [i \in 0 .. 1 |-> "free"]]
  /\ generation = [t \in Tof |-> 0]
  /\ buffer = [t \in Tof |-> [i \in 0 .. 1 |-> Unread]]
  /\ reading = NoReading
  /\ proc = [pc |-> "start", tof |-> First, seen |-> 0, todo |-> {}]
  /\ result = Unread
  /\ taken = [t \in Tof |-> 0]
  /\ tof_notified = FALSE
  /\ cache = [t \in Tof |-> [generation |-> 0, frame |-> Unread]]

Slot(g) == g % 2
NextGeneration(t) == generation[t] + 1

Tick ==
  /\ now < MaxTime
  /\ now' = now + 1
  /\ UNCHANGED <<channelVars, due, reading, procVars, tof_notified>>

(***************************************************************************)
(* ToFRead.                                                                *)
(***************************************************************************)
Due(t) == t \in Available /\ due[t] <= now

(* The oldest due time goes first, and A when they are equal.              *)
OldestDue(t) == Due(t) /\ \A u \in Tof : Due(u) => due[t] < due[u] \/ (due[t] = due[u] /\ (t = First \/ u = t))

Claimed(t, i, who) == [slot_state EXCEPT ![t][i] = who]

(* A slot that is being copied out is not written: the sensor stays due.   *)
ReadClaims(t) ==
  /\ reading.pc = "poll" /\ OldestDue(t)
  /\ slot_state[t][Slot(NextGeneration(t))] = "free"
  /\ slot_state' = Claimed(t, Slot(NextGeneration(t)), "writing")
  /\ reading' = [pc |-> "read", tof |-> t, todo |-> Part]
  /\ UNCHANGED <<generation, buffer, now, due, procVars, tof_notified>>

(* vl53l5cx_get_ranging_data fills the buffer as the bytes come in.        *)
ReadPart(p) ==
  /\ reading.pc = "read" /\ p \in reading.todo
  /\ buffer' = [buffer EXCEPT ![reading.tof][Slot(NextGeneration(reading.tof))][p] = NextGeneration(reading.tof)]
  /\ reading' = [reading EXCEPT !.todo = @ \ {p}]
  /\ UNCHANGED <<slot_state, generation, now, due, procVars, tof_notified>>

(* The period is over whether or not a frame came: not ready, an error on  *)
(* the bus, or a frame the next one may have torn.                         *)
ReadFails ==
  LET t == reading.tof IN
  /\ reading.pc = "read"
  /\ slot_state' = Claimed(t, Slot(NextGeneration(t)), "free")
  /\ due' = [due EXCEPT ![t] = @ + 2]
  /\ reading' = NoReading
  /\ UNCHANGED <<generation, buffer, now, procVars, tof_notified>>

ReadPublishes ==
  /\ reading.pc = "read" /\ reading.todo = {}
  /\ generation' = [generation EXCEPT ![reading.tof] = @ + 1]
  /\ reading' = [reading EXCEPT !.pc = "free"]
  /\ UNCHANGED <<slot_state, buffer, now, due, procVars, tof_notified>>

ReadFrees ==
  LET t == reading.tof IN
  /\ reading.pc = "free"
  /\ slot_state' = Claimed(t, Slot(generation[t]), "free")
  /\ due' = [due EXCEPT ![t] = @ + 2]
  /\ reading' = [reading EXCEPT !.pc = "notify"]
  /\ UNCHANGED <<generation, buffer, now, procVars, tof_notified>>

(* Mutant: a processor that is busy is not notified.                       *)
ReadNotifiesWaiting ==
  /\ reading.pc = "notify"
  /\ tof_notified' = (tof_notified \/ proc.pc = "wait")
  /\ reading' = NoReading
  /\ UNCHANGED <<channelVars, now, due, procVars>>

(* The processor's handle is known once it has started.                    *)
ReadNotifies ==
  /\ reading.pc = "notify"
  /\ tof_notified' = (tof_notified \/ proc.pc # "start")
  /\ reading' = NoReading
  /\ UNCHANGED <<channelVars, now, due, procVars>>

ReadStep == ReadFails \/ ReadPublishes \/ ReadFrees \/ ReadNotifies \/ \E p \in Part : ReadPart(p)

(***************************************************************************)
(* ToFProc: the first channel until it has nothing new, then the second,   *)
(* then the notification.                                                  *)
(***************************************************************************)
ProcStarts ==
  /\ proc.pc = "start"
  /\ proc' = [proc EXCEPT !.pc = "look"]
  /\ UNCHANGED <<channelVars, readVars, result, taken, tof_notified, cache>>

Fresh(g, t) == g \notin {0, taken[t]}

ProcLooks ==
  LET g == generation[proc.tof] IN
  /\ proc.pc = "look"
  /\ proc' = IF Fresh(g, proc.tof) THEN [proc EXCEPT !.pc = "claim", !.seen = g]
             ELSE IF proc.tof = First THEN [proc EXCEPT !.tof = Second]
             ELSE [proc EXCEPT !.pc = "wait", !.tof = First]
  /\ UNCHANGED <<channelVars, readVars, result, taken, tof_notified, cache>>

ProcWakes ==
  /\ proc.pc = "wait" /\ tof_notified
  /\ tof_notified' = FALSE
  /\ proc' = [proc EXCEPT !.pc = "look"]
  /\ UNCHANGED <<channelVars, readVars, result, taken, cache>>

ProcClaims ==
  LET free == slot_state[proc.tof][Slot(proc.seen)] = "free" IN
  /\ proc.pc = "claim"
  /\ proc' = [proc EXCEPT !.pc = IF free THEN "stable" ELSE "look"]
  /\ slot_state' = IF free THEN Claimed(proc.tof, Slot(proc.seen), "reading") ELSE slot_state
  /\ UNCHANGED <<generation, buffer, readVars, result, taken, tof_notified, cache>>

(* Mutant: the generation is not looked at again once the slot is claimed. *)
StillPublishedUnchecked(t, g) == TRUE

StillPublished(t, g) == generation[t] = g

ProcChecks ==
  LET stable == StillPublished(proc.tof, proc.seen) IN
  /\ proc.pc = "stable"
  /\ proc' = [proc EXCEPT !.pc = IF stable THEN "copy" ELSE "look", !.todo = IF stable THEN Part ELSE {}]
  /\ slot_state' = IF stable THEN slot_state ELSE Claimed(proc.tof, Slot(proc.seen), "free")
  /\ UNCHANGED <<generation, buffer, readVars, result, taken, tof_notified, cache>>

ProcCopies(p) ==
  /\ proc.pc = "copy" /\ p \in proc.todo
  /\ result' = [result EXCEPT ![p] = buffer[proc.tof][Slot(proc.seen)][p]]
  /\ proc' = [proc EXCEPT !.todo = @ \ {p}]
  /\ UNCHANGED <<channelVars, readVars, taken, tof_notified, cache>>

ProcReleases ==
  /\ proc.pc = "copy" /\ proc.todo = {}
  /\ slot_state' = Claimed(proc.tof, Slot(proc.seen), "free")
  /\ proc' = [proc EXCEPT !.pc = "store"]
  /\ UNCHANGED <<generation, buffer, readVars, result, taken, tof_notified, cache>>

(* tof_cache_store gates and filters outside s_cache_mutex and copies      *)
(* under it; sensor_tof_cache_load takes it too.                           *)
ProcStores ==
  /\ proc.pc = "store"
  /\ cache' = [cache EXCEPT ![proc.tof] = [generation |-> proc.seen, frame |-> result]]
  /\ taken' = [taken EXCEPT ![proc.tof] = proc.seen]
  /\ proc' = [proc EXCEPT !.pc = "look"]
  /\ UNCHANGED <<channelVars, readVars, result, tof_notified>>

ProcStep ==
  \/ ProcStarts \/ ProcLooks \/ ProcWakes \/ ProcClaims \/ ProcChecks \/ ProcReleases \/ ProcStores
  \/ \E p \in Part : ProcCopies(p)

(* What sensor_tof_cache_load gives, until it is one second old.           *)
Shown(t) == cache[t].generation # 0

RangingNext == Tick \/ (\E t \in Tof : ReadClaims(t)) \/ ReadStep \/ ProcStep

RangingSpec == RangingInit /\ [][RangingNext]_rangingVars

(* The tasks above ToFRead on core 0, and above ToFProc on core 1, wait    *)
(* for their period in every cycle.                                        *)
RangingFairness == WF_rangingVars(ReadStep) /\ WF_rangingVars(ProcStep)

(***************************************************************************)
(* What it promises.                                                       *)
(***************************************************************************)
RangingTypeOK ==
  /\ now \in 0 .. MaxTime /\ due \in [Tof -> Nat]
  /\ slot_state \in [Tof -> [0 .. 1 -> {"free", "writing", "reading"}]]
  /\ generation \in [Tof -> Nat] /\ taken \in [Tof -> Nat]
  /\ buffer \in [Tof -> [0 .. 1 -> [Part -> Nat]]]
  /\ reading \in [pc : {"poll", "read", "free", "notify"}, tof : Tof, todo : SUBSET Part]
  /\ proc \in [pc : {"start", "look", "claim", "stable", "copy", "store", "wait"}, tof : Tof, seen : Nat, todo : SUBSET Part]
  /\ result \in [Part -> Nat]
  /\ tof_notified \in BOOLEAN
  /\ cache \in [Tof -> [generation : Nat, frame : [Part -> Nat]]]

(* What the dashboard and the dataset get is one frame, and the frame      *)
(* whose generation they record with it, though its pieces are read and    *)
(* copied by two cores in the same buffers (tof_result_copy).              *)
FramesWhole == \A t \in Tof : Shown(t) => \A p \in Part : cache[t].frame[p] = cache[t].generation

(* The newest verified frame reaches the cache: no wake-up is lost between *)
(* the processor's last look at a channel and its wait                     *)
(* (task_tof_processor).                                                   *)
FramesProcessed == \A t \in Tof : []<>(taken[t] = generation[t])
===============================================================================
