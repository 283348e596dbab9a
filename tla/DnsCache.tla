------------------------------ MODULE DnsCache ------------------------------
(***************************************************************************)
(* The DNS cache of the upstream client (client/dns.rs).  A name has at    *)
(* most one cache entry, which owns a background task: the task resolves   *)
(* the name, wakes the callers that wait for the first answer, sleeps      *)
(* until the answer expires, and starts over or, when nobody asked for the *)
(* name since the last round, takes the entry out of the cache and ends.   *)
(* The steps of callers and tasks interleave; only the lookup in the cache *)
(* and the removal from it hold the mutex.                                 *)
(*                                                                         *)
(* Time is abstracted: a sleep ends at any moment.  An identifier of Entry *)
(* stands for one Arc<CacheEntry> and is used again once nothing refers to *)
(* it, so the model needs no bound on the number of lookups.               *)
(***************************************************************************)
EXTENDS Naturals, Sequences, FiniteSets, Nil

CONSTANTS
  Name,     \* host names
  Caller,   \* concurrent calls of CachedResolver::resolve
  Entry,    \* identities of CacheEntry values
  Answer    \* what a successful resolution returns: sequences of addresses

ASSUME NoneAssumption == None \notin Entry

ASSUME AnswerAssumption == None \notin Answer \cup {<<>>} /\ <<>> \notin Answer

VARIABLES
  cache,     \* CachedResolver.entries: the entry of each name, or None
  name,      \* the name an entry was created for
  task,      \* the point the entry's background task has reached
  active,    \* CacheEntry.active
  entries,   \* CacheEntry.entries: None before the first result, else the addresses
  index,     \* CircularBuffer.index of those addresses, modulo their number
  pc,        \* the point each caller has reached
  entry,     \* the entry a caller holds, or None
  notified   \* whether the caller's Notified future has been completed

dnsVars == <<cache, name, task, active, entries, index, pc, entry, notified>>

entryVars == <<name, task, active, entries, index>>

callerVars == <<pc, entry, notified>>

TaskPoint == {"none", "spawned", "loop", "resolve", "notify", "sleep", "remove", "done"}

CallerPoint == {"idle", "next", "load", "empty", "wait"}

Result == Answer \cup {<<>>}

DnsInit ==
  /\ cache = [n \in Name |-> None]
  /\ name \in [Entry -> Name]
  /\ task = [e \in Entry |-> "none"]
  /\ active = [e \in Entry |-> FALSE]
  /\ entries = [e \in Entry |-> None]
  /\ index = [e \in Entry |-> 0]
  /\ pc = [c \in Caller |-> "idle"]
  /\ entry = [c \in Caller |-> None]
  /\ notified = [c \in Caller |-> FALSE]

-----------------------------------------------------------------------------
(* The steps of CachedResolver::resolve and CacheEntry::next. *)

(* Nothing refers to the entry: its task is over and no caller holds it. *)
Dropped(e) == task[e] \in {"none", "done"} /\ \A c \in Caller : entry[c] # e

(* The lookup under the mutex finds an entry and marks it active. *)
LookupHit(c, n) ==
  /\ pc[c] = "idle"
  /\ cache[n] # None
  /\ active' = [active EXCEPT ![cache[n]] = TRUE]
  /\ entry' = [entry EXCEPT ![c] = cache[n]]
  /\ pc' = [pc EXCEPT ![c] = "next"]
  /\ UNCHANGED <<cache, name, task, entries, index, notified>>

(* The lookup under the mutex finds none, inserts a new entry and spawns its
   background task. *)
LookupMiss(c, n) ==
  /\ pc[c] = "idle"
  /\ cache[n] = None
  /\ \E e \in Entry :
       /\ Dropped(e)
       /\ cache' = [cache EXCEPT ![n] = e]
       /\ name' = [name EXCEPT ![e] = n]
       /\ task' = [task EXCEPT ![e] = "spawned"]
       /\ active' = [active EXCEPT ![e] = FALSE]
       /\ entries' = [entries EXCEPT ![e] = None]
       /\ index' = [index EXCEPT ![e] = 0]
       /\ entry' = [entry EXCEPT ![c] = e]
  /\ pc' = [pc EXCEPT ![c] = "next"]
  /\ UNCHANGED notified

(* next() marks the entry active and creates the Notified future, which from
   then on is completed by every notify_waiters(). *)
Register(c) ==
  /\ pc[c] = "next"
  /\ active' = [active EXCEPT ![entry[c]] = TRUE]
  /\ notified' = [notified EXCEPT ![c] = FALSE]
  /\ pc' = [pc EXCEPT ![c] = "load"]
  /\ UNCHANGED <<cache, name, task, entries, index, entry>>

(* get_and_advance on the addresses of e. *)
GetAndAdvance(e) ==
  index' = IF Len(entries[e]) = 0 THEN index
           ELSE [index EXCEPT ![e] = (index[e] + 1) % Len(entries[e])]

(* The call returns and lets go of the entry. *)
Return(c) ==
  /\ pc' = [pc EXCEPT ![c] = "idle"]
  /\ entry' = [entry EXCEPT ![c] = None]
  /\ notified' = [notified EXCEPT ![c] = FALSE]

(* The first load: return what is there, or go on to wait. *)
Load(c) ==
  /\ pc[c] = "load"
  /\ IF entries[entry[c]] # None
     THEN Return(c) /\ GetAndAdvance(entry[c])
     ELSE pc' = [pc EXCEPT ![c] = "empty"] /\ UNCHANGED <<entry, notified, index>>
  /\ UNCHANGED <<cache, name, task, active, entries>>

(* Mutant of Await: the Notified future is created here, after the load. *)
AwaitLateNotified(c) ==
  /\ pc[c] = "empty"
  /\ pc' = [pc EXCEPT ![c] = "wait"]
  /\ notified' = [notified EXCEPT ![c] = FALSE]
  /\ UNCHANGED <<cache, entryVars, entry>>

(* notify.await: the call suspends unless the future is complete. *)
Await(c) ==
  /\ pc[c] = "empty"
  /\ pc' = [pc EXCEPT ![c] = "wait"]
  /\ UNCHANGED <<cache, entryVars, entry, notified>>

(* The Notified future completes; the second load returns what is there. *)
Wake(c) ==
  /\ pc[c] = "wait"
  /\ notified[c]
  /\ Return(c)
  /\ IF entries[entry[c]] # None THEN GetAndAdvance(entry[c]) ELSE UNCHANGED index
  /\ UNCHANGED <<cache, name, task, active, entries>>

(* The request the caller works for is dropped while it waits. *)
Cancel(c) ==
  /\ pc[c] = "wait"
  /\ Return(c)
  /\ UNCHANGED <<cache, entryVars>>

-----------------------------------------------------------------------------
(* The steps of CacheEntry::background. *)

Goto(e, from, to) == task[e] = from /\ task' = [task EXCEPT ![e] = to]

(* The task starts: the entry counts as requested. *)
Start(e) ==
  /\ Goto(e, "spawned", "loop")
  /\ active' = [active EXCEPT ![e] = TRUE]
  /\ UNCHANGED <<cache, name, entries, index, callerVars>>

(* Mutant of Swap: active is read and not reset. *)
SwapKeepsActive(e) ==
  /\ Goto(e, "loop", IF active[e] THEN "resolve" ELSE "remove")
  /\ UNCHANGED <<cache, name, active, entries, index, callerVars>>

(* active.swap(false) decides between another round and the end. *)
Swap(e) ==
  /\ Goto(e, "loop", IF active[e] THEN "resolve" ELSE "remove")
  /\ active' = [active EXCEPT ![e] = FALSE]
  /\ UNCHANGED <<cache, name, entries, index, callerVars>>

(* The resolver answers and the answer is stored. *)
ResolveOk(e) ==
  /\ Goto(e, "resolve", "notify")
  /\ \E ips \in Answer : entries' = [entries EXCEPT ![e] = ips]
  /\ index' = [index EXCEPT ![e] = 0]
  /\ UNCHANGED <<cache, name, active, callerVars>>

(* Mutant of ResolveErr: waiters are not notified of a failure. *)
ResolveErrSilent(e) ==
  /\ Goto(e, "resolve", "sleep")
  /\ entries' = [entries EXCEPT ![e] = <<>>]
  /\ index' = [index EXCEPT ![e] = 0]
  /\ UNCHANGED <<cache, name, active, callerVars>>

(* The resolver fails and an empty list is stored. *)
ResolveErr(e) ==
  /\ Goto(e, "resolve", "notify")
  /\ entries' = [entries EXCEPT ![e] = <<>>]
  /\ index' = [index EXCEPT ![e] = 0]
  /\ UNCHANGED <<cache, name, active, callerVars>>

(* notify_waiters() completes every Notified future that exists now. *)
NotifyWaiters(e) ==
  /\ Goto(e, "notify", "sleep")
  /\ notified' = [c \in Caller |->
                    notified[c] \/ (entry[c] = e /\ pc[c] \in {"load", "empty", "wait"})]
  /\ UNCHANGED <<cache, name, active, entries, index, pc, entry>>

(* sleep_until_expired returns. *)
Expire(e) ==
  /\ Goto(e, "sleep", "loop")
  /\ UNCHANGED <<cache, name, active, entries, index, callerVars>>

(* The task removes whatever the cache holds under its name and ends. *)
RemoveEntry(e) ==
  /\ Goto(e, "remove", "done")
  /\ cache' = [cache EXCEPT ![name[e]] = None]
  /\ UNCHANGED <<name, active, entries, index, callerVars>>

TaskStep(e) ==
  \/ Start(e) \/ Swap(e) \/ ResolveOk(e) \/ ResolveErr(e)
  \/ NotifyWaiters(e) \/ Expire(e) \/ RemoveEntry(e)

CallerStep(c) == Register(c) \/ Load(c) \/ Await(c) \/ Wake(c)

DnsNext ==
  \/ \E c \in Caller, n \in Name : LookupHit(c, n) \/ LookupMiss(c, n)
  \/ \E c \in Caller : CallerStep(c) \/ Cancel(c)
  \/ \E e \in Entry : TaskStep(e)

(* The runtime polls every task that can make progress, sleeps end, and a
   resolution ends with an answer or an error. *)
Fairness ==
  /\ \A c \in Caller : WF_dnsVars(CallerStep(c))
  /\ \A e \in Entry : WF_dnsVars(TaskStep(e))

DnsSpec == DnsInit /\ [][DnsNext]_dnsVars /\ Fairness

-----------------------------------------------------------------------------
(* Properties *)

Running(e) == task[e] \notin {"none", "done"}

(* A name never has two background tasks, and an entry that a lookup can find
   always has one: background() removes by name and without looking whose
   entry it is, and resolve() spawns a task only when it inserts an entry. *)
OneTaskPerName ==
  \A e \in Entry, n \in Name : cache[n] = e <=> (Running(e) /\ name[e] = n)

(* A caller that waits is going to be woken: it holds a completed Notified,
   or its entry has no result yet and the task is on the way to its first
   notify_waiters().  This is what creating the Notified before the first load
   in next(), and the task's own active.store(true), are for. *)
NoLostWakeup ==
  \A c \in Caller :
    pc[c] \in {"empty", "wait"} /\ ~notified[c] =>
      \/ task[entry[c]] \in {"spawned", "loop", "resolve"} /\ entries[entry[c]] = None
      \/ task[entry[c]] = "notify"

(* A call fails with "no ip" only because the last resolution failed: when a
   woken caller loads again there is a result, and a task never gives up an
   entry that has none. *)
WokenWithResult ==
  /\ \A c \in Caller : pc[c] = "wait" /\ notified[c] => entries[entry[c]] # None
  /\ \A e \in Entry : task[e] \in {"sleep", "remove", "done"} => entries[e] # None

(* Every call of resolve returns. *)
CallsReturn == \A c \in Caller : pc[c] # "idle" ~> pc[c] = "idle"

(* Once nobody asks for names any more the cache empties itself: each task
   finds its entry inactive after at most one more round. *)
UnusedEntriesGo ==
  <>[](\A c \in Caller : pc[c] = "idle") => <>[](\A n \in Name : cache[n] = None)
=============================================================================
