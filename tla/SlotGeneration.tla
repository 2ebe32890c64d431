--------------------------- MODULE SlotGeneration ---------------------------
(***************************************************************************)
(* The generation tasks of FrequencyCap with the settings they work under  *)
(* (app/notifications/scheduler.py, app/config/manager.py) and their       *)
(* failures.  Every task has its own ConfigManager, which caches a value   *)
(* when it first reads it, while the portal and the admin API change the   *)
(* table.  A slot reads the delivery mode once, before its first user; an  *)
(* event task reads it after the text has been generated.                  *)
(*                                                                         *)
(* A slot catches what goes wrong for one user and goes on in the same     *)
(* transaction, which a failed statement has already spoilt.               *)
(***************************************************************************)
EXTENDS FrequencyCap

CONSTANTS
  NotSet,      \* no row in app_config, nothing in the cache
  MaxChanges   \* bound: updates of settings in a behaviour

Settings == {"enabled", "max_per_day"}

Values == [enabled |-> BOOLEAN, max_per_day |-> 0 .. MaxPerDay]

\* A value or NotSet for every setting.
IsTable(t) ==
  /\ t = [k \in Settings |-> t[k]]
  /\ \A k \in Settings : t[k] \in Values[k] \cup {NotSet}

\* The second arguments of config.get, and the same values in defaults.yaml.
Default == [enabled |-> TRUE, max_per_day |-> MaxPerDay]

ASSUME NotSetIsNoValue == \A k \in Settings : NotSet \notin Values[k]
ASSUME ChangesBound == MaxChanges \in Nat

VARIABLES
  config,    \* app_config: values of the settings
  cache,     \* ConfigManager._cache of each session
  mode,      \* the mode of the rows that a session writes, NotSet before it is read
  broken,    \* sessions whose transaction a failed statement has spoilt
  reported,  \* journeys that the summary of a session counts as generated
  offered,   \* history: the values of each setting since a session was opened
  changes    \* updates of settings so far

work == <<cache, mode, broken, reported, offered>>
slotVars == <<vars, config, work, changes>>

NothingCached == [k \in Settings |-> NotSet]

SlotTypeOK ==
  /\ TypeOK
  /\ IsTable(config)
  /\ cache = [s \in Sessions |-> cache[s]]
  /\ \A s \in Sessions : IsTable(cache[s])
  /\ mode \in [Sessions -> {"live", "shadow", NotSet}]
  /\ broken \in SUBSET Sessions
  /\ reported \in [Sessions -> SUBSET Journeys]
  /\ offered = [s \in Sessions |-> [k \in Settings |-> offered[s][k]]]
  /\ \A s \in Sessions, k \in Settings : offered[s][k] \subseteq Values[k]
  /\ changes \in 0 .. MaxChanges

SlotInit ==
  /\ Init
  /\ config = NothingCached
  /\ cache = [s \in Sessions |-> NothingCached]
  /\ mode = [s \in Sessions |-> NotSet]
  /\ broken = {}
  /\ reported = [s \in Sessions |-> {}]
  /\ offered = [s \in Sessions |-> [k \in Settings |-> {}]]
  /\ changes = 0

-----------------------------------------------------------------------------
(* The configuration manager. *)

InTable(k) == IF config[k] # NotSet THEN config[k] ELSE Default[k]

\* The value is asked for under a key that nobody sets.
GetOtherKey(s, k) == IF cache[s][k] # NotSet THEN cache[s][k] ELSE Default[k]

\* What session s gets, and what its cache holds afterwards: a default is not
\* cached.
Get(s, k) == IF cache[s][k] # NotSet THEN cache[s][k] ELSE InTable(k)

CacheAfter(s, k) ==
  [cache EXCEPT ![s][k] = IF @ # NotSet THEN @ ELSE config[k]]

\* app/main.py on startup: insert the settings that are missing.
SeedDefaults ==
  /\ config' = [k \in Settings |-> InTable(k)]
  /\ UNCHANGED <<vars, work, changes>>

\* PUT /config/{key}.  The cache it refreshes is that of the request.
UpdateConfig(k, value) ==
  /\ changes < MaxChanges
  /\ changes' = changes + 1
  /\ config' = [config EXCEPT ![k] = value]
  /\ offered' = [s \in Sessions |->
       IF session[s].open THEN [offered[s] EXCEPT ![k] = @ \cup {value}] ELSE offered[s]]
  /\ UNCHANGED <<vars, cache, mode, broken, reported>>

-----------------------------------------------------------------------------
(* The tasks. *)

ModeOf(enabled) == IF enabled THEN "shadow" ELSE "live"

\* A new session has a new ConfigManager.
Opened(s) ==
  /\ reported' = [reported EXCEPT ![s] = {}]
  /\ offered' = [offered EXCEPT ![s] = [k \in Settings |-> {InTable(k)}]]
  /\ UNCHANGED <<config, broken, changes>>

OpenSlot(s) ==
  /\ BeginSlot(s)
  /\ Opened(s)
  /\ mode' = [mode EXCEPT ![s] = ModeOf(Get(s, "enabled"))]
  /\ cache' = CacheAfter(s, "enabled")

OpenEvent(s, j) ==
  /\ BeginEvent(s, j)
  /\ Opened(s)
  /\ UNCHANGED <<cache, mode>>

\* "suppressed", or what raises before the check without a failed statement.
Suppress(s, j) ==
  /\ PassOver(s, j)
  /\ UNCHANGED <<config, work, changes>>

CheckCap(s, j) ==
  /\ s \notin broken
  /\ Check(s, j, Get(s, "max_per_day"))
  /\ cache' = CacheAfter(s, "max_per_day")
  /\ UNCHANGED <<config, mode, broken, reported, offered, changes>>

\* No journey, or the generation raises.
GenerateNothing(s) ==
  /\ Drop(s)
  /\ UNCHANGED <<config, work, changes>>

\* The row is flushed and counted; an event task asks for the mode now.
Store(s) ==
  /\ Flush(s)
  /\ reported' = [reported EXCEPT ![s] = @ \cup session[s].cleared]
  /\ IF mode[s] = NotSet
       THEN /\ mode' = [mode EXCEPT ![s] = ModeOf(Get(s, "enabled"))]
            /\ cache' = CacheAfter(s, "enabled")
       ELSE UNCHANGED <<cache, mode>>
  /\ UNCHANGED <<config, broken, offered, changes>>

\* A rollback for the one user, with the rows of the others.
StatementFailsAlone(s) ==
  /\ session[s].cleared # {}
  /\ session' = [session EXCEPT ![s].cleared = {}, ![s].flushed = {}]
  /\ UNCHANGED counted
  /\ UNCHANGED <<config, work, changes>>

\* A query or the flush fails and the slot, which has read its mode, goes on
\* with the next user: every further statement fails until the transaction ends.
StatementFails(s) ==
  /\ mode[s] # NotSet
  /\ \/ Drop(s)
     \/ \E j \in Journeys : PassOver(s, j)
  /\ broken' = broken \cup {s}
  /\ UNCHANGED <<config, cache, mode, reported, offered, changes>>

\* The values cached by one task are served to the next.
KeepsCache(s) ==
  /\ mode' = [mode EXCEPT ![s] = NotSet]
  /\ broken' = broken \ {s}
  /\ reported' = [reported EXCEPT ![s] = {}]
  /\ offered' = [offered EXCEPT ![s] = [k \in Settings |-> {}]]
  /\ UNCHANGED <<config, cache, changes>>

ClosedWork(s) ==
  /\ cache' = [cache EXCEPT ![s] = NothingCached]
  /\ mode' = [mode EXCEPT ![s] = NotSet]
  /\ broken' = broken \ {s}
  /\ reported' = [reported EXCEPT ![s] = {}]
  /\ offered' = [offered EXCEPT ![s] = [k \in Settings |-> {}]]
  /\ UNCHANGED <<config, changes>>

Complete(s) ==
  /\ s \notin broken
  /\ Commit(s)
  /\ ClosedWork(s)

\* The end of the process, a failing commit, an error of an event task; and the
\* commit of a spoilt transaction, which PostgreSQL turns into a rollback.
LoseAll(s) ==
  /\ Abort(s)
  /\ ClosedWork(s)

DeliveryFailsToday(u) ==
  /\ DeliveryFails(u)
  /\ UNCHANGED <<config, work, changes>>

NewDay ==
  /\ DayBegins
  /\ UNCHANGED <<config, work, changes>>

-----------------------------------------------------------------------------

SlotNext ==
  \/ \E s \in Sessions :
       \/ OpenSlot(s)
       \/ GenerateNothing(s)
       \/ Store(s)
       \/ StatementFails(s)
       \/ Complete(s)
       \/ LoseAll(s)
       \/ \E j \in Journeys : OpenEvent(s, j) \/ Suppress(s, j) \/ CheckCap(s, j)
  \/ \E u \in Users : DeliveryFailsToday(u)
  \/ NewDay
  \/ SeedDefaults
  \/ \E k \in Settings : \E value \in Values[k] : UpdateConfig(k, value)

SlotSpec == SlotInit /\ [][SlotNext]_slotVars

-----------------------------------------------------------------------------
(* Properties. *)

\* The rows of a task carry the mode that the setting "enabled" had at some time
\* while the task was running: a switch is late by no more than the tasks that
\* run when it is made, although a slot reads it once for all its users.
ModeOfItsTime ==
  \A s \in Sessions :
    mode[s] # NotSet => \E enabled \in offered[s].enabled : mode[s] = ModeOf(enabled)

\* A user is cleared only within a cap that was in force while the task was
\* running, whatever the cache of its manager holds.
ClearedWithinACap ==
  [][\A s \in Sessions :
       session'[s].cleared \ session[s].cleared # {} =>
         \E max \in offered[s].max_per_day, j \in session'[s].cleared :
           Visible(s, Owner[j]) < max]_slotVars

\* What the summary of a task counts is stored whole or not at all, although
\* failures of single users are caught in between.
StoredWhole ==
  [][\A s \in Sessions :
       session[s].open /\ ~session'[s].open =>
         \/ counted' = counted
         \/ ~session[s].today
         \/ \A u \in Users :
              counted'[u] = counted[u] + Cardinality(reported[s] \cap JourneysOf(u))]_slotVars

=============================================================================
