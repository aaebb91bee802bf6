------------------------------- MODULE PolicyReload -------------------------------
(***************************************************************************)
(* How a policy published by the control plane comes into force in the     *)
(* broker: the writer of the policy file, the initial load of main, and    *)
(* the watcher thread that loads the file again on every event.            *)
(*                                                                         *)
(* Policies are the numbers of their versions.  write_broker_policy        *)
(* truncates the file and then writes it; a Kubernetes ConfigMap replaces  *)
(* it at once by moving the ..data symlink.  The watch is registered by a  *)
(* thread that main starts after its own load, and the thread passes over  *)
(* every event that names neither riskgate.json nor ..data: only the       *)
(* others are counted here.                                                *)
(***************************************************************************)
EXTENDS Integers, FiniteSetsExt

CONSTANTS
    Unreadable,   \* a policy file that is missing, empty or does not parse
    Fallback,     \* the policy load_policy makes of it
    None,
    Namings,      \* whether the file's name contains riskgate.json, or either
    MaxVersion    \* bound of the exploration

VARIABLES
    named,     \* whether the name of the policy file contains riskgate.json
    dir,       \* whether the directory of the policy file exists
    file,      \* the contents of the policy file
    published, \* the last version the control plane set out to publish
    writing,   \* whether a write in place is under way
    broker,    \* where the start of the broker is
    events,    \* how many notifications wait in the watcher's channel
    loaded,    \* new_config: loaded by the watcher and not stored yet
    inForce,   \* rcu_config
    newest,    \* the newest version that was ever in force (history)
    watched    \* the newest version completed under the watch (history)

vars == <<named, dir, file, published, writing, broker, events, loaded, inForce, newest, watched>>

Versions == 1..MaxVersion

ASSUME ReloadAssumption ==
    /\ MaxVersion \in Nat /\ Namings \subseteq BOOLEAN
    /\ {Unreadable, Fallback, None} \cap Nat = {}

(* A mistake: what could not be read is passed on.                         *)
LoadAsIs(content) == content

LoadPolicy(content) == IF content = Unreadable THEN Fallback ELSE content

(* An event that passes the filter is delivered once there is a watch.     *)
Notify(passes) ==
    events' = IF broker = "watching" /\ passes THEN events + 1 ELSE events

Watched(version, passes) ==
    watched' = IF broker = "watching" /\ passes THEN version ELSE watched

(* The newest version in force once p is stored.                           *)
NewestWith(p) == IF p \in Versions THEN Max({p, newest}) ELSE newest

TypeOK ==
    /\ named \in BOOLEAN
    /\ dir \in BOOLEAN
    /\ file \in Versions \cup {Unreadable}
    /\ published \in 0..MaxVersion
    /\ writing \in BOOLEAN
    /\ broker \in {"starting", "loaded", "watching", "blind"}
    /\ events \in Nat
    /\ loaded \in Versions \cup {Fallback, None}
    /\ inForce \in Versions \cup {Fallback, None}
    /\ newest \in 0..MaxVersion /\ watched \in 0..MaxVersion

Init ==
    /\ named \in Namings
    /\ dir \in BOOLEAN
    /\ file = Unreadable
    /\ published = 0
    /\ writing = FALSE
    /\ broker = "starting"
    /\ events = 0
    /\ loaded = None /\ inForce = None
    /\ newest = 0 /\ watched = 0

---------------------------------------------------------------------------------
(* write_broker_policy: mkdir, then write_text opens the file for writing. *)
BeginWrite ==
    /\ ~writing /\ published < MaxVersion
    /\ published' = published + 1
    /\ writing' = TRUE
    /\ dir' = TRUE
    /\ file' = Unreadable
    /\ Notify(named)
    /\ UNCHANGED <<named, broker, loaded, inForce, newest, watched>>

EndWrite ==
    /\ writing
    /\ writing' = FALSE
    /\ file' = published
    /\ Watched(published, named)
    /\ Notify(named)
    /\ UNCHANGED <<named, dir, published, broker, loaded, inForce, newest>>

(* A ConfigMap update: the symlink ..data moves, the file changes as a     *)
(* whole, and the event passes whatever the file is called.                *)
SwapFile ==
    /\ ~writing /\ published < MaxVersion
    /\ published' = published + 1
    /\ dir' = TRUE
    /\ file' = published + 1
    /\ Watched(published + 1, TRUE)
    /\ Notify(TRUE)
    /\ UNCHANGED <<named, writing, broker, loaded, inForce, newest>>

---------------------------------------------------------------------------------
InitialLoad ==
    /\ broker = "starting"
    /\ broker' = "loaded"
    /\ inForce' = LoadPolicy(file)
    /\ newest' = NewestWith(LoadPolicy(file))
    /\ UNCHANGED <<named, dir, file, published, writing, events, loaded, watched>>

(* The watcher thread: without a directory there is nothing to watch, and  *)
(* it is not looked for again.                                             *)
RegisterWatch ==
    /\ broker = "loaded"
    /\ broker' = IF dir THEN "watching" ELSE "blind"
    /\ UNCHANGED <<named, dir, file, published, writing, events, loaded, inForce, newest, watched>>

(* One event off the channel, and load_policy on the file as it is now.    *)
(* The notify backend may report that load_policy opened the file, which   *)
(* is an event like any other.                                             *)
LoadOnEvent ==
    /\ broker = "watching"
    /\ events > 0
    /\ loaded = None
    /\ loaded' = LoadPolicy(file)
    /\ events' \in {events - 1} \cup IF named THEN {events} ELSE {}
    /\ UNCHANGED <<named, dir, file, published, writing, broker, inForce, newest, watched>>

(* Mistakes: the store is a compare-and-swap against the fallback; what    *)
(* was replaced is stored next; the events that came meanwhile are drained.*)
StoreOnce ==
    /\ loaded # None
    /\ inForce' = IF inForce = Fallback THEN loaded ELSE inForce
    /\ newest' = NewestWith(loaded)
    /\ loaded' = None
    /\ UNCHANGED <<named, dir, file, published, writing, broker, events, watched>>

StoreSwapped ==
    /\ loaded # None
    /\ inForce' = loaded
    /\ newest' = NewestWith(loaded)
    /\ loaded' = inForce
    /\ UNCHANGED <<named, dir, file, published, writing, broker, events, watched>>

StoreAndDrain ==
    /\ loaded # None
    /\ inForce' = loaded
    /\ newest' = NewestWith(loaded)
    /\ loaded' = None
    /\ events' = 0
    /\ UNCHANGED <<named, dir, file, published, writing, broker, watched>>

(* rcu_config_clone.store                                                  *)
StoreLoaded ==
    /\ loaded # None
    /\ inForce' = loaded
    /\ newest' = NewestWith(loaded)
    /\ loaded' = None
    /\ UNCHANGED <<named, dir, file, published, writing, broker, events, watched>>

BrokerStep == InitialLoad \/ RegisterWatch \/ LoadOnEvent \/ StoreLoaded

Next == BeginWrite \/ EndWrite \/ SwapFile \/ BrokerStep

(* The broker's threads run, and a write that was begun is ended.  The     *)
(* control plane need not publish anything.                                *)
Spec == Init /\ [][Next]_vars /\ WF_vars(BrokerStep) /\ WF_vars(EndWrite)

---------------------------------------------------------------------------------
(* A policy that was superseded never comes back into force: what is in    *)
(* force is the newest version there ever was, or the fallback             *)
(* (main.rs:89-99).                                                        *)
PolicyNeverReverts == inForce \in {None, Fallback, newest}

(* A change announced under the watch comes into force and stays, and a    *)
(* file that was read half-written is read again: once publishing stops,   *)
(* the policy in force is the published one, unless the last change was    *)
(* not announced (main.rs:89-99).                                          *)
WatchedChangeLands == <>[](published > 0 /\ watched = published => inForce = published)

(* A stored policy was on disk after the event that announced it: no       *)
(* reload is lost between two events that come close together.             *)
NoReloadPending ==
    /\ published > 0 /\ watched = published /\ ~writing
    /\ events = 0 /\ loaded = None
    => inForce = published

(* mcp_stdio_broker/README.md:18: policy changes are hot-reloaded without  *)
(* restarting the broker.                                                  *)
EveryChangeLands == <>[](published > 0 => inForce = published)
================================================================================
