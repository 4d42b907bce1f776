----------------------------- MODULE MCAmpTask -----------------------------
(* Instances of AmpTask for TLC. *)
EXTENDS AmpTask

Some(S) == CHOOSE T \in SUBSET S : Cardinality(T) = 1

(* Two updates at once, while a script sets and clears a timer.            *)
TwoUpdates == [updaters |-> Updaters, drivers |-> {}, slots |-> Some(Slots),
               timers |-> 1, clears |-> TRUE]
(* Callbacks of a driver and the expiries of timers that nobody clears     *)
(* compete for the queue with an update.                                   *)
Callbacks == [updaters |-> Some(Updaters), drivers |-> Drivers, slots |-> Some(Slots),
              timers |-> MaxTimers, clears |-> FALSE]
(* An update walks over a list of timers that all run.                     *)
Walking == [updaters |-> Some(Updaters), drivers |-> {}, slots |-> Slots,
            timers |-> MaxTimers, clears |-> FALSE]
(* A script sets and clears timers while an update walks over their list.  *)
Clearing == [updaters |-> Some(Updaters), drivers |-> {}, slots |-> Some(Slots),
             timers |-> MaxTimers, clears |-> TRUE]
MCApps == {TwoUpdates, Callbacks, Walking, Clearing}

(* Scripts that set and clear timers, and no update.                       *)
MCClearing == {[updaters |-> {}, drivers |-> {}, slots |-> Slots, timers |-> MaxTimers, clears |-> TRUE]}
=============================================================================
