------------------------------ MODULE Throttle ------------------------------
(***************************************************************************)
(* The request pacer shared by all worker processes                        *)
(* (app/services/rate_limit.py, table throttle_state).  A process reads    *)
(* its clock, reserves the next slot of a key with one UPSERT, commits,    *)
(* and only then sleeps until the slot; nothing is locked while it sleeps. *)
(***************************************************************************)
EXTENDS Naturals

CONSTANTS
  Processes,  \* worker processes
  Keys,       \* host names, and "archive.org"
  Intervals,  \* the spacings callers ask for
  MaxClock    \* bound: the model's horizon

ASSUME IntervalsAreNaturals == Intervals \subseteq Nat /\ MaxClock \in Nat

VARIABLES
  clock,
  slots,   \* [Keys -> Nat], throttle_state.next_available_at
  call,    \* [Processes -> Call], where a process is in throttle()
  booked   \* history: [Keys -> Slot], the last reservation of a key

throttleVars == <<clock, slots, call, booked>>

\* at: the `now' it read, then the time it sleeps until.
Call == [state : {"none", "asked", "asleep"}, at : Nat]
Slot == [at : Nat, interval : Intervals \cup {0}]

ThrottleTypeOK ==
  /\ clock \in 0..MaxClock
  /\ slots \in [Keys -> Nat]
  /\ call \in [Processes -> Call]
  /\ booked \in [Keys -> Slot]

NoCall == [state |-> "none", at |-> 0]

ThrottleInit ==
  /\ clock = 0
  /\ slots = [k \in Keys |-> 0]
  /\ call = [p \in Processes |-> NoCall]
  /\ booked = [k \in Keys |-> [at |-> 0, interval |-> 0]]

Later(s, t) == IF s < t THEN t ELSE s

\* The process reads its clock; the UPSERT may be committed later.
Ask(p) ==
  /\ call[p].state = "none"
  /\ call' = [call EXCEPT ![p] = [state |-> "asked", at |-> clock]]

\* Mutant: the slot starts now, whatever has been reserved before.
Reserve_FromNow(p, k, interval) ==
  /\ call[p].state = "asked"
  /\ booked' = [booked EXCEPT ![k] = [at |-> call[p].at, interval |-> interval]]
  /\ slots' = [slots EXCEPT ![k] = call[p].at + interval]
  /\ call' = [call EXCEPT ![p] = [state |-> "asleep", at |-> clock]]

\* next_available_at = greatest(next_available_at, now) + interval
Reserve(p, k, interval) ==
  LET slot == Later(slots[k], call[p].at)
  IN  /\ call[p].state = "asked"
      /\ booked' = [booked EXCEPT ![k] = [at |-> slot, interval |-> interval]]
      /\ slots' = [slots EXCEPT ![k] = slot + interval]
      /\ call' = [call EXCEPT ![p] = [state |-> "asleep", at |-> clock + (slot - call[p].at)]]

\* sleep(remaining) is over.
Wake(p) ==
  /\ call[p].state = "asleep" /\ clock >= call[p].at
  /\ call' = [call EXCEPT ![p] = NoCall]

\* The process is killed; what it had reserved stays reserved.
Abandon(p) == call' = [call EXCEPT ![p] = NoCall]

Pass ==
  /\ clock < MaxClock
  /\ clock' = clock + 1

ThrottleNext ==
  \/ \E p \in Processes :
       /\ \/ Ask(p) /\ UNCHANGED <<slots, booked>>
          \/ \E k \in Keys, interval \in Intervals : Reserve(p, k, interval)
          \/ (Wake(p) \/ Abandon(p)) /\ UNCHANGED <<slots, booked>>
       /\ UNCHANGED clock
  \/ Pass /\ UNCHANGED <<slots, call, booked>>

ThrottleSpec == ThrottleInit /\ [][ThrottleNext]_throttleVars

-----------------------------------------------------------------------------
(* Properties *)

\* Two requests to one key are never given slots closer together than the interval
\* the earlier one asked for, whichever processes ask, however stale the clock they
\* read is, and although the gateway and its host share a key with different
\* intervals (rate_limit.py:7-11).
SlotsAreSpaced ==
  [][\A k \in Keys : slots'[k] # slots[k] =>
        booked'[k].at >= booked[k].at + booked[k].interval]_slots
=============================================================================
