------------------------------- MODULE Settings -------------------------------
(***************************************************************************)
(* The business rules that admins change while requests read them          *)
(* (settings/service.py): one row per rule in platform_settings, a default *)
(* where there is none.                                                    *)
(*                                                                         *)
(* A request's rows are locked from its upsert to its commit, and another  *)
(* request's upsert of the same key waits.                                 *)
(***************************************************************************)
EXTENDS Integers, Sequences, SequencesExt

CONSTANTS
  Admins,     \* requests
  Touched,    \* the rules that are changed
  Offers,     \* values that are sent
  NotStored   \* no row for a rule

(* What PlatformConfig accepts: hours and percentages are whole here, the  *)
(* multiplier in hundredths.  (The cancellation policy is in Pricing.)     *)
Accepts ==
  [renter_fee_percent |-> 0 .. 100, tax_percent |-> 0 .. 100, commission_percent |-> 0 .. 100,
   payment_hold_minutes |-> 1 .. 240, approval_window_hours |-> 1 .. 168,
   listing_requires_approval |-> BOOLEAN, booking_max_advance_days |-> 1 .. 730,
   booking_max_window_days |-> 1 .. 1830, booking_min_lead_minutes |-> 0 .. 10080,
   booking_slot_minutes |-> {n \in 5 .. 60 : 60 % n = 0}, reminder_hours_before |-> 0 .. 72,
   arrival_code_ttl_minutes |-> 1 .. 120, arrival_code_max_attempts |-> 1 .. 20,
   arrival_geofence_metres |-> 20 .. 2000, arrival_escalate_minutes |-> 1 .. 120,
   arrival_early_minutes |-> 0 .. 240, overstay_grace_minutes |-> 0 .. 240,
   overstay_rate_multiplier |-> 100 .. 1000, overstay_increment_minutes |-> 1 .. 120,
   overstay_max_hours |-> 1 .. 72]

Default ==
  [renter_fee_percent |-> 5, tax_percent |-> 18, commission_percent |-> 15,
   payment_hold_minutes |-> 15, approval_window_hours |-> 12, listing_requires_approval |-> FALSE,
   booking_max_advance_days |-> 180, booking_max_window_days |-> 400, booking_min_lead_minutes |-> 0,
   booking_slot_minutes |-> 30, reminder_hours_before |-> 2, arrival_code_ttl_minutes |-> 10,
   arrival_code_max_attempts |-> 5, arrival_geofence_metres |-> 150, arrival_escalate_minutes |-> 10,
   arrival_early_minutes |-> 30, overstay_grace_minutes |-> 15, overstay_rate_multiplier |-> 150,
   overstay_increment_minutes |-> 15, overstay_max_hours |-> 12]

(* The fields of PlatformConfigUpdate, in the order a dump of it lists them.*)
Fields ==
  <<"overstay_grace_minutes", "overstay_rate_multiplier", "overstay_increment_minutes",
    "overstay_max_hours", "arrival_code_ttl_minutes", "arrival_code_max_attempts",
    "arrival_geofence_metres", "arrival_escalate_minutes", "arrival_early_minutes",
    "renter_fee_percent", "tax_percent", "commission_percent", "payment_hold_minutes",
    "approval_window_hours", "listing_requires_approval", "booking_max_advance_days",
    "booking_max_window_days", "booking_min_lead_minutes", "booking_slot_minutes",
    "reminder_hours_before">>

ASSUME SettingsAssumption ==
  /\ Touched \subseteq DOMAIN Accepts
  /\ ToSet(Fields) = DOMAIN Accepts /\ DOMAIN Default = DOMAIN Accepts
  /\ \A f \in DOMAIN Accepts : Default[f] \in Accepts[f]

VARIABLES
  settings,  \* committed rows of platform_settings: a value, or NotStored
  updates    \* per request: the changes it makes, the rows it has written

settingsVars == <<settings, updates>>

NoUpdate == [changes |-> <<>>, put |-> {}]

SettingsInit ==
  /\ settings = [f \in Touched |-> NotStored]
  /\ updates = [a \in Admins |-> NoUpdate]

(* get_config *)
InForce == [f \in Touched |-> IF settings[f] = NotStored THEN Default[f] ELSE settings[f]]

(* Changed rules over the rest. *)
Over(changes, config) == [f \in Touched |-> IF f \in DOMAIN changes THEN changes[f] ELSE config[f]]

Valid(config) == \A f \in DOMAIN config : config[f] \in Accepts[f]

InFlight == {a \in Admins : updates[a] # NoUpdate}

Unwritten(a) == DOMAIN updates[a].changes \ updates[a].put

(* Rules that another request has written and not committed. *)
Held(a) == UNION {updates[b].put : b \in InFlight \ {a}}

(* update_config: what is changed and what is in force, together, must be  *)
(* accepted.                                                               *)
AskUpdate(a, changes) ==
  /\ a \notin InFlight
  /\ Valid(Over(changes, InForce))
  /\ updates' = [updates EXCEPT ![a] = [changes |-> changes, put |-> {}]]
  /\ UNCHANGED settings

(* [Mutant of NextKeys] in the order in which this request lists them.     *)
NextKeysAsSent(left) == left

Place(f) == CHOOSE i \in DOMAIN Fields : Fields[i] = f

(* The changes are written in the order of the fields. *)
NextKeys(left) ==
  {f \in left : \A g \in left : Place(f) <= Place(g)}

(* INSERT .. ON CONFLICT DO UPDATE. *)
Upsert(a, f) ==
  /\ f \in NextKeys(Unwritten(a)) \ Held(a)
  /\ updates' = [updates EXCEPT ![a] = [changes |-> @.changes, put |-> @.put \cup {f}]]
  /\ UNCHANGED settings

(* update_settings: the commit. *)
CommitSettings(a) ==
  /\ a \in InFlight
  /\ Unwritten(a) = {}
  /\ settings' = Over(updates[a].changes, settings)
  /\ updates' = [updates EXCEPT ![a] = NoUpdate]

(* A handler that dies: nothing of it was committed. *)
UpdateDies(a) ==
  /\ a \in InFlight
  /\ updates' = [updates EXCEPT ![a] = NoUpdate]
  /\ UNCHANGED settings

SettingsNext ==
  \E a \in Admins :
    \/ \E fields \in (SUBSET Touched) \ {{}} : \E changes \in [fields -> Offers] : AskUpdate(a, changes)
    \/ \E f \in Touched : Upsert(a, f)
    \/ CommitSettings(a) \/ UpdateDies(a)

SettingsSpec == SettingsInit /\ [][SettingsNext]_settingsVars

-----------------------------------------------------------------------------
(* The rules in force are always ones that PlatformConfig accepts, so that *)
(* get_config, which validates them in every request, never fails.         *)
SettingsTypeOK ==
  /\ DOMAIN settings = Touched
  /\ Valid(InForce)
  /\ \A a \in Admins : updates[a].put \subseteq DOMAIN updates[a].changes

(* Admins who change several rules at once, in requests that list them in  *)
(* any order, never wait for each other in a circle: as long as there are  *)
(* requests on the way, one of them can go on.                             *)
UpdatesNeverDeadlock ==
  InFlight # {} => \E a \in InFlight : Unwritten(a) = {} \/ NextKeys(Unwritten(a)) \ Held(a) # {}
=============================================================================
