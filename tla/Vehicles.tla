------------------------------- MODULE Vehicles -------------------------------
(***************************************************************************)
(* The saved vehicles of one renter, one of which is preselected: the      *)
(* default (vehicles/service.py).                                          *)
(*                                                                         *)
(* Requests run at the same time.  A statement sees the committed rows and *)
(* the request's own; a row that a request has written is locked until it  *)
(* commits.  A deadlock ends in one of them being aborted (JobDies).       *)
(***************************************************************************)
EXTENDS Naturals, FiniteSets, FiniteSetsExt

CONSTANTS
  Drivers,    \* requests
  Plates,     \* registration numbers, normalised
  Garage,     \* keys of rows, in the order of created_at
  NoVehicle   \* no row has this key

ASSUME GarageAssumption == Garage \subseteq Nat /\ NoVehicle \notin [plate : Plates, default : BOOLEAN]

VARIABLES
  vehicles,  \* committed rows: [plate, default] per key
  jobs       \* per request: where it is, what it loaded and has written

vehicleVars == <<vehicles, jobs>>

NoJob == [at |-> "none"]

VehicleInit ==
  /\ vehicles = [v \in Garage |-> NoVehicle]
  /\ jobs = [d \in Drivers |-> NoJob]

Saved == {v \in Garage : vehicles[v] # NoVehicle}

Defaults == {v \in Saved : vehicles[v].default}

Registered(plate) == {v \in Saved : vehicles[v].plate = plate}

(* What the other requests have written and not committed. *)
Pending(d) == {jobs[e].put : e \in {f \in Drivers \ {d} : jobs[f].at # "none"}}

Locked(d) == UNION {DOMAIN put : put \in Pending(d)}

(* The unique index waits for whoever has added or removed this plate.     *)
Claimed(d, plate) ==
  \/ Locked(d) \cap Registered(plate) # {}
  \/ \E put \in Pending(d) : \E v \in DOMAIN put : put[v] # NoVehicle /\ put[v].plate = plate

(* A request: the row of `key` as it was loaded and as it is to be, what   *)
(* its last query has found, the rows it has written; `raced` is whether   *)
(* another one has committed since it began.                               *)
Undertake(d, at, key, loaded, row) ==
  /\ jobs[d].at = "none"
  /\ jobs' = [jobs EXCEPT ![d] = [at |-> at, key |-> key, loaded |-> loaded, row |-> row,
                                  found |-> {}, put |-> [v \in {} |-> row], raced |-> FALSE]]
  /\ UNCHANGED vehicles

Advance(d, at, found, put) ==
  /\ jobs' = [jobs EXCEPT ![d] = [at |-> at, key |-> @.key, loaded |-> @.loaded, row |-> @.row,
                                  found |-> found, put |-> put, raced |-> @.raced]]
  /\ UNCHANGED vehicles

(* A request writes one row, ... *)
WriteRow(d, at, row) == Advance(d, at, {}, [v \in {jobs[d].key} |-> row])

(* ... or sets is_default of some that are saved, after what it has written.*)
MarkRows(d, these, default) ==
  Advance(d, "commit", {},
          [v \in these \cup DOMAIN jobs[d].put |->
             IF v \in these THEN [plate |-> vehicles[v].plate, default |-> default] ELSE jobs[d].put[v]])

KeepRows(d, at) == Advance(d, at, {}, jobs[d].put)

Give(d) ==
  /\ jobs' = [jobs EXCEPT ![d] = NoJob]
  /\ UNCHANGED vehicles

-----------------------------------------------------------------------------
(* create: a saved plate is a conflict; the first vehicle is the default.  *)
SaveVehicle(d, v, plate, default) ==
  /\ Registered(plate) = {}
  /\ vehicles[v] = NoVehicle
  /\ \A e \in Drivers : jobs[e].at # "none" => jobs[e].key # v
  /\ Undertake(d, "insert", v, NoVehicle, [plate |-> plate, default |-> default \/ Saved = {}])

(* update_vehicle: the fields that are sent are set on the row loaded.     *)
EditVehicle(d, v, plate, default) ==
  /\ v \in Saved
  /\ Registered(plate) \subseteq {v}
  /\ Undertake(d, "update", v, vehicles[v], [plate |-> plate, default |-> default])

(* What follows the flush. *)
AfterFlush(d) == IF jobs[d].row.default THEN "look" ELSE "commit"

(* The flush of a new row, or the refusal by the unique index. *)
InsertVehicle(d) ==
  LET job == jobs[d]
  IN  /\ job.at = "insert"
      /\ ~Claimed(d, job.row.plate)
      /\ IF Registered(job.row.plate) # {}
         THEN Give(d)
         ELSE WriteRow(d, AfterFlush(d), job.row)

(* The columns that differ from what was loaded go over the row as it is.  *)
Edited(job) ==
  LET now == vehicles[job.key]
  IN  [plate |-> IF job.row.plate # job.loaded.plate THEN job.row.plate ELSE now.plate,
       default |-> IF job.row.default # job.loaded.default THEN job.row.default ELSE now.default]

(* The flush of a loaded one: an error if it is gone.                      *)
UpdateVehicle(d) ==
  LET job == jobs[d]
  IN  /\ job.at = "update"
      /\ IF job.row = job.loaded THEN KeepRows(d, AfterFlush(d))
         ELSE /\ job.key \notin Locked(d)
              /\ job.row.plate # job.loaded.plate => ~Claimed(d, job.row.plate)
              /\ IF job.key \notin Saved \/ ~(Registered(Edited(job).plate) \subseteq {job.key})
                 THEN Give(d)
                 ELSE WriteRow(d, AfterFlush(d), Edited(job))

(* [Mutant of Others] the vehicle itself is not left out. *)
OthersAll(key) == Defaults

Others(key) == Defaults \ {key}

(* _clear_other_defaults: the rows that the UPDATE sees, ...               *)
LookForDefaults(d) ==
  /\ jobs[d].at = "look"
  /\ Advance(d, "clear", Others(jobs[d].key), jobs[d].put)

(* ... and those of them that are still default when their locks are free. *)
ClearDefaults(d) ==
  /\ jobs[d].at = "clear"
  /\ jobs[d].found \cap Locked(d) = {}
  /\ MarkRows(d, jobs[d].found \cap Defaults, FALSE)

-----------------------------------------------------------------------------
(* delete: the row is loaded and deleted, if it is still there, ...        *)
RemoveVehicle(d, v) ==
  /\ v \in Saved
  /\ Undertake(d, "delete", v, vehicles[v], NoVehicle)

DeleteVehicle(d) ==
  LET job == jobs[d]
  IN  /\ job.at = "delete"
      /\ job.key \notin Locked(d)
      /\ LET at == IF job.loaded.default THEN "replace" ELSE "commit"
         IN  IF job.key \in Saved THEN WriteRow(d, at, NoVehicle) ELSE KeepRows(d, at)

(* ... and the oldest of the others becomes the default in its place: ...  *)
ReplaceDefault(d) ==
  LET left == Saved \ {jobs[d].key}
  IN  /\ jobs[d].at = "replace"
      /\ IF left = {} \/ vehicles[Min(left)].default
         THEN KeepRows(d, "commit")
         ELSE Advance(d, "promote", {Min(left)}, jobs[d].put)

(* ... written at the commit, an error if it is gone.                      *)
PromoteVehicle(d) ==
  /\ jobs[d].at = "promote"
  /\ jobs[d].found \cap Locked(d) = {}
  /\ IF jobs[d].found \subseteq Saved THEN MarkRows(d, jobs[d].found, TRUE) ELSE Give(d)

-----------------------------------------------------------------------------
(* The commit of create_vehicle, update_vehicle and delete_vehicle.        *)
CommitVehicle(d) ==
  /\ jobs[d].at = "commit"
  /\ vehicles' = [v \in Garage |-> IF v \in DOMAIN jobs[d].put THEN jobs[d].put[v] ELSE vehicles[v]]
  /\ jobs' = [e \in Drivers |-> IF e = d \/ jobs[e].at = "none" THEN NoJob
                                ELSE [jobs[e] EXCEPT !.raced = TRUE]]

(* A handler that dies: nothing of it was committed. *)
JobDies(d) == jobs[d].at # "none" /\ Give(d)

VehicleNext ==
  \E d \in Drivers :
    \/ \E v \in Garage : RemoveVehicle(d, v)
    \/ \E v \in Garage, plate \in Plates, default \in BOOLEAN :
         SaveVehicle(d, v, plate, default) \/ EditVehicle(d, v, plate, default)
    \/ InsertVehicle(d) \/ UpdateVehicle(d) \/ LookForDefaults(d) \/ ClearDefaults(d)
    \/ DeleteVehicle(d) \/ ReplaceDefault(d) \/ PromoteVehicle(d)
    \/ CommitVehicle(d) \/ JobDies(d)

VehicleSpec == VehicleInit /\ [][VehicleNext]_vehicleVars

-----------------------------------------------------------------------------
(* "The same plate can't be saved twice by one renter" (Vehicle), neither  *)
(* among the rows nor among those about to be.                             *)
VehicleTypeOK ==
  /\ vehicles \in [Garage -> [plate : Plates, default : BOOLEAN] \cup {NoVehicle}]
  /\ \A plate \in Plates : Cardinality(Registered(plate)) <= 1
  /\ \A d \in Drivers : jobs[d].at # "none" => DOMAIN jobs[d].put \subseteq Garage

(* One vehicle is preselected for a booking: a request that makes one the  *)
(* default leaves it the only one, also where a race had left two or none, *)
(* and deleting the default hands it on while there is a vehicle left.  It *)
(* holds of every request that no other one overtook.                      *)
SoleDefault ==
  [][\A d \in Drivers :
       LET job == jobs[d]
       IN  job.at = "commit" /\ ~job.raced /\ jobs'[d] = NoJob /\ vehicles' # vehicles =>
             IF job.row # NoVehicle
             THEN job.row.default => Defaults' = {job.key}
             ELSE Defaults = {job.key} => (Defaults' = {} <=> Saved' = {})]_vehicleVars
=============================================================================
