------------------------------- MODULE MCOffice -------------------------------
(***************************************************************************)
(* One instance for TLC of the seven small parts that run beside a booking: *)
(* the arrival code, a listing, an account's tokens, a space's reviews,    *)
(* a renter's vehicles, the settings, and the web client.                  *)
(*                                                                         *)
(* They share no variable, and every property is about one of them, so the *)
(* others may as well stand still: a behaviour is one of a single part.    *)
(***************************************************************************)
EXTENDS ArrivalCode, Listings, Sessions, Reviews, Vehicles, Settings, WebClient

VARIABLE part   \* the part that moves

vars == <<part, arrivalVars, listingVars, sessionVars, reviewVars, vehicleVars, settingsVars, webVars>>

(* A listing moves in two ways.  "listing": everybody may act on it, but   *)
(* the provider's requests come one by one.  "totals": any of them may run *)
(* at the same time, while admins rest and its status only gets published. *)
OneEditor == \A e \in Editors \ {CHOOSE e \in Editors : TRUE} : work[e] = AtRest

OnlyPublished ==
  /\ provider = "ACTIVE"
  /\ \A a \in Staff : work[a] = AtRest
  /\ \A e \in Editors : work[e].at = "status" => work[e].new = "PUBLISHED"

(* A bound: renters are reviewed for one booking, with one rating.         *)
OneRenter ==
  \A a \in Authors : drafts[a].at # "none" /\ drafts[a].row.subject = "RENTER"
                     => /\ drafts[a].row.trip = CHOOSE t \in Trips : TRUE
                        /\ drafts[a].row.rating = CHOOSE n \in Ratings : TRUE

(* A listing that moves starts with any number of slots. *)
Init ==
  /\ part \in {"arrival", "listing", "totals", "session", "review", "vehicle", "settings", "web"}
  /\ ArrivalInit /\ ListingInit /\ SessionInit /\ ReviewInit /\ VehicleInit
  /\ SettingsInit /\ WebInit
  /\ part \notin {"listing", "totals"} => listing.total = MaxTotal

Next ==
  /\ UNCHANGED part
  /\ \/ part = "arrival" /\ ArrivalNext
        /\ UNCHANGED <<listingVars, sessionVars, reviewVars, vehicleVars, settingsVars, webVars>>
     \/ part = "listing" /\ ListingNext /\ OneEditor'
        /\ UNCHANGED <<arrivalVars, sessionVars, reviewVars, vehicleVars, settingsVars, webVars>>
     \/ part = "totals" /\ ListingNext /\ OnlyPublished'
        /\ UNCHANGED <<arrivalVars, sessionVars, reviewVars, vehicleVars, settingsVars, webVars>>
     \/ part = "session" /\ SessionNext
        /\ UNCHANGED <<arrivalVars, listingVars, reviewVars, vehicleVars, settingsVars, webVars>>
     \/ part = "review" /\ ReviewNext /\ OneRenter'
        /\ UNCHANGED <<arrivalVars, listingVars, sessionVars, vehicleVars, settingsVars, webVars>>
     \/ part = "vehicle" /\ VehicleNext
        /\ UNCHANGED <<arrivalVars, listingVars, sessionVars, reviewVars, settingsVars, webVars>>
     \/ part = "settings" /\ SettingsNext
        /\ UNCHANGED <<arrivalVars, listingVars, sessionVars, reviewVars, vehicleVars, webVars>>
     \/ part = "web" /\ WebNext
        /\ UNCHANGED <<arrivalVars, listingVars, sessionVars, reviewVars, vehicleVars, settingsVars>>

Spec == Init /\ [][Next]_vars

(* The rows of each part are well-formed, and whoever is on the way holds  *)
(* what the next step needs.                                               *)
OfficeTypeOK ==
  ArrivalTypeOK /\ ListingTypeOK /\ SessionTypeOK /\ ReviewTypeOK /\ VehicleTypeOK
  /\ SettingsTypeOK /\ WebTypeOK
=============================================================================
