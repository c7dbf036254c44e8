---------------------------- MODULE NewOrderForm ----------------------------
(***************************************************************************)
(* The master's form for a new order in the WebApp (new-order/page.tsx)    *)
(* and createDraft behind it: the organization and its vehicles, fetched   *)
(* anew for every organization chosen and not cancelled when another is,   *)
(* the items, the confirmation screen and the one call that creates the    *)
(* draft and whose answer may be lost.                                     *)
(*                                                                         *)
(* Vehicle <<g, n>> is the n-th one of organization g, and its own plate.  *)
(* Name and phone are taken as filled in.                                  *)
(***************************************************************************)
EXTENDS Integers, FiniteSets

CONSTANTS
  Orgs,
  NoOrg,
  NoVehicle,
  Blank, Typed,  \* what else the plate field may hold
  FleetSize,     \* vehicles an organization has at first
  MaxFleet,      \* and at most (bound)
  MaxPieces,   \* of a service or a product on the form (bound)
  MaxDrafts      \* drafts created (bound)

ASSUME FormAssumption ==
  /\ NoOrg \notin Orgs
  /\ {NoVehicle, Blank, Typed} \cap (Orgs \X Nat) = {}
  /\ MaxFleet \in Nat /\ FleetSize \in 0..MaxFleet /\ MaxPieces \in Nat /\ MaxDrafts \in Nat

VARIABLES
  fleet,      \* vehicles in the database, by organization
  form,       \* the fields
  vehicles,   \* orgVehicles, the options of the second select
  fetching,   \* organizations whose list is on its way
  waiting,    \* orgVehiclesLoading
  screen,     \* which of the form's screens is in front
  reply,      \* of the server, on its way
  drafts,     \* how many orders the form as it is filled in now has made
  unheard,    \* answers lost since it was
  listsCrossed \* two lists have been on their way at once

formVars == <<fleet, form, vehicles, fetching, waiting, screen, reply,
              drafts, unheard, listsCrossed>>

Vehicle == Orgs \X (1..MaxFleet)
FleetOf(g) == {g} \X (1..fleet[g])

Payload == [org : Orgs \cup {NoOrg}, vehicle : Vehicle \cup {NoVehicle},
            car : Vehicle \cup {Blank, Typed},
            service : 0..MaxPieces, product : 0..MaxPieces]
Form == [flag : BOOLEAN, org : Orgs \cup {NoOrg}, vehicle : Vehicle \cup {NoVehicle},
         car : Vehicle \cup {Blank, Typed},
         service : 0..MaxPieces, product : 0..MaxPieces]

FormTypeOK ==
  /\ fleet \in [Orgs -> 0..MaxFleet]
  /\ form \in Form
  /\ vehicles \subseteq Vehicle
  /\ fetching \subseteq Orgs
  /\ waiting \in BOOLEAN /\ listsCrossed \in BOOLEAN
  /\ screen \in {"form", "modal", "saving", "confirm", "sending"}
  /\ reply \in {"none", "created", "refused"}
  /\ drafts \in 0..MaxDrafts /\ unheard \in 0..MaxDrafts

Empty == [flag |-> FALSE, org |-> NoOrg, vehicle |-> NoVehicle, car |-> Blank,
          service |-> 0, product |-> 0]

FormInit ==
  /\ fleet = [g \in Orgs |-> FleetSize]
  /\ form = Empty
  /\ vehicles = {}
  /\ fetching = {}
  /\ waiting = FALSE /\ listsCrossed = FALSE
  /\ screen = "form"
  /\ reply = "none"
  /\ drafts = 0 /\ unheard = 0

answer == <<reply, drafts, unheard>>
-----------------------------------------------------------------------------
(* The organization and its vehicles.                                      *)

\* The effect on [orgId, isOrgVehicle].
LoadVehicles(flag, g) ==
  IF flag /\ g # NoOrg
  THEN /\ fetching' = fetching \cup {g}
       /\ waiting' = TRUE
       /\ listsCrossed' = (listsCrossed \/ fetching # {})
       /\ UNCHANGED vehicles
  ELSE /\ vehicles' = {}
       /\ UNCHANGED <<fetching, waiting, listsCrossed>>

ToggleOrg ==
  /\ screen = "form"
  /\ form' = IF form.flag THEN [form EXCEPT !.flag = FALSE, !.org = NoOrg, !.vehicle = NoVehicle]
                          ELSE [form EXCEPT !.flag = TRUE]
  /\ LoadVehicles(form'.flag, form'.org)
  /\ UNCHANGED <<fleet, screen, answer>>

SelectOrg(g) ==
  /\ screen = "form"
  /\ form.flag
  /\ g # form.org
  /\ form' = [form EXCEPT !.org = g, !.vehicle = NoVehicle, !.car = Blank]
  /\ LoadVehicles(TRUE, g)
  /\ UNCHANGED <<fleet, screen, answer>>

\* The list of whichever organization answers becomes the options.
VehiclesArrive(g, ok) ==
  /\ g \in fetching
  /\ fetching' = fetching \ {g}
  /\ vehicles' = IF ok THEN FleetOf(g) ELSE {}
  /\ waiting' = FALSE
  /\ UNCHANGED <<fleet, form, screen, answer, listsCrossed>>

SelectEnabled == screen = "form" /\ form.flag /\ form.org # NoOrg /\ ~waiting

SelectVehicle(v) ==
  /\ SelectEnabled
  /\ v \in vehicles \cup {NoVehicle}
  /\ v # form.vehicle
  /\ form' = [form EXCEPT !.vehicle = v, !.car = IF v = NoVehicle THEN Blank ELSE v]
  /\ UNCHANGED <<fleet, vehicles, fetching, waiting, screen, answer, listsCrossed>>

\* isCarFieldsDisabled needs the vehicle among the options.
TypeCar ==
  /\ screen = "form"
  /\ ~(form.flag /\ form.vehicle \in vehicles)
  /\ form' = [form EXCEPT !.car = Typed]
  /\ UNCHANGED <<fleet, vehicles, fetching, waiting, screen, answer, listsCrossed>>

\* "Yangi mashina qo'sh".
OpenModal ==
  /\ SelectEnabled
  /\ screen' = "modal"
  /\ form' = [form EXCEPT !.vehicle = NoVehicle]
  /\ UNCHANGED <<fleet, vehicles, fetching, waiting, answer, listsCrossed>>

CloseModal ==
  /\ screen = "modal"
  /\ screen' = "form"
  /\ UNCHANGED <<fleet, form, vehicles, fetching, waiting, answer, listsCrossed>>

SaveVehicle ==
  /\ screen = "modal"
  /\ screen' = "saving"
  /\ UNCHANGED <<fleet, form, vehicles, fetching, waiting, answer, listsCrossed>>

VehicleSaved ==
  /\ screen = "saving"
  /\ fleet[form.org] < MaxFleet
  /\ fleet' = [fleet EXCEPT ![form.org] = @ + 1]
  /\ LET v == <<form.org, fleet'[form.org]>> IN
     /\ vehicles' = vehicles \cup {v}
     /\ form' = [form EXCEPT !.vehicle = v, !.car = v]
  /\ screen' = "form"
  /\ UNCHANGED <<fetching, waiting, answer, listsCrossed>>

VehicleNotSaved ==
  /\ screen = "saving"
  /\ screen' = "modal"
  /\ UNCHANGED <<fleet, form, vehicles, fetching, waiting, answer, listsCrossed>>
-----------------------------------------------------------------------------
(* The items, and the way to the server.                                   *)

\* addService and addProduct raise the quantity of what is on the form already,
\* and the buttons of a line change it or remove the line.
SetQuantity(field, n) ==
  /\ screen = "form"
  /\ n \in {form[field] + 1, form[field] - 1, 0} \cap (0..MaxPieces)
  /\ field = "service" => n # form[field] - 1 \/ n = 0
  /\ form' = [form EXCEPT ![field] = n]
  /\ UNCHANGED <<fleet, vehicles, fetching, waiting, screen, answer, listsCrossed>>

HasItems == form.service + form.product > 0

Continue ==
  /\ screen = "form"
  /\ form.car # Blank
  /\ HasItems
  /\ screen' = "confirm"
  /\ UNCHANGED <<fleet, form, vehicles, fetching, waiting, answer, listsCrossed>>

Back ==
  /\ screen = "confirm"
  /\ screen' = "form"
  /\ UNCHANGED <<fleet, form, vehicles, fetching, waiting, answer, listsCrossed>>

\* handleConfirmSubmit: organization and vehicle go with the flag only.
Sent == [org |-> IF form.flag THEN form.org ELSE NoOrg,
         vehicle |-> IF form.flag THEN form.vehicle ELSE NoVehicle,
         car |-> form.car, service |-> form.service, product |-> form.product]

\* Mutant: the button stays enabled while a call is on its way.
Submit_Again ==
  /\ screen \in {"confirm", "sending"}
  /\ screen' = "sending"
  /\ reply' = "none"
  /\ UNCHANGED <<fleet, form, vehicles, fetching, waiting, drafts, unheard, listsCrossed>>

Submit ==
  /\ screen = "confirm"
  /\ screen' = "sending"
  /\ reply' = "none"
  /\ UNCHANGED <<fleet, form, vehicles, fetching, waiting, drafts, unheard, listsCrossed>>

\* Mutant: the vehicle is looked up by its id alone.
PairAccepted_AnyOwner(p) == (p.org = NoOrg) <=> (p.vehicle = NoVehicle)

\* Organization and vehicle come together, and the one owns the other.
PairAccepted(p) ==
  \/ p.org = NoOrg /\ p.vehicle = NoVehicle
  \/ p.org # NoOrg /\ p.vehicle \in FleetOf(p.org)

\* The form sends a service once for each piece; findMany finds it once, and
\* the counts are compared.
ServicesFound(p) == p.service <= 1

\* createDraft.
SaveDraft(p) ==
  IF p.service + p.product > 0 /\ PairAccepted(p) /\ ServicesFound(p)
  THEN /\ drafts < MaxDrafts
       /\ drafts' = drafts + 1
       /\ reply' = "created"
  ELSE /\ reply' = "refused"
       /\ UNCHANGED drafts

ServerAnswers ==
  /\ screen = "sending"
  /\ reply = "none"
  /\ SaveDraft(Sent)
  /\ UNCHANGED <<fleet, form, vehicles, fetching, waiting, screen, unheard, listsCrossed>>

\* Success empties the form and leaves for the list; a page opened later is a
\* new one, and lists that are still on their way go with the old.
SubmitSucceeds ==
  /\ screen = "sending"
  /\ reply = "created"
  /\ screen' = "form"
  /\ form' = Empty
  /\ vehicles' = {}
  /\ fetching' = {}
  /\ waiting' = FALSE /\ listsCrossed' = FALSE
  /\ drafts' = 0 /\ unheard' = 0
  /\ reply' = "none"
  /\ UNCHANGED fleet

\* Back to the confirmation with an error: refused, or the call failed on its
\* way there or back.
SubmitFails ==
  /\ screen = "sending"
  /\ screen' = "confirm"
  /\ unheard' = unheard + IF reply = "created" THEN 1 ELSE 0
  /\ reply' = "none"
  /\ UNCHANGED <<fleet, form, vehicles, fetching, waiting, drafts, listsCrossed>>

FormNext ==
  \/ ToggleOrg
  \/ \E g \in Orgs \cup {NoOrg} : SelectOrg(g)
  \/ \E g \in Orgs, ok \in BOOLEAN : VehiclesArrive(g, ok)
  \/ \E v \in Vehicle \cup {NoVehicle} : SelectVehicle(v)
  \/ TypeCar \/ OpenModal \/ CloseModal \/ SaveVehicle \/ VehicleSaved \/ VehicleNotSaved
  \/ \E field \in {"service", "product"}, n \in 0..MaxPieces : SetQuantity(field, n)
  \/ Continue \/ Back \/ Submit \/ ServerAnswers \/ SubmitSucceeds \/ SubmitFails

FormSpec == FormInit /\ [][FormNext]_formVars
-----------------------------------------------------------------------------
\* An order billed to an organization names a vehicle of that organization,
\* even if its list came late under another one, and carries this vehicle's
\* plate unless two lists crossed (new-order/page.tsx, createDraft).
DraftNamesItsCar ==
  reply = "created" =>
    /\ (Sent.org = NoOrg) = (Sent.vehicle = NoVehicle)
    /\ Sent.vehicle # NoVehicle =>
         /\ Sent.vehicle[1] = Sent.org
         /\ listsCrossed \/ Sent.car = Sent.vehicle

\* One filled-in form makes one order, and one more for each answer of the
\* server that was lost on its way back (handleConfirmSubmit).
OneDraftPerAnswer == drafts <= unheard + 1

\* The server turns down what the form lets through in three cases only: an
\* organization without a vehicle, a service more than once, and a vehicle from
\* a list that crossed with another (handleContinue, createDraft).
RefusalsKnown ==
  reply = "refused" =>
    \/ Sent.org # NoOrg /\ Sent.vehicle = NoVehicle
    \/ Sent.service > 1
    \/ listsCrossed

\* What the form sends and the server makes of it (handleContinue, createDraft).
DraftIsTheForm == DraftNamesItsCar /\ RefusalsKnown
=============================================================================
