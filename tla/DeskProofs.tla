---------------------------- MODULE DeskProofs -----------------------------
(***************************************************************************)
(* Theorems about what the boss and the WebApp's pages do around an order: *)
(* the form for a new one, the list of cards, an organization's debt, the  *)
(* stock of a product, the order's total, the tabs of the history and the  *)
(* account of a supplier, each for any values of its constants. The parts  *)
(* share no state and each has its own specification; the last theorem     *)
(* puts them, and the bot's, side by side.                                 *)
(***************************************************************************)
EXTENDS MCDesk, BotProofs, SequenceTheorems
-----------------------------------------------------------------------------
(* The form for a new order.                                               *)

\* A vehicle is chosen under an organization, and an organization under the flag.
Chosen ==
  /\ form.vehicle # NoVehicle => form.flag /\ form.org # NoOrg
  /\ ~form.flag => form.org = NoOrg

\* As long as no two lists were on their way at once, the options are those of
\* the organization in front, or the select waits; and the vehicle chosen is
\* one of them, so that its plate cannot be typed over.
Lists ==
  /\ fetching # {} => waiting /\ form.vehicle = NoVehicle
  /\ \A g, h \in fetching : g = h
  /\ form.flag /\ form.org # NoOrg => fetching \subseteq {form.org}
  /\ form.flag /\ form.org # NoOrg /\ ~waiting => vehicles \subseteq FleetOf(form.org)
  /\ form.vehicle # NoVehicle =>
       form.vehicle \in vehicles /\ form.car = form.vehicle /\ ~waiting
  /\ screen \in {"modal", "saving"} => ~waiting

\* The screens over the form, and what was sent from them.
Screens ==
  /\ screen \in {"modal", "saving"} =>
       form.flag /\ form.org # NoOrg /\ form.vehicle = NoVehicle
  /\ screen \in {"confirm", "sending"} => HasItems
  /\ reply # "none" => screen = "sending"

\* A draft not heard of is counted.
Replies ==
  /\ reply = "created" => PairAccepted(Sent) /\ drafts = unheard + 1
  /\ reply # "created" => drafts = unheard
  /\ reply = "refused" => ~(PairAccepted(Sent) /\ ServicesFound(Sent))

FormInv ==
  /\ FormTypeOK
  /\ Chosen
  /\ listsCrossed \/ Lists
  /\ Screens
  /\ Replies

\* The pseudo-vehicles are no vehicles.
LEMMA NoSuchVehicle == NoVehicle \notin Vehicle /\ Blank \notin Vehicle /\ Typed \notin Vehicle
BY FormAssumption DEF Vehicle

LEMMA FormInitially == FormInit => FormInv
<1> SUFFICES ASSUME FormInit PROVE FormInv
  OBVIOUS
<1>1. form \in Form /\ form = Empty
  BY FormAssumption DEF FormInit, Empty, Form
<1>2. FormTypeOK
  <2>1. waiting \in BOOLEAN /\ listsCrossed \in BOOLEAN
    BY Zenon DEF FormInit
  <2>2. fleet \in [Orgs -> 0..MaxFleet]
    BY FormAssumption DEF FormInit
  <2>3. QED
    BY <1>1, <2>1, <2>2, FormAssumption DEF FormInit, FormTypeOK
<1>3. Chosen /\ Lists /\ Screens /\ Replies
  BY <1>1 DEF FormInit, Empty, Chosen, Lists, Screens, Replies
<1>4. QED
  BY <1>2, <1>3 DEF FormInv

\* ToggleOrg: the organization is gone, and the list with it.
LEMMA ToggleStep ==
  ASSUME FormInv, ToggleOrg
  PROVE  FormInv'
<1> USE FormAssumption DEF FormInv, FormTypeOK
<1>1. /\ form' \in Form /\ form'.org = NoOrg /\ form'.vehicle = NoVehicle
      /\ screen = "form" /\ screen' = "form"
      /\ UNCHANGED <<fleet, reply, drafts, unheard>>
  <2>1. CASE form.flag
    BY <2>1 DEF ToggleOrg, Form, answer
  <2>2. CASE ~form.flag
    BY <2>2 DEF ToggleOrg, Form, Chosen, answer
  <2>3. QED
    BY <2>1, <2>2
<1>2. vehicles' = {} /\ UNCHANGED <<fetching, waiting, listsCrossed>>
  BY <1>1 DEF ToggleOrg, LoadVehicles
<1>3. FormTypeOK'
  BY <1>1, <1>2
<1>4. Chosen' /\ Screens' /\ Replies' /\ (listsCrossed' \/ Lists')
  BY <1>1, <1>2 DEF Chosen, Screens, Replies, Lists
<1>5. QED
  BY <1>3, <1>4

\* SelectOrg: a list is asked for, and the vehicle is no longer chosen.
LEMMA SelectOrgStep ==
  ASSUME FormInv, NEW g \in Orgs \cup {NoOrg}, SelectOrg(g)
  PROVE  FormInv'
<1> USE FormAssumption DEF FormInv
<1>1. /\ form' \in Form
      /\ form'.flag = TRUE /\ form'.org = g /\ form'.vehicle = NoVehicle
      /\ screen = "form" /\ screen' = "form"
      /\ UNCHANGED <<fleet, reply, drafts, unheard>>
  <2> DEFINE a == [form EXCEPT !.org = g]
             b == [a EXCEPT !.vehicle = NoVehicle]
             c == [b EXCEPT !.car = Blank]
  <2>1. form \in Form /\ form.flag
    BY DEF SelectOrg, FormTypeOK
  <2>2. a \in Form /\ a.flag /\ a.org = g
    BY <2>1 DEF Form
  <2> HIDE DEF a
  <2>3. b \in Form /\ b.flag /\ b.org = g /\ b.vehicle = NoVehicle
    BY <2>2 DEF Form
  <2> HIDE DEF b
  <2>4. c \in Form /\ c.flag = TRUE /\ c.org = g /\ c.vehicle = NoVehicle
    BY <2>3 DEF Form
  <2>5. form' = c
    BY DEF SelectOrg, a, b
  <2>6. QED
    BY <2>4, <2>5 DEF SelectOrg, answer
<1>2. CASE g # NoOrg
  <2>1. /\ g \in Orgs /\ fetching' = fetching \cup {g} /\ waiting' = TRUE /\ vehicles' = vehicles
        /\ listsCrossed' = (listsCrossed \/ fetching # {})
    BY <1>2 DEF SelectOrg, LoadVehicles
  <2>2. listsCrossed' \in BOOLEAN
    BY <2>1
  <2>3. FormTypeOK'
    BY <1>1, <2>1, <2>2 DEF FormTypeOK
  <2>4. Chosen' /\ Screens' /\ Replies' /\ (listsCrossed' \/ Lists')
    BY <1>1, <2>1 DEF Chosen, Screens, Replies, Lists
  <2>5. QED
    BY <2>3, <2>4
<1>3. CASE g = NoOrg
  <2>1. vehicles' = {} /\ UNCHANGED <<fetching, waiting, listsCrossed>>
    BY <1>3 DEF SelectOrg, LoadVehicles
  <2>2. FormTypeOK'
    BY <1>1, <2>1 DEF FormTypeOK
  <2>3. Chosen' /\ Screens' /\ Replies' /\ (listsCrossed' \/ Lists')
    BY <1>1, <1>3, <2>1 DEF Chosen, Screens, Replies, Lists
  <2>4. QED
    BY <2>2, <2>3
<1>4. QED
  BY <1>2, <1>3

\* A list arrives, for the organization in front unless two have crossed.
LEMMA ArriveStep ==
  ASSUME FormInv, NEW g \in Orgs, NEW ok \in BOOLEAN, VehiclesArrive(g, ok)
  PROVE  FormInv'
<1>1. /\ g \in fetching /\ fetching' = fetching \ {g} /\ waiting' = FALSE
      /\ vehicles' = IF ok THEN FleetOf(g) ELSE {}
      /\ UNCHANGED <<fleet, form, screen, reply, drafts, unheard, listsCrossed>>
  BY DEF VehiclesArrive, answer
<1>2. FleetOf(g) \subseteq Vehicle
  BY FormAssumption DEF FleetOf, Vehicle, FormInv, FormTypeOK
<1>3. FormTypeOK'
  BY <1>1, <1>2 DEF FormInv, FormTypeOK
<1>4. Chosen' /\ Screens' /\ Replies'
  BY <1>1 DEF FormInv, Chosen, Screens, Replies, HasItems, Sent, PairAccepted, FleetOf,
              ServicesFound
<1>5. ASSUME ~listsCrossed' PROVE Lists'
  <2>1. Lists /\ Chosen
    BY <1>1, <1>5 DEF FormInv
  <2>2. fetching' = {} /\ form'.vehicle = NoVehicle
    BY <1>1, <2>1 DEF Lists
  <2>3. form.flag /\ form.org # NoOrg => form.org = g
    BY <1>1, <2>1 DEF Lists
  <2>4. QED
    BY <1>1, <2>1, <2>2, <2>3 DEF Lists, FleetOf
<1>6. QED
  BY <1>3, <1>4, <1>5 DEF FormInv

\* Steps on the form itself that leave the organization and the lists alone.
LEMMA FieldSteps ==
  ASSUME FormInv,
         \/ \E v \in Vehicle \cup {NoVehicle} : SelectVehicle(v)
         \/ TypeCar
         \/ \E field \in {"service", "product"}, n \in 0..MaxPieces : SetQuantity(field, n)
  PROVE  FormInv'
<1>1. /\ screen = "form" /\ screen' = "form"
      /\ UNCHANGED <<fleet, vehicles, fetching, waiting, reply, drafts, unheard, listsCrossed>>
  BY DEF SelectVehicle, SelectEnabled, TypeCar, SetQuantity, answer
<1>2. form \in Form /\ Chosen
  BY DEF FormInv, FormTypeOK
<1>3. Screens' /\ Replies'
  BY <1>1 DEF FormInv, Screens, Replies
<1>4. ASSUME NEW v \in Vehicle \cup {NoVehicle}, SelectVehicle(v)
      PROVE  FormInv'
  <2> DEFINE a == [form EXCEPT !.vehicle = v]
             b == [a EXCEPT !.car = IF v = NoVehicle THEN Blank ELSE v]
  <2>1. a \in Form /\ a.flag = form.flag /\ a.org = form.org /\ a.vehicle = v
    BY <1>2 DEF Form
  <2> HIDE DEF a
  <2>2. /\ b \in Form /\ b.flag = form.flag /\ b.org = form.org /\ b.vehicle = v
        /\ v # NoVehicle => b.car = v
    BY <2>1 DEF Form
  <2>3. form' = b
    BY <1>4 DEF SelectVehicle, a
  <2> HIDE DEF b
  <2>4. form.flag /\ form.org # NoOrg /\ ~waiting /\ v \in vehicles \cup {NoVehicle}
    BY <1>4 DEF SelectVehicle, SelectEnabled
  <2>5. FormTypeOK'
    BY <1>1, <2>2, <2>3 DEF FormInv, FormTypeOK
  <2>6. Chosen'
    BY <2>2, <2>3, <2>4 DEF Chosen
  <2>7. listsCrossed' \/ Lists'
    BY <1>1, <2>2, <2>3, <2>4 DEF FormInv, Lists, FleetOf
  <2>8. QED
    BY <1>3, <2>5, <2>6, <2>7 DEF FormInv
<1>5. ASSUME form' \in Form, form'.flag = form.flag, form'.org = form.org,
             form'.vehicle = form.vehicle,
             form'.car = form.car \/ ~(form.flag /\ form.vehicle \in vehicles)
      PROVE  FormInv'
  <2>1. FormTypeOK'
    BY <1>1, <1>5 DEF FormInv, FormTypeOK
  <2>2. Chosen'
    BY <1>2, <1>5 DEF Chosen
  <2>3. listsCrossed' \/ Lists'
    BY <1>1, <1>2, <1>5 DEF FormInv, Lists, Chosen, FleetOf
  <2>4. QED
    BY <1>3, <2>1, <2>2, <2>3 DEF FormInv
<1>6. CASE TypeCar
  BY <1>2, <1>5, <1>6 DEF TypeCar, Form
<1>7. ASSUME NEW field \in {"service", "product"}, NEW n \in 0..MaxPieces, SetQuantity(field, n)
      PROVE  FormInv'
  BY <1>2, <1>5, <1>7 DEF SetQuantity, Form
<1>8. QED
  BY <1>4, <1>6, <1>7

\* The modal for a new vehicle.
LEMMA ModalSteps ==
  ASSUME FormInv, OpenModal \/ CloseModal \/ SaveVehicle \/ VehicleNotSaved
  PROVE  FormInv'
<1>1. /\ screen \in {"form", "modal", "saving"} /\ screen' \in {"form", "modal", "saving"}
      /\ UNCHANGED <<fleet, vehicles, fetching, waiting, reply, drafts, unheard, listsCrossed>>
  BY DEF OpenModal, SelectEnabled, CloseModal, SaveVehicle, VehicleNotSaved, answer
<1>2. /\ form' \in Form /\ form'.flag = form.flag /\ form'.org = form.org
      /\ form'.vehicle = NoVehicle
      /\ form.flag /\ form.org # NoOrg
      /\ listsCrossed \/ ~waiting
  BY DEF OpenModal, SelectEnabled, CloseModal, SaveVehicle, VehicleNotSaved, FormInv, FormTypeOK,
         Form, Screens, Lists
<1>3. reply = "none"
  BY <1>1 DEF FormInv, FormTypeOK, Screens
<1>4. FormTypeOK'
  BY <1>1, <1>2 DEF FormInv, FormTypeOK
<1>5. Chosen' /\ Screens' /\ Replies'
  BY <1>1, <1>2, <1>3 DEF FormInv, Chosen, Screens, Replies
<1>6. listsCrossed' \/ Lists'
  BY <1>1, <1>2 DEF FormInv, Lists, FleetOf
<1>7. QED
  BY <1>4, <1>5, <1>6 DEF FormInv

LEMMA VehicleSavedStep ==
  ASSUME FormInv, VehicleSaved
  PROVE  FormInv'
<1> DEFINE g == form.org
           v == <<g, fleet[g] + 1>>
           a == [form EXCEPT !.vehicle = v]
           b == [a EXCEPT !.car = v]
<1>1. form \in Form /\ g \in Orgs /\ form.flag /\ fleet[g] \in 0..MaxFleet /\ fleet[g] < MaxFleet
  BY DEF VehicleSaved, FormInv, FormTypeOK, Screens, Form
<1>2. /\ fleet' \in [Orgs -> 0..MaxFleet]
      /\ fleet'[g] = fleet[g] + 1
      /\ fleet[g] \in Nat
  BY <1>1, FormAssumption DEF VehicleSaved, FormInv, FormTypeOK
<1>3. v \in Vehicle
  BY <1>1, FormAssumption DEF Vehicle
<1>4. form' = b /\ vehicles' = vehicles \cup {v}
  BY <1>2 DEF VehicleSaved
<1> HIDE DEF v
<1>5. a \in Form /\ a.flag = form.flag /\ a.org = form.org /\ a.vehicle = v
  BY <1>1, <1>3 DEF Form
<1> HIDE DEF a
<1>6. b \in Form /\ b.flag = form.flag /\ b.org = form.org /\ b.vehicle = v /\ b.car = v
  BY <1>3, <1>5 DEF Form
<1> HIDE DEF b
<1>7. /\ screen = "saving" /\ screen' = "form"
      /\ UNCHANGED <<fetching, waiting, reply, drafts, unheard, listsCrossed>>
  BY DEF VehicleSaved, answer
<1>8. reply = "none"
  BY <1>7 DEF FormInv, FormTypeOK, Screens
<1>9. FormTypeOK'
  BY <1>2, <1>3, <1>4, <1>6, <1>7 DEF FormInv, FormTypeOK
<1>10. Chosen'
  BY <1>1, <1>4, <1>6, FormAssumption DEF Chosen
<1>11. Screens' /\ Replies'
  BY <1>7, <1>8 DEF FormInv, Screens, Replies
<1>12. ASSUME ~listsCrossed' PROVE Lists'
  <2>1. Lists /\ ~waiting
    BY <1>7, <1>12 DEF FormInv, Lists
  <2>2. fetching = {}
    BY <2>1 DEF Lists
  <2>3. vehicles \subseteq FleetOf(g)
    BY <1>1, <2>1, FormAssumption DEF Lists
  <2>4. FleetOf(g) \subseteq FleetOf(g)' /\ v \in FleetOf(g)'
    <3>1. form'.org = g
      BY <1>4, <1>6
    <3>2. FleetOf(g)' = {g} \X (1..(fleet[g] + 1))
      BY <1>2, <3>1 DEF FleetOf
    <3>3. QED
      BY <1>2, <3>2 DEF FleetOf, v
  <2>5. QED
    BY <1>4, <1>6, <1>7, <2>1, <2>2, <2>3, <2>4 DEF Lists
<1>13. QED
  BY <1>9, <1>10, <1>11, <1>12 DEF FormInv

\* The confirmation screen, and the call from it.
LEMMA SubmitSteps ==
  ASSUME FormInv, Continue \/ Back \/ Submit \/ ServerAnswers \/ SubmitFails
  PROVE  FormInv'
<1>1. /\ UNCHANGED <<fleet, form, vehicles, fetching, waiting, listsCrossed>>
      /\ screen' \in {"form", "confirm", "sending"}
      /\ reply' \in {"none", "created", "refused"}
      /\ drafts' \in 0..MaxDrafts
      /\ screen' \in {"confirm", "sending"} => HasItems
      /\ reply' # "none" => screen' = "sending"
  BY FormAssumption
     DEF Continue, Back, Submit, ServerAnswers, SubmitFails, SaveDraft, answer, FormInv, FormTypeOK,
         Screens
<1>2. drafts \in Nat /\ unheard \in Nat /\ drafts' \in Nat
  BY <1>1, FormAssumption DEF FormInv, FormTypeOK
<1>3. Replies'
  <2>1. UNCHANGED <<PairAccepted(Sent), ServicesFound(Sent)>>
    BY <1>1 DEF Sent, PairAccepted, FleetOf, ServicesFound
  <2>2. CASE Continue \/ Back \/ Submit
    BY <2>1, <2>2 DEF Continue, Back, Submit, FormInv, Replies, Screens, answer
  <2>3. CASE ServerAnswers
    <3>1. Sent.service + Sent.product > 0
      BY <2>3 DEF ServerAnswers, FormInv, Screens, HasItems, Sent
    <3>2. QED
      BY <1>2, <2>1, <2>3, <3>1 DEF ServerAnswers, SaveDraft, FormInv, Replies
  <2>4. CASE SubmitFails
    BY <1>2, <2>4 DEF SubmitFails, FormInv, Replies
  <2>5. QED
    BY <2>2, <2>3, <2>4
<1>4. unheard' \in 0..MaxDrafts
  <2>1. CASE SubmitFails
    BY <1>2, <2>1, FormAssumption DEF SubmitFails, FormInv, FormTypeOK, Replies
  <2>2. CASE ~SubmitFails
    BY <2>2 DEF Continue, Back, Submit, ServerAnswers, answer, FormInv, FormTypeOK
  <2>3. QED
    BY <2>1, <2>2
<1>5. FormTypeOK'
  BY <1>1, <1>4 DEF FormInv, FormTypeOK
<1>6. Chosen' /\ Screens'
  BY <1>1 DEF FormInv, Chosen, Screens, HasItems
<1>7. listsCrossed' \/ Lists'
  BY <1>1 DEF FormInv, Lists, FleetOf
<1>8. QED
  BY <1>3, <1>5, <1>6, <1>7 DEF FormInv

\* A draft that is heard of empties the form.
LEMMA SuccessStep ==
  ASSUME FormInv, SubmitSucceeds
  PROVE  FormInv'
<1>1. form' \in Form /\ form' = Empty /\ fleet' = fleet
  BY FormAssumption DEF SubmitSucceeds, Empty, Form
<1>2. waiting' \in BOOLEAN /\ listsCrossed' \in BOOLEAN
  BY Zenon DEF SubmitSucceeds
<1>3. FormTypeOK'
  BY <1>1, <1>2, FormAssumption DEF SubmitSucceeds, FormInv, FormTypeOK
<1>4. Chosen' /\ Lists' /\ Screens' /\ Replies'
  BY <1>1 DEF SubmitSucceeds, Empty, Chosen, Lists, Screens, Replies
<1>5. QED
  BY <1>3, <1>4 DEF FormInv

LEMMA StepForm ==
  ASSUME FormInv, [FormNext]_formVars
  PROVE  FormInv'
<1>1. CASE UNCHANGED formVars
  BY <1>1 DEF formVars, FormInv, FormTypeOK, Chosen, Lists, Screens, Replies, HasItems, Sent,
              PairAccepted, ServicesFound, FleetOf
<1>2. CASE FormNext
  BY <1>2, ToggleStep, SelectOrgStep, ArriveStep, FieldSteps, ModalSteps, VehicleSavedStep,
     SubmitSteps, SuccessStep
     DEF FormNext
<1>3. QED
  BY <1>1, <1>2

\* What is sent from a form whose lists have not crossed is the choice in front.
LEMMA SentIsChosen ==
  ASSUME FormInv
  PROVE  /\ Sent.vehicle # NoVehicle => Sent.org # NoOrg
         /\ Sent.vehicle # NoVehicle /\ ~listsCrossed =>
              Sent.car = Sent.vehicle /\ Sent.vehicle \in FleetOf(Sent.org)
BY DEF FormInv, Chosen, Lists, Sent

\* DraftIsTheForm, with the types: what createDraft accepts is the organization,
\* vehicle and plate on the form, and what it refuses the form lets through in
\* the three known cases only.
THEOREM DraftsAreTheForm == FormSpec => [](FormTypeOK /\ DraftIsTheForm)
<1>1. FormInv => FormTypeOK /\ DraftIsTheForm
  <2> SUFFICES ASSUME FormInv PROVE FormTypeOK /\ DraftIsTheForm
    OBVIOUS
  <2>1. ASSUME reply = "created"
        PROVE  /\ (Sent.org = NoOrg) = (Sent.vehicle = NoVehicle)
               /\ Sent.vehicle # NoVehicle =>
                    Sent.vehicle[1] = Sent.org /\ (listsCrossed \/ Sent.car = Sent.vehicle)
    <3>1. PairAccepted(Sent)
      BY <2>1 DEF FormInv, Replies
    <3>2. CASE Sent.org = NoOrg /\ Sent.vehicle = NoVehicle
      BY <3>2
    <3>3. CASE Sent.org # NoOrg /\ Sent.vehicle \in FleetOf(Sent.org)
      <4>1. Sent.org \in Orgs
        BY <3>3 DEF FormInv, FormTypeOK, Form, Sent
      <4>2. Sent.vehicle \in Orgs \X Nat /\ Sent.vehicle[1] = Sent.org
        BY <3>3, <4>1 DEF FleetOf
      <4>3. Sent.vehicle # NoVehicle
        BY <4>2, FormAssumption
      <4>4. QED
        BY <3>3, <4>2, <4>3, SentIsChosen
    <3>4. QED
      BY <3>1, <3>2, <3>3 DEF PairAccepted
  <2>2. RefusalsKnown
    <3>1. Sent.service \in Nat
      BY FormAssumption DEF FormInv, FormTypeOK, Form, Sent
    <3>2. QED
      BY <3>1, SentIsChosen
         DEF FormInv, Replies, RefusalsKnown, PairAccepted, ServicesFound
  <2>3. QED
    BY <2>1, <2>2 DEF FormInv, DraftIsTheForm, DraftNamesItsCar
<1>2. QED
  BY FormInitially, StepForm, <1>1, PTL DEF FormSpec

\* OneDraftPerAnswer: a form makes one order, and one more for each answer that
\* was lost (handleConfirmSubmit, createDraft).
THEOREM DraftsAreAnswered == FormSpec => []OneDraftPerAnswer
<1>1. FormInv => OneDraftPerAnswer
  <2> SUFFICES ASSUME FormInv PROVE OneDraftPerAnswer
    OBVIOUS
  <2>1. drafts \in Nat /\ unheard \in Nat
    BY FormAssumption DEF FormInv, FormTypeOK
  <2>2. QED
    BY <2>1 DEF FormInv, Replies, OneDraftPerAnswer
<1>2. QED
  BY FormInitially, StepForm, <1>1, PTL DEF FormSpec
-----------------------------------------------------------------------------
(* An organization's debt.                                                 *)

Page == [shown : Reading \cup {NoReading}, answer : Reading \cup {NoReading},
         pay : Payment \cup {NoPayment}]

\* What a page holds is the debt, and its payment is computed from it, unless
\* it is marked old.
Current(r) == r = NoReading \/ r.old \/ r.debt = balanceDue
PaysTheDebt(pay) ==
  pay.at = "sent" => pay.old \/ pay.debt = DebtAfter(balanceDue, pay.amount)
PageInv(pg) == Current(pg.shown) /\ Current(pg.answer) /\ PaysTheDebt(pg.pay)

\* Before the organization exists nothing is settled, shown or paid.
NothingYet ==
  balanceDue = NoDebt =>
    /\ \A o \in DebtOrders : settledBy[o] = "open"
    /\ \A t \in BossTabs : /\ orgPage[t].shown = NoReading
                           /\ orgPage[t].answer = NoReading
                           /\ orgPage[t].pay = NoPayment

DebtInv ==
  /\ OrganizationsTypeOK
  /\ NothingYet
  /\ DebtIsAccounted
  /\ \A t \in BossTabs : PageInv(orgPage[t])

\* A page that is outdated claims nothing about the debt.
LEMMA OutdatedPages ==
  ASSUME NEW pg \in Page
  PROVE  /\ Outdated(pg) \in Page
         /\ Outdated(pg).shown = NoReading \/ Outdated(pg).shown.old
         /\ Outdated(pg).answer = NoReading \/ Outdated(pg).answer.old
         /\ Outdated(pg).pay.at = "sent" => Outdated(pg).pay.old
         /\ Outdated(pg).pay = NoPayment \/ Outdated(pg).pay \in Payment
<1>1. ASSUME NEW r \in Reading \cup {NoReading}
      PROVE  /\ Old(r) \in Reading \cup {NoReading}
             /\ Old(r) = NoReading \/ Old(r).old
  BY DEF Old, Reading
<1>2. DEFINE pay == IF pg.pay.at = "sent" THEN [pg.pay EXCEPT !.old = TRUE] ELSE pg.pay
<1>3. /\ pg.shown \in Reading \cup {NoReading}
      /\ pg.answer \in Reading \cup {NoReading}
      /\ pg.pay \in Payment \cup {NoPayment}
  BY DEF Page
<1>4. /\ pay \in Payment \cup {NoPayment}
      /\ pay.at = "sent" => pay.old
  <2>1. CASE pg.pay = NoPayment
    BY <2>1 DEF NoPayment
  <2>2. CASE pg.pay \in Payment
    BY <2>2 DEF Payment
  <2>3. QED
    BY <1>3, <2>1, <2>2
<1>5. Outdated(pg) = [shown |-> Old(pg.shown), answer |-> Old(pg.answer), pay |-> pay]
  BY DEF Outdated
<1> HIDE DEF pay
<1>6. QED
  BY <1>1, <1>3, <1>4, <1>5 DEF Page

\* A payment of a current debt is the debt after it.
LEMMA DebtsStayNat ==
  ASSUME NEW debt \in Nat, NEW amount \in Payments
  PROVE  DebtAfter(debt, amount) \in Nat
BY OrganizationsAssumption DEF DebtAfter

LEMMA DebtInitially == OrganizationsInit => DebtInv
<1> SUFFICES ASSUME OrganizationsInit PROVE DebtInv
  OBVIOUS
<1>1. OrganizationsTypeOK
  <2>1. orgPage \in [BossTabs -> [shown : Reading \cup {NoReading},
                                 answer : Reading \cup {NoReading},
                                 pay : Payment \cup {NoPayment}]]
    BY DEF OrganizationsInit
  <2>2. sentPayments \in 0..MaxPayments /\ owes \in Nat
    BY OrganizationsAssumption DEF OrganizationsInit
  <2>3. crossedOut \in BOOLEAN
    BY Zenon DEF OrganizationsInit
  <2>4. QED
    BY <2>1, <2>2, <2>3 DEF OrganizationsInit, OrganizationsTypeOK
<1>2. NothingYet /\ DebtIsAccounted
  BY DEF OrganizationsInit, NothingYet, DebtIsAccounted
<1>3. \A t \in BossTabs : PageInv(orgPage[t])
  BY DEF OrganizationsInit, PageInv, Current, PaysTheDebt, NoPayment
<1>4. QED
  BY <1>1, <1>2, <1>3 DEF DebtInv

\* Steps that write no debt and change no reading's age.
LEMMA SettlementSteps ==
  ASSUME DebtInv, NEW o \in DebtOrders,
         ReadForSettlement(o) \/ SettleOrder(o) \/ SettlementFails(o)
  PROVE  DebtInv'
<1> USE OrganizationsAssumption DEF DebtInv
<1>1. CASE ReadForSettlement(o)
  BY <1>1 DEF ReadForSettlement, OrganizationsTypeOK, NothingYet, DebtIsAccounted,
              PageInv, Current, PaysTheDebt
<1>2. CASE SettleOrder(o)
  <2>1. balanceDue \in Nat /\ balanceDue' \in Nat
    BY <1>2 DEF SettleOrder, OrganizationsTypeOK, NothingYet, NoDebt
  <2>2. ASSUME NEW t \in BossTabs
        PROVE  orgPage[t] \in Page /\ orgPage'[t] = Outdated(orgPage[t])
    BY <1>2 DEF SettleOrder, OrganizationsTypeOK, Page
  <2>3. orgPage' \in [BossTabs -> Page]
    BY <1>2, <2>2, OutdatedPages DEF SettleOrder
  <2>4. OrganizationsTypeOK'
    BY <1>2, <2>1, <2>3 DEF SettleOrder, OrganizationsTypeOK, Page
  <2>5. DebtIsAccounted' /\ NothingYet'
    BY <1>2, <2>1 DEF SettleOrder, DebtIsAccounted, NothingYet, NoDebt, OrganizationsTypeOK
  <2>6. ASSUME NEW t \in BossTabs PROVE PageInv(orgPage[t])'
    BY <2>2, OutdatedPages DEF PageInv, Current, PaysTheDebt
  <2>7. QED
    BY <2>4, <2>5, <2>6
<1>3. CASE SettlementFails(o)
  BY <1>3 DEF SettlementFails, OrganizationsTypeOK, NothingYet, DebtIsAccounted,
              PageInv, Current, PaysTheDebt
<1>4. QED
  BY <1>1, <1>2, <1>3

\* createOrganization: nothing has been read of it yet.
LEMMA CreateStep ==
  ASSUME DebtInv, NEW debt \in Opening, CreateOrganization(debt)
  PROVE  DebtInv'
BY OrganizationsAssumption
DEF CreateOrganization, DebtInv, OrganizationsTypeOK, NothingYet, DebtIsAccounted,
    PageInv, Current, PaysTheDebt, NoPayment, NoDebt

\* The page of one tab is replaced and the debt left alone.
LEMMA OneTab ==
  ASSUME DebtInv, NEW t \in BossTabs, NEW pg \in Page,
         balanceDue # NoDebt,
         orgPage' = [orgPage EXCEPT ![t] = pg],
         PageInv(pg),
         sentPayments' \in 0..MaxPayments,
         UNCHANGED <<balanceDue, settledBy, owes, crossedOut>>
  PROVE  DebtInv'
<1>1. OrganizationsTypeOK'
  BY DEF DebtInv, OrganizationsTypeOK, Page
<1>2. NothingYet' /\ DebtIsAccounted'
  BY DEF DebtInv, NothingYet, DebtIsAccounted
<1>3. ASSUME NEW u \in BossTabs PROVE PageInv(orgPage[u])'
  <2>1. orgPage'[u] = IF u = t THEN pg ELSE orgPage[u]
    BY DEF DebtInv, OrganizationsTypeOK
  <2>2. PageInv(orgPage'[u])
    BY <2>1 DEF DebtInv
  <2>3. QED
    BY <2>2 DEF PageInv, Current, PaysTheDebt
<1>4. QED
  BY <1>1, <1>2, <1>3 DEF DebtInv

\* The page of the organization and its PaymentDialog.
LEMMA PageSteps ==
  ASSUME DebtInv, NEW t \in BossTabs,
         \/ ReadOrganization(t) \/ ShowOrganization(t)
         \/ \E amount \in Payments : PayDebt(t, amount)
         \/ PaymentAnswered(t) \/ PaymentFails(t)
  PROVE  DebtInv'
<1>1. orgPage \in [BossTabs -> Page] /\ orgPage[t] \in Page /\ PageInv(orgPage[t])
  BY DEF DebtInv, OrganizationsTypeOK, Page
<1>2. sentPayments \in 0..MaxPayments /\ balanceDue \in Nat \cup {NoDebt}
  BY DEF DebtInv, OrganizationsTypeOK
<1>3. CASE ReadOrganization(t)
  <2> DEFINE pg == [orgPage[t] EXCEPT !.answer = [debt |-> balanceDue, old |-> FALSE]]
  <2>1. pg \in Page /\ PageInv(pg)
    BY <1>1, <1>2, <1>3 DEF ReadOrganization, Page, Reading, PageInv, Current, PaysTheDebt
  <2>2. orgPage' = [orgPage EXCEPT ![t] = pg]
    BY <1>3 DEF ReadOrganization
  <2> HIDE DEF pg
  <2>3. QED
    BY <1>2, <1>3, <2>1, <2>2, OneTab DEF ReadOrganization
<1>4. CASE ShowOrganization(t)
  <2> DEFINE pg == [orgPage[t] EXCEPT !.shown = orgPage[t].answer, !.answer = NoReading]
  <2>1. pg \in Page /\ PageInv(pg)
    BY <1>1, <1>2 DEF Page, PageInv, Current, PaysTheDebt
  <2>2. orgPage' = [orgPage EXCEPT ![t] = pg]
    BY <1>1, <1>4 DEF ShowOrganization
  <2>3. balanceDue # NoDebt
    BY <1>4 DEF ShowOrganization, DebtInv, NothingYet
  <2> HIDE DEF pg
  <2>4. QED
    BY <1>2, <1>4, <2>1, <2>2, <2>3, OneTab DEF ShowOrganization
<1>5. ASSUME NEW amount \in Payments, PayDebt(t, amount)
      PROVE  DebtInv'
  <2> DEFINE seen == orgPage[t].shown
             pay == [at |-> "sent", amount |-> amount, old |-> seen.old,
                     debt |-> DebtAfter(seen.debt, amount)]
             pg == [orgPage[t] EXCEPT !.pay = pay]
  <2>1. seen \in Reading /\ seen.debt \in Nat
    BY <1>1, <1>5 DEF PayDebt, Page, Reading
  <2>2. pay \in Payment
    BY <2>1, DebtsStayNat DEF Payment, Reading
  <2>3. PaysTheDebt(pay)
    BY <1>1, <1>5 DEF PayDebt, PaysTheDebt, PageInv, Current
  <2>4. orgPage' = [orgPage EXCEPT ![t] = pg]
    BY <1>5 DEF PayDebt
  <2>5. balanceDue # NoDebt
    BY <1>5 DEF PayDebt, DebtInv, NothingYet
  <2>6. sentPayments' \in 0..MaxPayments
    BY <1>2, <1>5, OrganizationsAssumption DEF PayDebt
  <2> HIDE DEF pay
  <2>7. pg \in Page /\ PageInv(pg)
    BY <1>1, <2>2, <2>3 DEF Page, PageInv
  <2> HIDE DEF pg
  <2>8. QED
    BY <1>5, <2>4, <2>5, <2>6, <2>7, OneTab DEF PayDebt
<1>6. CASE PaymentAnswered(t)
  <2> DEFINE pg == [orgPage[t] EXCEPT !.pay = NoPayment, !.answer = NoReading]
  <2>1. pg \in Page /\ PageInv(pg)
    BY <1>1 DEF Page, PageInv, Current, PaysTheDebt, NoPayment
  <2>2. orgPage' = [orgPage EXCEPT ![t] = pg]
    BY <1>6 DEF PaymentAnswered
  <2>3. balanceDue # NoDebt
    BY <1>6 DEF PaymentAnswered, DebtInv, NothingYet, NoPayment
  <2> HIDE DEF pg
  <2>4. QED
    BY <1>2, <1>6, <2>1, <2>2, <2>3, OneTab DEF PaymentAnswered
<1>7. CASE PaymentFails(t)
  <2> DEFINE pg == [orgPage[t] EXCEPT !.pay = NoPayment]
  <2>1. pg \in Page /\ PageInv(pg)
    BY <1>1 DEF Page, PageInv, Current, PaysTheDebt, NoPayment
  <2>2. orgPage' = [orgPage EXCEPT ![t] = pg]
    BY <1>7 DEF PaymentFails
  <2>3. balanceDue # NoDebt
    BY <1>7 DEF PaymentFails, DebtInv, NothingYet, NoPayment
  <2> HIDE DEF pg
  <2>4. QED
    BY <1>2, <1>7, <2>1, <2>2, <2>3, OneTab DEF PaymentFails
<1>8. QED
  BY <1>3, <1>4, <1>5, <1>6, <1>7

\* updateOrganization: the debt it writes is the one owed, unless the page had
\* been overtaken; every reading is old afterwards.
LEMMA UpdateStep ==
  ASSUME DebtInv, NEW t \in BossTabs, UpdateOrganization(t)
  PROVE  DebtInv'
<1> DEFINE pay == orgPage[t].pay
<1>1. ASSUME NEW u \in BossTabs PROVE orgPage[u] \in Page
  BY DEF DebtInv, OrganizationsTypeOK, Page
<1>2. pay.at = "sent" /\ pay \in Payment
  BY <1>1 DEF UpdateOrganization, Page, NoPayment
<1>3. balanceDue \in Nat
  BY DEF UpdateOrganization, DebtInv, NothingYet, NoPayment, OrganizationsTypeOK
<1>4. balanceDue' \in Nat
  BY <1>2 DEF UpdateOrganization, Payment
<1>5. owes' \in Nat
  BY <1>2, OrganizationsAssumption DEF UpdateOrganization, Payment, DebtInv, OrganizationsTypeOK
<1>6. [pay EXCEPT !.at = "done"] \in Payment
  BY <1>2 DEF Payment
<1>7. ASSUME NEW u \in BossTabs
      PROVE  orgPage'[u] \in Page /\ PageInv(orgPage[u])'
  <2>1. CASE u = t
    <3>1. orgPage'[u] = [Outdated(orgPage[t]) EXCEPT !.pay = [pay EXCEPT !.at = "done"]]
      BY <2>1 DEF UpdateOrganization
    <3>2. [pay EXCEPT !.at = "done"].at = "done"
      BY <1>2 DEF Payment
    <3> HIDE DEF pay
    <3>3. QED
      BY <1>1, <1>6, <2>1, <3>1, <3>2, OutdatedPages DEF Page, PageInv, Current, PaysTheDebt
  <2>2. CASE u # t
    <3>1. orgPage'[u] = Outdated(orgPage[u])
      BY <2>2 DEF UpdateOrganization
    <3>2. QED
      BY <1>1, <3>1, OutdatedPages DEF PageInv, Current, PaysTheDebt
  <2>3. QED
    BY <2>1, <2>2
<1>8. orgPage' \in [BossTabs -> Page]
  BY <1>7 DEF UpdateOrganization
<1>9. OrganizationsTypeOK'
  <2>1. pay.old \in BOOLEAN
    BY <1>2 DEF Payment
  <2>2. QED
    BY <1>4, <1>5, <1>8, <2>1 DEF UpdateOrganization, DebtInv, OrganizationsTypeOK, Page
<1>10. DebtIsAccounted'
  <2>1. SUFFICES ASSUME ~crossedOut' PROVE balanceDue' = owes'
    BY DEF DebtIsAccounted
  <2>2. ~crossedOut /\ ~pay.old
    BY <2>1 DEF UpdateOrganization
  <2>3. balanceDue = owes
    BY <1>3, <2>2 DEF DebtInv, DebtIsAccounted, NoDebt
  <2>4. pay.debt = DebtAfter(balanceDue, pay.amount)
    BY <1>2, <2>2 DEF DebtInv, PageInv, PaysTheDebt
  <2>5. QED
    BY <2>3, <2>4 DEF UpdateOrganization, DebtAfter
<1>11. NothingYet'
  BY <1>4 DEF NothingYet, NoDebt
<1>12. QED
  BY <1>7, <1>9, <1>10, <1>11 DEF DebtInv

LEMMA StepDebt == DebtInv /\ [OrganizationsNext]_organizationVars => DebtInv'
<1>1. CASE UNCHANGED organizationVars
  BY <1>1 DEF organizationVars, DebtInv, OrganizationsTypeOK, NothingYet, DebtIsAccounted,
              PageInv, Current, PaysTheDebt
<1>2. QED
  BY <1>1, CreateStep, SettlementSteps, PageSteps, UpdateStep DEF OrganizationsNext

\* DebtIsAccounted, with the types: as long as no payment was written over a
\* debt its page did not show, the debt is the opening one and the settled
\* orders less the payments (customerConfirm, updateOrganization).
THEOREM DebtsAreAccounted ==
  OrganizationsSpec => [](OrganizationsTypeOK /\ DebtIsAccounted)
<1>1. DebtInv => OrganizationsTypeOK /\ DebtIsAccounted
  BY DEF DebtInv
<1>2. QED
  BY DebtInitially, StepDebt, <1>1, PTL DEF OrganizationsSpec
-----------------------------------------------------------------------------
(* The pages with a copy of the orders.                                    *)

\* What the server has read is an answer of the order's own past, and no older
\* than what the page shows when it comes.
AnswerIsTrue(a) ==
  a.state = "read" =>
    \A o \in Cards : a.orders[o].status # NoStatus =>
      /\ a.orders[o].status \in past[o]
      /\ a.orders[o].asOf <= clock
      /\ card[o].status # NoStatus => card[o].asOf <= a.orders[o].asOf

\* So is a call that has been done.
CallIsTrue(k) ==
  /\ ButtonTarget(k.from) # NoStatus
  /\ k.state = "done" =>
       /\ ButtonTarget(k.from) \in past[k.order]
       /\ k.asOf <= clock
       /\ k.order \notin twice /\ card[k.order].status # NoStatus =>
            card[k.order].asOf <= k.asOf

CardsAreTrue ==
  \A o \in Cards :
    /\ cardStatus[o] \in past[o]
    /\ card[o].status # NoStatus => card[o].status \in past[o] /\ card[o].asOf <= clock

\* One fetch at a time; one call at a time of an order that is not in twice.
OneAtATime ==
  /\ \A f, g \in fetches : f = g
  /\ \A c, d \in calls : c[2].order = d[2].order /\ c[2].order \notin twice => c = d

\* Only the list of active orders is loaded again behind what it shows, and it
\* has no buttons: no answer comes between a call and its success.
FetchOrAct ==
  /\ view = "active" => calls = {}
  /\ blank => calls = {} /\ \A o \in Cards : card[o] = Nothing
  /\ view # "active" /\ fetches # {} => blank

CardsInv ==
  /\ CardsTypeOK
  /\ IsFiniteSet(calls)
  /\ CardsAreTrue
  /\ OneAtATime
  /\ FetchOrAct
  /\ \A f \in fetches : AnswerIsTrue(f[2])
  /\ \A c \in calls : CallIsTrue(c[2])

\* What a card may do in one step.
CardsMoveOn ==
  \A o \in Cards : card'[o].status # NoStatus =>
    /\ card'[o].status \in past'[o]
    /\ o \notin twice /\ card[o].status # NoStatus => card'[o].asOf >= card[o].asOf

\* A button that does something takes an order to a status.
LEMMA ButtonTargets ==
  ASSUME NEW st, ButtonTarget(st) # NoStatus
  PROVE  ButtonTarget(st) \in CardStatuses
BY DEF ButtonTarget, CardStatuses

\* With fewer than three under way there is a free number among 1..3.
LEMMA FreshNumber ==
  ASSUME NEW s, IsFiniteSet(s), Cardinality(s) < 3
  PROVE  Fresh(s) \in 1..3
<1> DEFINE Free(n) ==
             \A x \in s : x[1] # n /\ \A k \in 1..(n - 1) : \E y \in s : y[1] = k
<1>1. \E n \in 1..3 : Free(n)
  <2>1. CASE \A x \in s : x[1] # 1
    BY <2>1
  <2>2. CASE (\E x \in s : x[1] = 1) /\ \A x \in s : x[1] # 2
    <3>1. \A k \in 1..(2 - 1) : k = 1
      OBVIOUS
    <3>2. Free(2)
      BY <2>2, <3>1
    <3>3. QED
      BY <3>2
  <2>3. CASE /\ \E x \in s : x[1] = 1
             /\ \E x \in s : x[1] = 2
             /\ \A x \in s : x[1] # 3
    <3>1. \A k \in 1..(3 - 1) : k = 1 \/ k = 2
      OBVIOUS
    <3>2. Free(3)
      BY <2>3, <3>1
    <3>3. QED
      BY <3>2
  <2>4. CASE \A k \in 1..3 : \E x \in s : x[1] = k
    <3>1. PICK x \in s, y \in s, z \in s : x[1] = 1 /\ y[1] = 2 /\ z[1] = 3
      BY <2>4
    <3>2. x # y /\ x # z /\ y # z
      BY <3>1
    <3>3. IsFiniteSet({}) /\ Cardinality({}) = 0
      BY FS_EmptySet
    <3>4. IsFiniteSet({x}) /\ Cardinality({x}) = 1
      <4>1. {} \cup {x} = {x} /\ x \notin {}
        OBVIOUS
      <4>2. /\ IsFiniteSet({} \cup {x})
            /\ Cardinality({} \cup {x}) = IF x \in {} THEN Cardinality({})
                                          ELSE Cardinality({}) + 1
        BY <3>3, FS_AddElement
      <4>3. QED
        BY <3>3, <4>1, <4>2
    <3>5. IsFiniteSet({x, y}) /\ Cardinality({x, y}) = 2
      <4>1. {x} \cup {y} = {x, y} /\ y \notin {x}
        BY <3>2
      <4>2. /\ IsFiniteSet({x} \cup {y})
            /\ Cardinality({x} \cup {y}) = IF y \in {x} THEN Cardinality({x})
                                           ELSE Cardinality({x}) + 1
        BY <3>4, FS_AddElement
      <4>3. QED
        BY <3>4, <4>1, <4>2
    <3>6. Cardinality({x, y, z}) = 3
      <4>1. {x, y} \cup {z} = {x, y, z} /\ z \notin {x, y}
        BY <3>2
      <4>2. Cardinality({x, y} \cup {z}) = IF z \in {x, y} THEN Cardinality({x, y})
                                           ELSE Cardinality({x, y}) + 1
        BY <3>5, FS_AddElement
      <4>3. QED
        BY <3>5, <4>1, <4>2
    <3>7. Cardinality({x, y, z}) <= Cardinality(s)
      BY FS_Subset
    <3>8. Cardinality(s) \in Nat
      BY FS_CardinalityType
    <3>9. QED
      BY <3>6, <3>7, <3>8
  <2>5. QED
    BY <2>1, <2>2, <2>3, <2>4
<1>2. Fresh(s) = CHOOSE n \in 1..3 : Free(n)
  BY DEF Fresh
<1> HIDE DEF Free
<1>3. QED
  BY <1>1, <1>2

\* The page is mounted: it shows nothing and asks.
LEMMA CardsInitially == CardsInit => CardsInv
<1> SUFFICES ASSUME CardsInit PROVE CardsInv
  OBVIOUS
<1>1. /\ view \in Views
      /\ cardStatus \in [Cards -> CardStatuses]
      /\ clock = 0
      /\ past = [o \in Cards |-> {cardStatus[o]}]
      /\ card = [o \in Cards |-> Nothing]
      /\ fetches = {<<1, Asked>>} /\ blank = TRUE /\ acting = NoCard
      /\ calls = {} /\ twice = {}
  BY DEF CardsInit, Views, CardStatuses
<1>2. Nothing \in Shown /\ Nothing.status = NoStatus /\ Nothing.asOf = 0
  BY CardsAssumption DEF Nothing, Shown
<1>3. Asked \in Answer /\ Asked.state = "asked"
  BY DEF Asked, Answer
<1>4. CardsTypeOK
  <2>1. clock \in 0..MaxSteps /\ past \in [Cards -> SUBSET CardStatuses]
    BY <1>1, CardsAssumption
  <2>2. card \in [Cards -> Shown]
    BY <1>1, <1>2
  <2>3. \A f \in fetches : f[1] \in 1..3 /\ f[2] \in Answer
    BY <1>1, <1>3
  <2>4. QED
    BY <1>1, <2>1, <2>2, <2>3 DEF CardsTypeOK
<1>5. CardsAreTrue /\ OneAtATime
  BY <1>1, <1>2 DEF CardsAreTrue, OneAtATime
<1>6. FetchOrAct
  BY <1>1 DEF FetchOrAct
<1>7. \A f \in fetches : AnswerIsTrue(f[2])
  BY <1>1, <1>3 DEF AnswerIsTrue
<1>8. \A c \in calls : CallIsTrue(c[2])
  BY <1>1
<1>9. IsFiniteSet(calls)
  BY <1>1, FS_EmptySet
<1>10. QED
  BY <1>4, <1>5, <1>6, <1>7, <1>8, <1>9 DEF CardsInv

\* Orders that go on make nothing untrue that was true of them.
LEMMA TimePasses ==
  ASSUME CardsInv, UNCHANGED card, twice \subseteq twice', clock' \in 0..MaxSteps,
         clock <= clock', \A o \in Cards : past[o] \subseteq past'[o]
  PROVE  /\ \A f \in fetches : AnswerIsTrue(f[2])'
         /\ \A c \in calls : CallIsTrue(c[2])'
         /\ \A o \in Cards : card'[o].status # NoStatus =>
                             card'[o].status \in past'[o] /\ card'[o].asOf <= clock'
<1>1. /\ clock \in Nat /\ clock' \in Nat /\ card \in [Cards -> Shown] /\ CardsAreTrue
      /\ \A o \in Cards : card[o].asOf \in Nat
  BY CardsAssumption DEF CardsInv, CardsTypeOK, Shown
<1>2. ASSUME NEW f \in fetches PROVE AnswerIsTrue(f[2])'
  <2>1. AnswerIsTrue(f[2])
    BY DEF CardsInv
  <2>2. ASSUME f[2].state = "read", NEW o \in Cards PROVE f[2].orders[o].asOf \in Nat
    <3>1. f[2] \in Answer
      BY DEF CardsInv, CardsTypeOK
    <3>2. f[2].orders \in [Cards -> Shown]
      BY <2>2, <3>1 DEF Answer
    <3>3. QED
      BY <3>2, CardsAssumption DEF Shown
  <2>3. QED
    BY <1>1, <2>1, <2>2 DEF AnswerIsTrue
<1>3. ASSUME NEW c \in calls PROVE CallIsTrue(c[2])'
  <2>1. CallIsTrue(c[2]) /\ c[2] \in Call
    BY DEF CardsInv, CardsTypeOK
  <2>2. c[2].asOf \in Nat /\ c[2].order \in Cards
    BY <2>1, CardsAssumption DEF Call
  <2>3. QED
    BY <1>1, <2>1, <2>2 DEF CallIsTrue
<1>4. QED
  BY <1>1, <1>2, <1>3 DEF CardsAreTrue

\* A change on the server is another status of the order's past.
LEMMA ChangeAges ==
  ASSUME CardsInv, NEW o \in Cards, NEW to \in CardStatuses, Change(o, to)
  PROVE  /\ clock' \in 0..MaxSteps /\ clock <= clock' /\ clock' = clock + 1
         /\ cardStatus' \in [Cards -> CardStatuses]
         /\ past' \in [Cards -> SUBSET CardStatuses]
         /\ to \in past'[o]
         /\ \A p \in Cards : past[p] \subseteq past'[p] /\ cardStatus'[p] \in past'[p]
<1>1. /\ clock \in 0..MaxSteps /\ cardStatus \in [Cards -> CardStatuses]
      /\ past \in [Cards -> SUBSET CardStatuses]
      /\ \A p \in Cards : cardStatus[p] \in past[p]
  BY DEF CardsInv, CardsTypeOK, CardsAreTrue
<1>2. /\ clock < MaxSteps /\ clock' = clock + 1
      /\ cardStatus' = [cardStatus EXCEPT ![o] = to]
      /\ past' = [past EXCEPT ![o] = @ \cup {to}]
  BY DEF Change
<1>3. clock' \in 0..MaxSteps /\ clock <= clock'
  BY <1>1, <1>2, CardsAssumption
<1>4. /\ cardStatus' \in [Cards -> CardStatuses]
      /\ past' \in [Cards -> SUBSET CardStatuses]
  BY <1>1, <1>2
<1>5. to \in past'[o] /\ \A p \in Cards : past[p] \subseteq past'[p] /\ cardStatus'[p] \in past'[p]
  BY <1>1, <1>2
<1>6. QED
  BY <1>2, <1>3, <1>4, <1>5

\* The order moves on elsewhere.
LEMMA MovesOnStep ==
  ASSUME CardsInv, NEW o \in Cards, NEW to \in CardStatuses, MovesOn(o, to)
  PROVE  CardsInv' /\ CardsMoveOn
<1>1. Change(o, to) /\ UNCHANGED <<view, card, fetches, blank, acting, calls, twice>>
  BY DEF MovesOn
<1>2. /\ clock' \in 0..MaxSteps /\ clock <= clock'
      /\ cardStatus' \in [Cards -> CardStatuses] /\ past' \in [Cards -> SUBSET CardStatuses]
      /\ \A p \in Cards : past[p] \subseteq past'[p] /\ cardStatus'[p] \in past'[p]
  BY <1>1, ChangeAges
<1>3. /\ \A f \in fetches' : AnswerIsTrue(f[2])'
      /\ \A c \in calls' : CallIsTrue(c[2])'
      /\ \A p \in Cards : card'[p].status # NoStatus =>
                          card'[p].status \in past'[p] /\ card'[p].asOf <= clock'
  BY <1>1, <1>2, TimePasses
<1>4. CardsTypeOK'
  BY <1>1, <1>2 DEF CardsInv, CardsTypeOK
<1>5. (CardsAreTrue /\ OneAtATime /\ FetchOrAct)' /\ IsFiniteSet(calls')
  BY <1>1, <1>2, <1>3 DEF CardsInv, CardsAreTrue, OneAtATime, FetchOrAct
<1>6. CardsMoveOn
  <2>1. \A p \in Cards : card[p].asOf \in Nat
    BY CardsAssumption DEF CardsInv, CardsTypeOK, Shown
  <2>2. QED
    BY <1>1, <1>3, <2>1 DEF CardsMoveOn
<1>7. QED
  BY <1>3, <1>4, <1>5, <1>6 DEF CardsInv

\* A step that leaves the server and the cards alone.
LEMMA CardsStand ==
  ASSUME CardsInv, UNCHANGED <<cardStatus, clock, past, card, twice>>
  PROVE  /\ CardsAreTrue' /\ CardsMoveOn
         /\ \A f \in fetches : AnswerIsTrue(f[2])'
         /\ \A c \in calls : CallIsTrue(c[2])'
<1>1. clock \in 0..MaxSteps /\ clock' = clock /\ clock <= clock'
      /\ \A p \in Cards : card[p].asOf \in Nat
  BY CardsAssumption DEF CardsInv, CardsTypeOK, Shown
<1>2. /\ \A f \in fetches : AnswerIsTrue(f[2])'
      /\ \A c \in calls : CallIsTrue(c[2])'
  BY <1>1, TimePasses
<1>3. CardsAreTrue'
  BY DEF CardsInv, CardsAreTrue
<1>4. CardsMoveOn
  BY <1>1 DEF CardsInv, CardsAreTrue, CardsMoveOn
<1>5. QED
  BY <1>2, <1>3, <1>4

\* The server reads: the answer is true now.
LEMMA ServerReadsStep ==
  ASSUME CardsInv, NEW f \in fetches, ServerReads(f)
  PROVE  CardsInv' /\ CardsMoveOn
<1> DEFINE orders == [o \in Cards |-> IF Visible(o)
                                      THEN [status |-> cardStatus[o], asOf |-> clock]
                                      ELSE Nothing]
           a == [state |-> "read", orders |-> orders]
           g == <<f[1], a>>
<1>1. /\ fetches' = (fetches \ {f}) \cup {g}
      /\ UNCHANGED <<view, cardStatus, clock, past, card, blank, acting, calls, twice>>
  BY DEF ServerReads
<1>2. CardsTypeOK /\ CardsAreTrue /\ OneAtATime /\ FetchOrAct
  BY DEF CardsInv
<1>3. fetches' = {g}
  BY <1>1, <1>2 DEF OneAtATime
<1>4. g[1] = f[1] /\ g[2] = a /\ a.state = "read" /\ a.orders = orders
  OBVIOUS
<1>5. orders \in [Cards -> Shown]
  BY <1>2, CardsAssumption DEF CardsTypeOK, Shown, Nothing
<1>6. a \in Answer
  BY <1>5 DEF Answer
<1>7. \A o \in Cards : /\ orders[o].status # NoStatus =>
                            orders[o].status = cardStatus[o] /\ orders[o].asOf = clock
  BY DEF Nothing
<1> HIDE DEF orders, a, g
<1>8. AnswerIsTrue(g[2])'
  <2>1. /\ clock \in Nat
        /\ \A o \in Cards : /\ cardStatus[o] \in past[o]
                            /\ card[o].status # NoStatus => card[o].asOf <= clock
    BY <1>2, CardsAssumption DEF CardsAreTrue, CardsTypeOK
  <2>2. ASSUME NEW o \in Cards, orders[o].status # NoStatus
        PROVE  /\ orders[o].status \in past'[o]
               /\ orders[o].asOf <= clock'
               /\ card'[o].status # NoStatus => card'[o].asOf <= orders[o].asOf
    BY <1>1, <1>7, <2>1, <2>2
  <2>3. g' = g /\ a' = a /\ orders' = orders
    BY <1>1 DEF g, a, orders, Visible
  <2>4. QED
    BY <1>4, <2>2, <2>3 DEF AnswerIsTrue
<1>9. CardsAreTrue' /\ CardsMoveOn /\ \A c \in calls' : CallIsTrue(c[2])'
  BY <1>1, CardsStand
<1>10. CardsTypeOK'
  BY <1>1, <1>2, <1>3, <1>4, <1>6 DEF CardsTypeOK
<1>11. (OneAtATime /\ FetchOrAct)' /\ IsFiniteSet(calls')
  BY <1>1, <1>2, <1>3 DEF OneAtATime, FetchOrAct, CardsInv
<1>12. \A h \in fetches' : AnswerIsTrue(h[2])'
  <2>1. g' = g
    BY <1>1 DEF g, a, orders, Visible
  <2>2. QED
    BY <1>3, <1>8, <2>1
<1>13. QED
  BY <1>9, <1>10, <1>11, <1>12 DEF CardsInv

\* The server does what a button has asked for, or refuses.
LEMMA ServerActsStep ==
  ASSUME CardsInv, NEW c \in calls, ServerActs(c)
  PROVE  CardsInv' /\ CardsMoveOn
<1> DEFINE k == c[2]
           to == ButtonTarget(k.from)
<1>1. /\ CardsTypeOK /\ CardsAreTrue /\ OneAtATime /\ FetchOrAct /\ IsFiniteSet(calls)
      /\ CallIsTrue(k)
  BY DEF CardsInv
<1>2. /\ k \in Call /\ k.state = "asked" /\ c[1] \in 1..3 /\ k.order \in Cards
      /\ to # NoStatus /\ to \in CardStatuses
      /\ UNCHANGED <<view, card, fetches, blank, acting, twice>>
  BY <1>1, ButtonTargets DEF CardsTypeOK, ServerActs, Call, CallIsTrue
<1>3. PICK d : /\ d[1] = c[1] /\ d[2] \in Call /\ d[2].order = k.order /\ d[2].from = k.from
               /\ calls' = (calls \ {c}) \cup {d}
               /\ \/ /\ Change(k.order, to) /\ d[2].state = "done" /\ d[2].asOf = clock'
                  \/ UNCHANGED <<cardStatus, clock, past>> /\ d[2].state = "refused"
  <2>1. CASE ButtonTarget(cardStatus[k.order]) = to
    <3> DEFINE d == <<c[1], [k EXCEPT !.state = "done", !.asOf = clock']>>
    <3>1. Change(k.order, to) /\ calls' = (calls \ {c}) \cup {d}
      BY <2>1 DEF ServerActs
    <3>2. clock' \in 0..MaxSteps
      BY <1>2, <3>1, ChangeAges
    <3>3. /\ d[1] = c[1] /\ d[2] \in Call /\ d[2].order = k.order /\ d[2].from = k.from
          /\ d[2].state = "done" /\ d[2].asOf = clock'
      BY <1>2, <3>2 DEF Call
    <3>4. QED
      BY <3>1, <3>3
  <2>2. CASE ButtonTarget(cardStatus[k.order]) # to
    <3> DEFINE d == <<c[1], [k EXCEPT !.state = "refused"]>>
    <3>1. UNCHANGED <<cardStatus, clock, past>> /\ calls' = (calls \ {c}) \cup {d}
      BY <2>2 DEF ServerActs
    <3>2. /\ d[1] = c[1] /\ d[2] \in Call /\ d[2].order = k.order /\ d[2].from = k.from
          /\ d[2].state = "refused"
      BY <1>2 DEF Call
    <3>3. QED
      BY <3>1, <3>2
  <2>3. QED
    BY <2>1, <2>2
<1>4. /\ clock \in Nat /\ clock' \in 0..MaxSteps /\ clock' \in Nat /\ clock <= clock'
      /\ cardStatus' \in [Cards -> CardStatuses] /\ past' \in [Cards -> SUBSET CardStatuses]
      /\ \A p \in Cards : past[p] \subseteq past'[p] /\ cardStatus'[p] \in past'[p]
      /\ d[2].state = "done" => to \in past'[k.order]
  <2>1. CASE Change(k.order, to)
    BY <1>1, <1>2, <2>1, ChangeAges, CardsAssumption DEF CardsTypeOK
  <2>2. CASE UNCHANGED <<cardStatus, clock, past>> /\ d[2].state = "refused"
    BY <1>1, <2>2, CardsAssumption DEF CardsTypeOK, CardsAreTrue
  <2>3. QED
    BY <1>3, <2>1, <2>2
<1> HIDE DEF k, to
<1>5. /\ \A f \in fetches' : AnswerIsTrue(f[2])'
      /\ \A e \in calls : CallIsTrue(e[2])'
      /\ \A p \in Cards : card'[p].status # NoStatus =>
                          card'[p].status \in past'[p] /\ card'[p].asOf <= clock'
  BY <1>2, <1>4, TimePasses
<1>6. CallIsTrue(d[2])'
  <2>1. card'[k.order].status # NoStatus => card'[k.order].asOf <= clock'
    BY <1>2, <1>5
  <2>2. QED
    BY <1>2, <1>3, <1>4, <2>1 DEF CallIsTrue, to
<1>7. CardsTypeOK'
  BY <1>1, <1>2, <1>3, <1>4 DEF CardsTypeOK
<1>8. CardsAreTrue' /\ CardsMoveOn
  <2>1. \A p \in Cards : card[p].asOf \in Nat
    BY <1>1, CardsAssumption DEF CardsTypeOK, Shown
  <2>2. QED
    BY <1>2, <1>4, <1>5, <2>1 DEF CardsAreTrue, CardsMoveOn
<1>9. OneAtATime'
  BY <1>1, <1>2, <1>3 DEF OneAtATime, k
<1>10. FetchOrAct'
  BY <1>1, <1>2, <1>3 DEF FetchOrAct
<1>11. IsFiniteSet(calls')
  <2>1. IsFiniteSet(calls \ {c})
    BY <1>1, FS_RemoveElement
  <2>2. QED
    BY <1>3, <2>1, FS_AddElement
<1>12. \A e \in calls' : CallIsTrue(e[2])'
  BY <1>3, <1>5, <1>6
<1>13. QED
  BY <1>5, <1>7, <1>8, <1>9, <1>10, <1>11, <1>12 DEF CardsInv

\* A new fetch asks; it has read nothing yet.
LEMMA ReloadStep ==
  ASSUME CardsInv, Reload
  PROVE  CardsInv' /\ CardsMoveOn
<1>1. /\ fetches = {} /\ (view = "active" \/ blank) /\ fetches' = {<<1, Asked>>}
      /\ UNCHANGED <<view, cardStatus, clock, past, card, blank, acting, calls, twice>>
  BY DEF Reload
<1>2. CardsAreTrue' /\ CardsMoveOn /\ \A c \in calls' : CallIsTrue(c[2])'
  BY <1>1, CardsStand
<1>3. Asked \in Answer /\ Asked.state = "asked"
  BY DEF Asked, Answer
<1>4. \A f \in fetches' : f[1] \in 1..3 /\ f[2] = Asked
  BY <1>1
<1>5. CardsTypeOK'
  BY <1>1, <1>3, <1>4 DEF CardsInv, CardsTypeOK
<1>6. (OneAtATime /\ FetchOrAct)' /\ IsFiniteSet(calls')
  BY <1>1 DEF CardsInv, OneAtATime, FetchOrAct
<1>7. \A f \in fetches' : AnswerIsTrue(f[2])'
  <2>1. Asked.state # "read"
    BY <1>3
  <2>2. QED
    BY <1>4, <2>1 DEF AnswerIsTrue, Asked
<1>8. QED
  BY <1>2, <1>5, <1>6, <1>7 DEF CardsInv

\* The answer comes: in the list of active orders it is news, on the other
\* pages there was nothing to replace.
LEMMA LoadedStep ==
  ASSUME CardsInv, NEW f \in fetches, Loaded(f)
  PROVE  CardsInv' /\ CardsMoveOn
<1>1. /\ f[2].state = "read" /\ fetches' = fetches \ {f} /\ card' = f[2].orders
      /\ blank' = FALSE /\ UNCHANGED <<view, cardStatus, clock, past, acting, calls, twice>>
  BY DEF Loaded
<1>2. CardsTypeOK /\ CardsAreTrue /\ OneAtATime /\ FetchOrAct /\ AnswerIsTrue(f[2])
  BY DEF CardsInv
<1>3. fetches' = {}
  BY <1>1, <1>2 DEF OneAtATime
<1>4. calls = {}
  BY <1>2 DEF FetchOrAct
<1>5. card' \in [Cards -> Shown]
  <2>1. f[2] \in Answer
    BY <1>2 DEF CardsTypeOK
  <2>2. f[2].orders \in [Cards -> Shown]
    BY <1>1, <2>1 DEF Answer
  <2>3. QED
    BY <1>1, <2>2
<1>6. CardsTypeOK'
  BY <1>1, <1>2, <1>3, <1>5 DEF CardsTypeOK
<1>7. CardsAreTrue'
  BY <1>1, <1>2 DEF CardsAreTrue, AnswerIsTrue
<1>8. CardsMoveOn
  <2>1. \A o \in Cards : card[o].asOf \in Nat /\ card'[o].asOf \in Nat
    BY <1>2, <1>5, CardsAssumption DEF CardsTypeOK, Shown
  <2>2. QED
    BY <1>1, <1>2, <2>1 DEF CardsMoveOn, AnswerIsTrue
<1>9. (OneAtATime /\ FetchOrAct)' /\ IsFiniteSet(calls')
  BY <1>1, <1>3, <1>4 DEF OneAtATime, FetchOrAct, CardsInv
<1>10. QED
  BY <1>1, <1>3, <1>4, <1>6, <1>7, <1>8, <1>9 DEF CardsInv

\* No answer: the page shows nothing.
LEMMA NotLoadedStep ==
  ASSUME CardsInv, NEW f \in fetches, NotLoaded(f)
  PROVE  CardsInv' /\ CardsMoveOn
<1>1. /\ fetches' = fetches \ {f} /\ card' = [o \in Cards |-> Nothing] /\ blank' = TRUE
      /\ UNCHANGED <<view, cardStatus, clock, past, acting, calls, twice>>
  BY DEF NotLoaded
<1>2. CardsTypeOK /\ CardsAreTrue /\ OneAtATime /\ FetchOrAct
  BY DEF CardsInv
<1>3. fetches' = {}
  BY <1>1, <1>2 DEF OneAtATime
<1>4. calls = {}
  BY <1>2 DEF FetchOrAct
<1>5. Nothing \in Shown /\ Nothing.status = NoStatus
  BY CardsAssumption DEF Nothing, Shown
<1>6. CardsTypeOK'
  BY <1>1, <1>2, <1>3, <1>5 DEF CardsTypeOK
<1>7. CardsAreTrue' /\ CardsMoveOn
  BY <1>1, <1>2, <1>5 DEF CardsAreTrue, CardsMoveOn
<1>8. (OneAtATime /\ FetchOrAct)' /\ IsFiniteSet(calls')
  BY <1>1, <1>3, <1>4 DEF OneAtATime, FetchOrAct, CardsInv
<1>9. QED
  BY <1>1, <1>3, <1>4, <1>6, <1>7, <1>8 DEF CardsInv

\* A button: another call of an order that has one under way is put in twice.
LEMMA PressCardStep ==
  ASSUME CardsInv, NEW o \in Cards, PressCard(o)
  PROVE  CardsInv' /\ CardsMoveOn
<1> DEFINE k == [order |-> o, from |-> card[o].status, state |-> "asked", asOf |-> 0]
           d == <<Fresh(calls), k>>
<1>1. /\ view # "active" /\ ~blank /\ ButtonTarget(card[o].status) # NoStatus
      /\ Cardinality(calls) < 3 /\ acting' = o /\ calls' = calls \cup {d}
      /\ twice' = twice \cup {p \in {o} : \E c \in calls : c[2].order = p}
      /\ UNCHANGED <<view, cardStatus, clock, past, card, fetches, blank>>
  BY DEF PressCard
<1>2. /\ CardsTypeOK /\ CardsAreTrue /\ OneAtATime /\ FetchOrAct /\ IsFiniteSet(calls)
  BY DEF CardsInv
<1>3. /\ d[1] \in 1..3 /\ d[2] = k
  BY <1>1, <1>2, FreshNumber
<1>4. card[o].status \in CardStatuses
  <2>1. card[o].status \in CardStatuses \cup {NoStatus}
    BY <1>2 DEF CardsTypeOK, Shown
  <2>2. ButtonTarget(NoStatus) = NoStatus
    BY DEF ButtonTarget, NoStatus
  <2>3. QED
    BY <1>1, <2>1, <2>2
<1>5. /\ k \in Call /\ k.order = o /\ k.state = "asked" /\ k.from = card[o].status
  BY <1>4, CardsAssumption DEF Call
<1> HIDE DEF k, d
<1>6. /\ \A f \in fetches' : AnswerIsTrue(f[2])'
      /\ \A c \in calls : CallIsTrue(c[2])'
      /\ \A p \in Cards : card'[p].status # NoStatus =>
                          card'[p].status \in past'[p] /\ card'[p].asOf <= clock'
  <2>1. /\ clock' \in 0..MaxSteps /\ clock <= clock' /\ twice \subseteq twice'
        /\ \A p \in Cards : past[p] \subseteq past'[p]
    BY <1>1, <1>2, CardsAssumption DEF CardsTypeOK
  <2>2. QED
    BY <1>1, <2>1, TimePasses
<1>7. \A c \in calls' : CallIsTrue(c[2])'
  <2>1. ASSUME NEW c, c = d PROVE CallIsTrue(c[2])'
    <3>1. c[2].from = card[o].status /\ c[2].state = "asked"
      BY <1>3, <1>5, <2>1
    <3>2. QED
      BY <1>1, <3>1 DEF CallIsTrue
  <2>2. QED
    BY <1>1, <1>6, <2>1
<1>8. CardsTypeOK'
  BY <1>1, <1>2, <1>3, <1>5 DEF CardsTypeOK
<1>9. CardsAreTrue' /\ CardsMoveOn
  <2>1. \A p \in Cards : card[p].asOf \in Nat
    BY <1>2, CardsAssumption DEF CardsTypeOK, Shown
  <2>2. QED
    BY <1>1, <1>2, <2>1 DEF CardsAreTrue, CardsMoveOn
<1>10. OneAtATime'
  <2>1. ASSUME NEW c \in calls', NEW e \in calls', c[2].order = e[2].order,
               c[2].order \notin twice'
        PROVE  c = e
    <3>1. CASE c \in calls /\ e \in calls
      BY <1>1, <1>2, <2>1, <3>1 DEF OneAtATime
    <3>2. CASE c = d /\ e \in calls
      BY <1>1, <1>3, <1>5, <2>1, <3>2
    <3>3. CASE c \in calls /\ e = d
      BY <1>1, <1>3, <1>5, <2>1, <3>3
    <3>4. QED
      BY <1>1, <3>1, <3>2, <3>3
  <2>2. QED
    BY <1>1, <1>2, <2>1 DEF OneAtATime
<1>11. FetchOrAct' /\ IsFiniteSet(calls')
  BY <1>1, <1>2, FS_AddElement DEF FetchOrAct
<1>12. QED
  BY <1>6, <1>7, <1>8, <1>9, <1>10, <1>11 DEF CardsInv

\* The page writes what its call has done: nothing newer was shown meanwhile.
LEMMA ActionSucceedsStep ==
  ASSUME CardsInv, NEW c \in calls, ActionSucceeds(c)
  PROVE  CardsInv' /\ CardsMoveOn
<1> DEFINE k == c[2]
           s == [status |-> ButtonTarget(k.from), asOf |-> k.asOf]
<1>1. /\ k.state = "done" /\ calls' = calls \ {c} /\ card' = [card EXCEPT ![k.order] = s]
      /\ acting' = NoCard
      /\ UNCHANGED <<view, cardStatus, clock, past, fetches, blank, twice>>
  BY DEF ActionSucceeds
<1>2. /\ CardsTypeOK /\ CardsAreTrue /\ OneAtATime /\ FetchOrAct /\ IsFiniteSet(calls)
      /\ CallIsTrue(k)
  BY DEF CardsInv
<1>3. k \in Call /\ k.order \in Cards /\ k.asOf \in 0..MaxSteps
  BY <1>2 DEF CardsTypeOK, Call
<1>4. /\ s \in Shown /\ s.status \in past[k.order] /\ s.asOf = k.asOf /\ k.asOf <= clock
      /\ k.order \notin twice /\ card[k.order].status # NoStatus =>
           card[k.order].asOf <= k.asOf
  BY <1>1, <1>2, <1>3, ButtonTargets DEF CallIsTrue, Shown
<1>5. fetches = {}
  BY <1>2 DEF FetchOrAct
<1> HIDE DEF k, s
<1>6. /\ card'[k.order] = s /\ card' \in [Cards -> Shown]
      /\ \A p \in Cards \ {k.order} : card'[p] = card[p]
  BY <1>1, <1>2, <1>3, <1>4 DEF CardsTypeOK
<1>7. CardsTypeOK'
  BY <1>1, <1>2, <1>6 DEF CardsTypeOK
<1>8. CardsAreTrue'
  BY <1>1, <1>2, <1>4, <1>6 DEF CardsAreTrue
<1>9. CardsMoveOn
  <2>1. \A p \in Cards : card[p].asOf \in Nat /\ card'[p].asOf \in Nat
    BY <1>2, <1>6, CardsAssumption DEF CardsTypeOK, Shown
  <2>2. QED
    BY <1>1, <1>2, <1>4, <1>6, <2>1 DEF CardsMoveOn, CardsAreTrue
<1>10. \A d \in calls' : CallIsTrue(d[2])'
  <2>1. ASSUME NEW d \in calls, d # c PROVE CallIsTrue(d[2])'
    <3>1. CallIsTrue(d[2]) /\ d[2] \in Call /\ d[2].order \in Cards
      BY <1>2 DEF CardsInv, CardsTypeOK, Call
    <3>2. d[2].order = k.order => d[2].order \in twice
      BY <1>2, <2>1 DEF OneAtATime, k
    <3>3. QED
      BY <1>1, <1>6, <3>1, <3>2 DEF CallIsTrue
  <2>2. QED
    BY <1>1, <2>1
<1>11. (OneAtATime /\ FetchOrAct)'
  BY <1>1, <1>2, <1>5 DEF OneAtATime, FetchOrAct
<1>12. IsFiniteSet(calls')
  BY <1>1, <1>2, FS_RemoveElement
<1>13. QED
  BY <1>1, <1>5, <1>7, <1>8, <1>9, <1>10, <1>11, <1>12 DEF CardsInv

\* A refusal leaves the card as it is.
LEMMA ActionFailsStep ==
  ASSUME CardsInv, NEW c \in calls, ActionFails(c)
  PROVE  CardsInv' /\ CardsMoveOn
<1>1. /\ calls' = calls \ {c} /\ acting' = NoCard
      /\ UNCHANGED <<view, cardStatus, clock, past, card, fetches, blank, twice>>
  BY DEF ActionFails
<1>2. /\ CardsAreTrue' /\ CardsMoveOn
      /\ \A f \in fetches : AnswerIsTrue(f[2])'
      /\ \A d \in calls : CallIsTrue(d[2])'
  BY <1>1, CardsStand
<1>3. CardsTypeOK'
  BY <1>1 DEF CardsInv, CardsTypeOK
<1>4. (OneAtATime /\ FetchOrAct)'
  BY <1>1 DEF CardsInv, OneAtATime, FetchOrAct
<1>5. IsFiniteSet(calls')
  BY <1>1, FS_RemoveElement DEF CardsInv
<1>6. QED
  BY <1>1, <1>2, <1>3, <1>4, <1>5 DEF CardsInv

\* Every step of the server and of the page.
LEMMA StepCards ==
  CardsInv /\ [CardsNext]_cardVars => CardsInv' /\ (CardsMoveOn \/ UNCHANGED cardVars)
<1> SUFFICES ASSUME CardsInv, [CardsNext]_cardVars
             PROVE  CardsInv' /\ (CardsMoveOn \/ UNCHANGED cardVars)
  OBVIOUS
<1>1. ASSUME NEW o \in Cards, NEW to \in MovedTo, MovesOn(o, to)
      PROVE  CardsInv' /\ CardsMoveOn
  BY <1>1, MovesOnStep, CardsAssumption
<1>2. ASSUME NEW f \in fetches, ServerReads(f) \/ Loaded(f) \/ NotLoaded(f)
      PROVE  CardsInv' /\ CardsMoveOn
  BY <1>2, ServerReadsStep, LoadedStep, NotLoadedStep
<1>3. ASSUME NEW c \in calls, ServerActs(c) \/ ActionSucceeds(c) \/ ActionFails(c)
      PROVE  CardsInv' /\ CardsMoveOn
  BY <1>3, ServerActsStep, ActionSucceedsStep, ActionFailsStep
<1>4. CASE Reload
  BY <1>4, ReloadStep
<1>5. ASSUME NEW o \in Cards, PressCard(o)
      PROVE  CardsInv' /\ CardsMoveOn
  BY <1>5, PressCardStep
<1>6. CASE UNCHANGED cardVars
  <2>1. CardsTypeOK' /\ FetchOrAct' /\ OneAtATime' /\ IsFiniteSet(calls')
    BY <1>6 DEF cardVars, CardsInv, CardsTypeOK, FetchOrAct, OneAtATime
  <2>2. /\ CardsAreTrue'
        /\ \A f \in fetches' : AnswerIsTrue(f[2])'
        /\ \A c \in calls' : CallIsTrue(c[2])'
    BY <1>6, CardsStand DEF cardVars
  <2>3. QED
    BY <1>6, <2>1, <2>2 DEF CardsInv
<1>7. QED
  BY <1>1, <1>2, <1>3, <1>4, <1>5, <1>6 DEF CardsNext

\* A card shows a status the order has had, and never goes back behind what it
\* shows, for any number of orders and changes of them: neither an older fetch
\* nor a late answer replaces it (loadOrders, load, handleCancel,
\* handleMasterFinishConfirm, handleDriverFinish).
THEOREM CardsNeverGoBack == CardsSpec => []CardsTypeOK /\ CardsFollowOrders
<1>1. CardsInv => CardsTypeOK
  BY DEF CardsInv
<1>2. CardsInv /\ [CardsNext]_cardVars =>
        [\A o \in Cards : card'[o].status # NoStatus =>
           /\ card'[o].status \in past'[o]
           /\ o \notin twice /\ card[o].status # NoStatus =>
                card'[o].asOf >= card[o].asOf]_cardVars
  BY StepCards DEF CardsMoveOn
<1>3. QED
  BY CardsInitially, StepCards, <1>1, <1>2, PTL DEF CardsSpec, CardsFollowOrders
-----------------------------------------------------------------------------
(* The stock of a product.                                                 *)

\* What a handler has read is still the row's, unless it is stale.
AsRead(j) ==
  /\ j.step = "stockIn" => j.stock = product.stock + j.n /\ j.sale = product.sale
  /\ j.step = "update" => j.changed = (<<j.cost, j.sale>> # <<product.cost, product.sale>>)
  /\ j.step \in {"created", "updated"} => PricesOf(j) = PricesOf(product)

JobInv(j) ==
  j # Idle =>
    /\ j.step = "billing" => j.credit
    /\ j.stale \/ AsRead(j)

\* Before the product exists nobody works on it or sells it.
NotCreated ==
  product = NoProduct =>
    /\ history = PricesOf(NoProduct)
    /\ ~unbilled
    /\ \A c \in Clerks : job[c] = Idle
    /\ \A s \in Sales : checked[s] = 0

\* The units are the stock even after a lost update: they are counted anew.
UnitsCount == product # NoProduct => product.stock = units

\* A price that is not in the history yet has a handler that will write it.
PricesTold ==
  "prices" \notin torn =>
    history = PricesOf(product) \/ \E c \in Clerks : job[c].step \in {"created", "updated"}

BillToCome ==
  unbilled => \/ "bill" \in torn
              \/ \E c \in Clerks : job[c].step \in {"created", "billing"} /\ job[c].credit

StockInv ==
  /\ InventoryTypeOK
  /\ NotCreated
  /\ UnitsCount
  /\ PricesTold
  /\ BillToCome
  /\ \A c \in Clerks : JobInv(job[c])

\* A handler at a step of its own is not idle.
LEMMA AtWork ==
  ASSUME NEW j \in Job \cup {Idle}, j.step # "idle"
  PROVE  j \in Job /\ j # Idle
BY DEF Idle

\* The inventory starts without the product.
LEMMA StockInitially == InventoryInit => StockInv
<1> SUFFICES ASSUME InventoryInit PROVE StockInv
  OBVIOUS
<1> USE DEF InventoryInit
<1>1. InventoryTypeOK
  <2>1. product \in Product \cup {NoProduct} /\ unbilled \in BOOLEAN
    OBVIOUS
  <2>2. units \in Int /\ checked \in [Sales -> Nat]
    OBVIOUS
  <2>3. history \in [cost : Costs, sale : SalePrices] \cup {PricesOf(NoProduct)}
    OBVIOUS
  <2>4. job \in [Clerks -> Job \cup {Idle}]
    OBVIOUS
  <2>5. torn \subseteq {"stock", "prices", "bill"}
    OBVIOUS
  <2>6. QED
    BY <2>1, <2>3, <2>4, <2>5, <2>2 DEF InventoryTypeOK
<1>2. NotCreated /\ UnitsCount /\ PricesTold /\ BillToCome
  BY DEF NotCreated, UnitsCount, PricesTold, BillToCome
<1>3. \A c \in Clerks : JobInv(job[c])
  BY DEF JobInv
<1>4. QED
  BY <1>1, <1>2, <1>3 DEF StockInv

\* A write of the row leaves every other handler where it was, and stale.
LEMMA WritesOutdate ==
  ASSUME StockInv, NEW c \in Clerks, NEW j \in Job \cup {Idle}, Writes(c, j)
  PROVE  /\ job' \in [Clerks -> Job \cup {Idle}]
         /\ job'[c] = j
         /\ \A d \in Clerks \ {c} :
              \/ job[d] = Idle /\ job'[d] = Idle
              \/ /\ job[d] \in Job /\ job'[d] \in Job /\ job'[d] # Idle
                 /\ job'[d].stale
                 /\ job'[d].step = job[d].step /\ job'[d].credit = job[d].credit
                 /\ job'[d].stock = job[d].stock
<1>1. job \in [Clerks -> Job \cup {Idle}]
  BY DEF StockInv, InventoryTypeOK
<1>2. ASSUME NEW k \in Job
      PROVE  /\ [k EXCEPT !.stale = TRUE] \in Job /\ [k EXCEPT !.stale = TRUE] # Idle
             /\ [k EXCEPT !.stale = TRUE].stale
             /\ [k EXCEPT !.stale = TRUE].step = k.step
             /\ [k EXCEPT !.stale = TRUE].credit = k.credit
             /\ [k EXCEPT !.stale = TRUE].stock = k.stock
  BY DEF Job, Idle
<1>3. \A d \in Clerks : job'[d] = IF d = c THEN j
                                   ELSE IF job[d] = Idle THEN Idle
                                        ELSE [job[d] EXCEPT !.stale = TRUE]
  BY DEF Writes, Stale
<1>4. job' = [d \in Clerks |-> job'[d]]
  BY DEF Writes
<1>5. \A d \in Clerks \ {c} :
        \/ job[d] = Idle /\ job'[d] = Idle
        \/ /\ job[d] \in Job /\ job'[d] \in Job /\ job'[d] # Idle
           /\ job'[d].stale
           /\ job'[d].step = job[d].step /\ job'[d].credit = job[d].credit
           /\ job'[d].stock = job[d].stock
  <2>1. TAKE d \in Clerks \ {c}
  <2>2. CASE job[d] = Idle
    BY <2>2, <1>3
  <2>3. CASE job[d] # Idle
    <3>1. job[d] \in Job /\ job'[d] = [job[d] EXCEPT !.stale = TRUE]
      BY <2>3, <1>1, <1>3
    <3>2. QED
      BY <3>1, <1>2
  <2>4. QED
    BY <2>2, <2>3
<1>6. \A d \in Clerks : job'[d] \in Job \cup {Idle}
  BY <1>3, <1>5
<1>7. QED
  BY <1>3, <1>4, <1>5, <1>6

\* After a write the others owe nothing but what they owed before.
LEMMA OthersOutdated ==
  ASSUME StockInv, NEW c \in Clerks, NEW j \in Job \cup {Idle}, Writes(c, j)
  PROVE  /\ \A d \in Clerks \ {c} : JobInv(job[d])' /\ job'[d].step = job[d].step
         /\ \A d \in Clerks \ {c} : job[d].step \in {"created", "billing"} /\ job[d].credit
                                      => job'[d].credit
<1>1. ASSUME NEW d \in Clerks \ {c}
      PROVE  /\ JobInv(job[d])' /\ job'[d].step = job[d].step
             /\ job[d].step \in {"created", "billing"} /\ job[d].credit => job'[d].credit
  <2>1. JobInv(job[d])
    BY DEF StockInv
  <2>2. CASE job[d] = Idle /\ job'[d] = Idle
    BY <2>2 DEF JobInv
  <2>3. CASE ~(job[d] = Idle /\ job'[d] = Idle)
    <3>1. /\ job[d] \in Job /\ job'[d] # Idle /\ job'[d].stale
          /\ job'[d].step = job[d].step /\ job'[d].credit = job[d].credit
          /\ job'[d].stock = job[d].stock
      BY <2>3, WritesOutdate
    <3>2. job[d] # Idle
      BY <3>1 DEF Job, Idle
    <3>3. QED
      BY <2>1, <3>1, <3>2 DEF JobInv
  <2>4. QED
    BY <2>2, <2>3
<1>2. QED
  BY <1>1

\* A step of one handler that does not write leaves the others alone.
LEMMA OneClerkGoes ==
  ASSUME StockInv, NEW c \in Clerks, NEW j \in Job \cup {Idle}, ClerkGoes(c, j),
         UNCHANGED product
  PROVE  /\ job' \in [Clerks -> Job \cup {Idle}]
         /\ job'[c] = j
         /\ \A d \in Clerks \ {c} : job'[d] = job[d] /\ JobInv(job[d])'
<1>1. job \in [Clerks -> Job \cup {Idle}] /\ \A d \in Clerks : JobInv(job[d])
  BY DEF StockInv, InventoryTypeOK
<1>2. job' = [job EXCEPT ![c] = j]
  BY DEF ClerkGoes
<1>3. \A d \in Clerks \ {c} : job'[d] = job[d]
  BY <1>1, <1>2
<1>4. \A d \in Clerks \ {c} : JobInv(job[d])'
  BY <1>1, <1>3 DEF JobInv, AsRead
<1>5. QED
  BY <1>1, <1>2, <1>3, <1>4

\* createProduct's first statement: the product has its units, and the handler
\* its history and its bill still to write.
LEMMA CreateProductStep ==
  ASSUME StockInv, NEW c \in Clerks, NEW row \in NewProduct, NEW credit \in BOOLEAN,
         CreateProduct(c, row, credit)
  PROVE  StockInv'
<1> DEFINE j == [step |-> "created", stock |-> row.stock, n |-> row.stock, cost |-> row.cost,
                 sale |-> row.sale, credit |-> unbilled', changed |-> TRUE, stale |-> FALSE]
<1>1. /\ product = NoProduct /\ product' = row /\ units' = row.stock
      /\ unbilled' = (credit /\ row.stock > 0)
      /\ Writes(c, j) /\ history' = history /\ torn' = torn /\ checked' = checked
  BY DEF CreateProduct
<1>2. InventoryTypeOK
  BY DEF StockInv
<1>3. /\ row.stock \in 0..MaxStock /\ row.cost \in Costs /\ row.sale \in SalePrices
      /\ unbilled' \in BOOLEAN /\ row \in Product /\ row.stock \in Int
  BY <1>1, InventoryAssumption DEF NewProduct, Product
<1>4. /\ j \in Job /\ j.step = "created" /\ j # Idle /\ j.credit = unbilled'
      /\ PricesOf(j) = PricesOf(row)
  BY <1>3, InventoryAssumption DEF Job, Idle, NoCount, PricesOf
<1> HIDE DEF j
<1>5. /\ job' \in [Clerks -> Job \cup {Idle}] /\ job'[c] = j
      /\ \A d \in Clerks \ {c} : JobInv(job[d])'
  BY <1>1, <1>4, WritesOutdate, OthersOutdated
<1>6. JobInv(job[c])'
  BY <1>1, <1>4, <1>5 DEF JobInv, AsRead
<1>7. InventoryTypeOK'
  BY <1>1, <1>2, <1>3, <1>5 DEF InventoryTypeOK
<1>8. product' # NoProduct
  BY <1>1, <1>3, InventoryAssumption DEF NoProduct
<1>9. (NotCreated /\ UnitsCount)'
  BY <1>1, <1>8 DEF NotCreated, UnitsCount
<1>10. (PricesTold /\ BillToCome)'
  BY <1>4, <1>5 DEF PricesTold, BillToCome
<1>11. QED
  BY <1>5, <1>6, <1>7, <1>9, <1>10 DEF StockInv

\* A handler that is at work has a product.
LEMMA WorkNeedsProduct ==
  ASSUME StockInv, NEW c \in Clerks, job[c].step # "idle"
  PROVE  /\ job[c] \in Job /\ job[c] # Idle
         /\ product \in Product /\ product # NoProduct
<1>1. job[c] \in Job \cup {Idle} /\ product \in Product \cup {NoProduct}
  BY DEF StockInv, InventoryTypeOK
<1>2. job[c] \in Job /\ job[c] # Idle
  BY <1>1, AtWork
<1>3. QED
  BY <1>1, <1>2 DEF StockInv, NotCreated

\* A handler moved on to another step or to Idle keeps its type.
LEMMA NextStep ==
  ASSUME NEW j \in Job, NEW s \in {"billing", "updated"}
  PROVE  /\ [j EXCEPT !.step = s] \in Job /\ [j EXCEPT !.step = s] # Idle
         /\ [j EXCEPT !.step = s].step = s
         /\ [j EXCEPT !.step = s].credit = j.credit /\ [j EXCEPT !.step = s].stale = j.stale
         /\ PricesOf([j EXCEPT !.step = s]) = PricesOf(j)
BY DEF Job, Idle, PricesOf

\* Its second statement: a true history unless another handler came in between.
LEMMA CreateHistoryStep ==
  ASSUME StockInv, NEW c \in Clerks, CreateHistory(c)
  PROVE  StockInv'
<1> DEFINE k == job[c]
           j == IF k.credit THEN [k EXCEPT !.step = "billing"] ELSE Idle
<1>1. /\ k.step = "created" /\ history' = PricesOf(k) /\ Spoils(c, {"prices"}) /\ Writes(c, j)
      /\ product' = product /\ units' = units /\ unbilled' = unbilled
      /\ checked' = checked
  BY DEF CreateHistory
<1>2. InventoryTypeOK /\ JobInv(k)
  BY DEF StockInv
<1>3. k \in Job /\ k # Idle /\ product \in Product /\ product # NoProduct
  BY <1>1, WorkNeedsProduct
<1>4. /\ j \in Job \cup {Idle}
      /\ j = Idle \/ (j.step = "billing" /\ j.credit)
      /\ k.credit => j.step = "billing" /\ j.credit
  BY <1>3, NextStep
<1>5. torn' = IF k.stale THEN torn \cup {"prices"} ELSE torn \ {"prices"}
  BY <1>1 DEF Spoils
<1>6. ~k.stale => history' = PricesOf(product)
  BY <1>1, <1>2, <1>3 DEF JobInv, AsRead
<1>7. history' \in [cost : Costs, sale : SalePrices]
  BY <1>1, <1>3 DEF PricesOf, Job
<1> HIDE DEF k, j
<1>8. /\ job' \in [Clerks -> Job \cup {Idle}] /\ job'[c] = j
      /\ \A d \in Clerks \ {c} : /\ JobInv(job[d])' /\ job'[d].step = job[d].step
                                 /\ job[d].step \in {"created", "billing"} /\ job[d].credit
                                      => job'[d].credit
  BY <1>1, <1>4, WritesOutdate, OthersOutdated
<1>9. \A d \in Clerks : JobInv(job[d])'
  BY <1>4, <1>8 DEF JobInv, AsRead
<1>10. InventoryTypeOK'
  BY <1>1, <1>2, <1>5, <1>7, <1>8 DEF InventoryTypeOK
<1>11. (NotCreated /\ UnitsCount)'
  BY <1>1, <1>3 DEF StockInv, NotCreated, UnitsCount
<1>12. PricesTold'
  BY <1>1, <1>5, <1>6 DEF PricesTold
<1>13. BillToCome'
  <2>1. BillToCome
    BY DEF StockInv
  <2>2. "bill" \in torn => "bill" \in torn'
    BY <1>5
  <2>3. QED
    BY <1>1, <1>4, <1>8, <2>1, <2>2 DEF BillToCome, k
<1>14. QED
  BY <1>9, <1>10, <1>11, <1>12, <1>13 DEF StockInv

\* Its third: the bill is on the supplier's account.
LEMMA CreateBillStep ==
  ASSUME StockInv, NEW c \in Clerks, CreateBill(c)
  PROVE  StockInv'
<1>1. /\ job[c].step = "billing" /\ unbilled' = FALSE /\ ClerkGoes(c, Idle)
      /\ product' = product /\ history' = history /\ units' = units /\ torn' = torn
      /\ checked' = checked
  BY DEF CreateBill
<1>2. job' \in [Clerks -> Job \cup {Idle}] /\ job'[c] = Idle
      /\ \A d \in Clerks \ {c} : job'[d] = job[d] /\ JobInv(job[d])'
  BY <1>1, OneClerkGoes
<1>3. product \in Product /\ product # NoProduct
  BY <1>1, WorkNeedsProduct
<1>4. InventoryTypeOK'
  BY <1>1, <1>2 DEF StockInv, InventoryTypeOK
<1>5. \A d \in Clerks : JobInv(job[d])'
  BY <1>2 DEF JobInv
<1>6. (NotCreated /\ UnitsCount /\ BillToCome)'
  BY <1>1, <1>3 DEF StockInv, NotCreated, UnitsCount, BillToCome
<1>7. PricesTold'
  BY <1>1, <1>2 DEF StockInv, PricesTold
<1>8. QED
  BY <1>4, <1>5, <1>6, <1>7 DEF StockInv

\* stockIn and updateProduct read: what they will write is of that moment.
LEMMA ReadSteps ==
  ASSUME StockInv, NEW c \in Clerks,
         \/ \E n \in Quantities, cost \in Costs : StockIn(c, n, cost)
         \/ \E n \in {NoCount} \cup (0..MaxQuantity), cost \in Costs, sale \in SalePrices :
              UpdateProduct(c, n, cost, sale)
  PROVE  StockInv'
<1>1. InventoryTypeOK
  BY DEF StockInv
<1>2. PICK j \in Job :
        /\ product # NoProduct /\ job[c] = Idle /\ ClerkGoes(c, j)
        /\ UNCHANGED <<product, history, units, unbilled, checked, torn>>
        /\ j # Idle /\ j.step \in {"stockIn", "update"}
        /\ AsRead(j)
  <2>1. ASSUME NEW n \in Quantities, NEW cost \in Costs, StockIn(c, n, cost)
        PROVE  \E j \in Job :
                 /\ product # NoProduct /\ job[c] = Idle /\ ClerkGoes(c, j)
                 /\ UNCHANGED <<product, history, units, unbilled, checked, torn>>
                 /\ j # Idle /\ j.step \in {"stockIn", "update"}
                          /\ AsRead(j)
    <3> DEFINE j == [step |-> "stockIn", stock |-> Received(n), n |-> n, cost |-> cost,
                     sale |-> product.sale, credit |-> FALSE, changed |-> TRUE,
                     stale |-> FALSE]
    <3>1. /\ product # NoProduct /\ job[c] = Idle /\ Received(n) <= MaxStock
          /\ ClerkGoes(c, j) /\ UNCHANGED <<product, history, units, unbilled, checked, torn>>
      BY <2>1 DEF StockIn
    <3>2. product.stock \in Int /\ product.sale \in SalePrices
      BY <1>1, <3>1 DEF InventoryTypeOK, Product
    <3>3. Received(n) = product.stock + n /\ Received(n) \in Int /\ n \in 0..MaxStock
      BY <3>1, <3>2, InventoryAssumption DEF Received, Quantities
    <3>4. j \in Job /\ j # Idle /\ AsRead(j) /\ j.step = "stockIn"
      BY <3>2, <3>3, InventoryAssumption DEF Job, Idle, AsRead, NoCount
    <3>5. QED
      BY <3>1, <3>4
  <2>2. ASSUME NEW n \in {NoCount} \cup (0..MaxQuantity), NEW cost \in Costs,
               NEW sale \in SalePrices, UpdateProduct(c, n, cost, sale)
        PROVE  \E j \in Job :
                 /\ product # NoProduct /\ job[c] = Idle /\ ClerkGoes(c, j)
                 /\ UNCHANGED <<product, history, units, unbilled, checked, torn>>
                 /\ j # Idle /\ j.step \in {"stockIn", "update"}
                          /\ AsRead(j)
    <3> DEFINE j == [step |-> "update", stock |-> n, n |-> n, cost |-> cost, sale |-> sale,
                     credit |-> FALSE,
                     changed |-> <<cost, sale>> # <<product.cost, product.sale>>,
                     stale |-> FALSE]
    <3>1. /\ product # NoProduct /\ job[c] = Idle
          /\ ClerkGoes(c, j) /\ UNCHANGED <<product, history, units, unbilled, checked, torn>>
      BY <2>2 DEF UpdateProduct
    <3>2. n \in NoCount..MaxStock /\ n \in Int
      BY InventoryAssumption DEF NoCount
    <3>3. j \in Job /\ j # Idle /\ AsRead(j) /\ j.step = "update"
      BY <3>2 DEF Job, Idle, AsRead
    <3>4. QED
      BY <3>1, <3>3
  <2>3. QED
    BY <2>1, <2>2
<1>3. job' \in [Clerks -> Job \cup {Idle}] /\ job'[c] = j
      /\ \A d \in Clerks \ {c} : job'[d] = job[d] /\ JobInv(job[d])'
  BY <1>2, OneClerkGoes
<1>4. InventoryTypeOK'
  BY <1>1, <1>2, <1>3 DEF InventoryTypeOK
<1>5. \A d \in Clerks : JobInv(job[d])'
  BY <1>2, <1>3 DEF JobInv, AsRead
<1>6. (NotCreated /\ UnitsCount)'
  BY <1>2 DEF StockInv, NotCreated, UnitsCount
<1>7. Idle.step = "idle"
  BY DEF Idle
<1>8. (PricesTold /\ BillToCome)'
  BY <1>2, <1>3, <1>7 DEF StockInv, PricesTold, BillToCome
<1>9. QED
  BY <1>4, <1>5, <1>6, <1>8 DEF StockInv

\* stockIn's transaction: the quantity is added to what it has read, which is
\* the stock unless the job is stale.
LEMMA StockInStep ==
  ASSUME StockInv, NEW c \in Clerks, StockInCommit(c)
  PROVE  StockInv'
<1> DEFINE k == job[c]
<1>1. /\ k.step = "stockIn" /\ product' = [product EXCEPT !.stock = k.stock, !.cost = k.cost]
      /\ history' = PricesOf(k) /\ Spoils(c, {"stock", "prices"}) /\ Counted(units + k.n)
      /\ Writes(c, Idle) /\ unbilled' = unbilled /\ checked' = checked
  BY DEF StockInCommit
<1>2. InventoryTypeOK /\ JobInv(k) /\ UnitsCount /\ BillToCome
  BY DEF StockInv
<1>3. k \in Job /\ k # Idle /\ product \in Product /\ product # NoProduct
  BY <1>1, WorkNeedsProduct
<1>4. k.stock \in Int /\ (k.stale \/ AsRead(k))
  BY <1>1, <1>2, <1>3 DEF JobInv, Job
<1>5. torn' = IF k.stale THEN torn \cup {"stock", "prices"} ELSE torn \ {"prices"}
  BY <1>1 DEF Spoils
<1>6. /\ product' \in Product /\ product'.stock = k.stock /\ product'.cost = k.cost
      /\ product'.sale = product.sale
  BY <1>1, <1>3, <1>4 DEF Product, Job
<1>7. history' \in [cost : Costs, sale : SalePrices]
  BY <1>1, <1>3 DEF PricesOf, Job
<1>8. ~k.stale => history' = PricesOf(product')
  BY <1>1, <1>4, <1>6 DEF AsRead, PricesOf
<1>9. units' = product'.stock
  <2>1. CASE "stock" \in torn'
    BY <1>1, <2>1 DEF Counted
  <2>2. CASE "stock" \notin torn'
    <3>1. ~k.stale
      BY <1>5, <2>2
    <3>2. units' = units + k.n /\ k.stock = product.stock + k.n /\ product.stock = units
      BY <1>1, <1>2, <1>3, <1>4, <2>2, <3>1 DEF Counted, AsRead, UnitsCount
    <3>3. QED
      BY <1>6, <3>2
  <2>3. QED
    BY <2>1, <2>2
<1> HIDE DEF k
<1>10. /\ job' \in [Clerks -> Job \cup {Idle}] /\ job'[c] = Idle
       /\ \A d \in Clerks \ {c} : /\ JobInv(job[d])' /\ job'[d].step = job[d].step
                                  /\ job[d].step \in {"created", "billing"} /\ job[d].credit
                                       => job'[d].credit
  BY <1>1, WritesOutdate, OthersOutdated
<1>11. \A d \in Clerks : JobInv(job[d])'
  BY <1>10 DEF JobInv
<1>12. product' # NoProduct
  BY <1>6, InventoryAssumption DEF Product, NoProduct
<1>13. InventoryTypeOK'
  <2>1. units' \in Int
    BY <1>4, <1>6, <1>9, InventoryAssumption
  <2>2. torn' \subseteq {"stock", "prices", "bill"}
    BY <1>2, <1>5 DEF InventoryTypeOK
  <2>3. QED
    BY <1>1, <1>2, <1>6, <1>7, <1>10, <2>1, <2>2 DEF InventoryTypeOK
<1>14. (NotCreated /\ UnitsCount)'
  BY <1>9, <1>12 DEF NotCreated, UnitsCount
<1>15. PricesTold'
  BY <1>5, <1>8 DEF PricesTold
<1>16. BillToCome'
  <2>1. k.step \notin {"created", "billing"} /\ ("bill" \in torn => "bill" \in torn')
    BY <1>1, <1>5
  <2>2. QED
    BY <1>1, <1>2, <1>10, <2>1 DEF BillToCome, k
<1>17. QED
  BY <1>11, <1>13, <1>14, <1>15, <1>16 DEF StockInv

\* updateProduct's statement: the prices, and the stock when it was counted.
LEMMA UpdateWriteStep ==
  ASSUME StockInv, NEW c \in Clerks, UpdateWrite(c)
  PROVE  StockInv'
<1> DEFINE k == job[c]
           j == IF k.changed THEN [k EXCEPT !.step = "updated"] ELSE Idle
<1>1. /\ k.step = "update"
      /\ product' = [stock |-> IF k.n = NoCount THEN product.stock ELSE k.n,
                     cost |-> k.cost, sale |-> k.sale]
      /\ torn' = (torn \ IF k.n = NoCount THEN {} ELSE {"stock"})
                   \cup IF k.stale THEN {"prices"} ELSE {}
      /\ Counted(IF k.n = NoCount THEN units ELSE k.n)
      /\ Writes(c, j) /\ history' = history /\ unbilled' = unbilled
      /\ checked' = checked
  BY DEF UpdateWrite
<1>2. InventoryTypeOK /\ JobInv(k) /\ UnitsCount /\ BillToCome /\ PricesTold
  BY DEF StockInv
<1>3. k \in Job /\ k # Idle /\ product \in Product /\ product # NoProduct
  BY <1>1, WorkNeedsProduct
<1>4. /\ k.n \in NoCount..MaxStock /\ k.cost \in Costs /\ k.sale \in SalePrices
      /\ k.changed \in BOOLEAN /\ product.stock \in Int
  BY <1>3 DEF Job, Product
<1>5. /\ product' \in Product /\ product'.stock = IF k.n = NoCount THEN product.stock ELSE k.n
      /\ PricesOf(product') = PricesOf(k)
  BY <1>1, <1>4, InventoryAssumption DEF Product, PricesOf, NoCount
<1>6. ~k.stale /\ ~k.changed => PricesOf(product') = PricesOf(product)
  BY <1>1, <1>2, <1>3, <1>5 DEF JobInv, AsRead, PricesOf
<1>7. units' = product'.stock
  BY <1>1, <1>2, <1>3, <1>5 DEF Counted, UnitsCount
<1>8. j \in Job \cup {Idle} /\ (k.changed => j.step = "updated")
      /\ (j # Idle => j.step = "updated" /\ PricesOf(j) = PricesOf(k))
  BY <1>3, NextStep
<1> HIDE DEF k, j
<1>9. /\ job' \in [Clerks -> Job \cup {Idle}] /\ job'[c] = j
      /\ \A d \in Clerks \ {c} : /\ JobInv(job[d])' /\ job'[d].step = job[d].step
                                 /\ job[d].step \in {"created", "billing"} /\ job[d].credit
                                      => job'[d].credit
  BY <1>1, <1>8, WritesOutdate, OthersOutdated
<1>10. \A d \in Clerks : JobInv(job[d])'
  BY <1>5, <1>8, <1>9 DEF JobInv, AsRead
<1>11. product' # NoProduct
  BY <1>5, InventoryAssumption DEF Product, NoProduct
<1>12. InventoryTypeOK'
  <2>1. units' \in Int
    BY <1>5, <1>7, InventoryAssumption DEF Product
  <2>2. torn' \subseteq {"stock", "prices", "bill"}
    BY <1>1, <1>2 DEF InventoryTypeOK
  <2>3. QED
    BY <1>1, <1>2, <1>5, <1>9, <2>1, <2>2 DEF InventoryTypeOK
<1>13. (NotCreated /\ UnitsCount)'
  BY <1>7, <1>11 DEF NotCreated, UnitsCount
<1>14. PricesTold'
  <2>1. CASE k.stale
    BY <1>1, <2>1 DEF PricesTold
  <2>2. CASE ~k.stale /\ k.changed
    BY <1>8, <1>9, <2>2 DEF PricesTold
  <2>3. CASE ~k.stale /\ ~k.changed
    <3>1. "prices" \notin torn' => "prices" \notin torn
      BY <1>1, <2>3
    <3>2. k.step \notin {"created", "updated"}
      BY <1>1
    <3>3. QED
      BY <1>1, <1>2, <1>6, <1>9, <2>3, <3>1, <3>2 DEF PricesTold, k
  <2>4. QED
    BY <2>1, <2>2, <2>3
<1>15. BillToCome'
  <2>1. k.step \notin {"created", "billing"} /\ ("bill" \in torn => "bill" \in torn')
    BY <1>1
  <2>2. QED
    BY <1>1, <1>2, <1>9, <2>1 DEF BillToCome, k
<1>16. QED
  BY <1>10, <1>12, <1>13, <1>14, <1>15 DEF StockInv

\* updateProduct's row of history.
LEMMA UpdateHistoryStep ==
  ASSUME StockInv, NEW c \in Clerks, UpdateHistory(c)
  PROVE  StockInv'
<1> DEFINE k == job[c]
<1>1. /\ k.step = "updated" /\ history' = PricesOf(k) /\ Spoils(c, {"prices"})
      /\ Writes(c, Idle) /\ product' = product /\ units' = units /\ unbilled' = unbilled
      /\ checked' = checked
  BY DEF UpdateHistory
<1>2. InventoryTypeOK /\ JobInv(k) /\ BillToCome
  BY DEF StockInv
<1>3. k \in Job /\ k # Idle /\ product \in Product /\ product # NoProduct
  BY <1>1, WorkNeedsProduct
<1>4. torn' = IF k.stale THEN torn \cup {"prices"} ELSE torn \ {"prices"}
  BY <1>1 DEF Spoils
<1>5. ~k.stale => history' = PricesOf(product)
  BY <1>1, <1>2, <1>3 DEF JobInv, AsRead
<1>6. history' \in [cost : Costs, sale : SalePrices]
  BY <1>1, <1>3 DEF PricesOf, Job
<1> HIDE DEF k
<1>7. /\ job' \in [Clerks -> Job \cup {Idle}] /\ job'[c] = Idle
      /\ \A d \in Clerks \ {c} : /\ JobInv(job[d])' /\ job'[d].step = job[d].step
                                 /\ job[d].step \in {"created", "billing"} /\ job[d].credit
                                      => job'[d].credit
  BY <1>1, WritesOutdate, OthersOutdated
<1>8. \A d \in Clerks : JobInv(job[d])'
  BY <1>7 DEF JobInv
<1>9. InventoryTypeOK'
  BY <1>1, <1>2, <1>4, <1>6, <1>7 DEF InventoryTypeOK
<1>10. (NotCreated /\ UnitsCount)'
  BY <1>1, <1>3 DEF StockInv, NotCreated, UnitsCount
<1>11. PricesTold'
  BY <1>1, <1>4, <1>5 DEF PricesTold
<1>12. BillToCome'
  <2>1. k.step \notin {"created", "billing"} /\ ("bill" \in torn => "bill" \in torn')
    BY <1>1, <1>4
  <2>2. QED
    BY <1>1, <1>2, <1>7, <2>1 DEF BillToCome, k
<1>13. QED
  BY <1>8, <1>9, <1>10, <1>11, <1>12 DEF StockInv

\* A failure between two statements is what tears them apart.
LEMMA ClerkFailsStep ==
  ASSUME StockInv, NEW c \in Clerks, ClerkFails(c)
  PROVE  StockInv'
<1> DEFINE k == job[c]
<1>1. /\ k # Idle /\ ClerkGoes(c, Idle)
      /\ torn' = torn \cup (IF k.step \in {"created", "updated"} THEN {"prices"} ELSE {})
                      \cup (IF k.credit THEN {"bill"} ELSE {})
      /\ product' = product /\ history' = history /\ units' = units /\ unbilled' = unbilled
      /\ checked' = checked
  BY DEF ClerkFails
<1>2. InventoryTypeOK /\ NotCreated /\ UnitsCount /\ PricesTold /\ BillToCome
  BY DEF StockInv
<1>3. /\ job' \in [Clerks -> Job \cup {Idle}] /\ job'[c] = Idle
      /\ \A d \in Clerks \ {c} : job'[d] = job[d] /\ JobInv(job[d])'
  BY <1>1, OneClerkGoes
<1>4. torn \subseteq torn' /\ torn' \subseteq {"stock", "prices", "bill"}
      /\ (k.credit => "bill" \in torn')
      /\ (k.step \in {"created", "updated"} => "prices" \in torn')
  BY <1>1, <1>2 DEF InventoryTypeOK
<1> HIDE DEF k
<1>5. InventoryTypeOK'
  BY <1>1, <1>2, <1>3, <1>4 DEF InventoryTypeOK
<1>6. \A d \in Clerks : JobInv(job[d])'
  BY <1>3 DEF JobInv
<1>7. (NotCreated /\ UnitsCount)'
  BY <1>1, <1>2, <1>3 DEF NotCreated, UnitsCount, k
<1>8. PricesTold'
  BY <1>1, <1>2, <1>3, <1>4 DEF PricesTold, k
<1>9. BillToCome'
  BY <1>1, <1>2, <1>3, <1>4 DEF BillToCome, k
<1>10. QED
  BY <1>5, <1>6, <1>7, <1>8, <1>9 DEF StockInv

\* customerConfirm has looked at the stock, or gives up.
LEMMA SaleChecksStep ==
  ASSUME StockInv, NEW s \in Sales,
         (\E n \in Quantities : SaleChecks(s, n)) \/ SaleRollsBack(s)
  PROVE  StockInv'
<1>1. PICK n \in Nat : /\ checked' = [checked EXCEPT ![s] = n]
                       /\ product # NoProduct \/ n = 0
  BY InventoryAssumption DEF SaleChecks, SaleRollsBack, Quantities
<1>2. UNCHANGED <<product, history, units, unbilled, job, torn>>
  BY DEF SaleChecks, SaleRollsBack
<1>3. InventoryTypeOK'
  BY <1>1, <1>2 DEF StockInv, InventoryTypeOK
<1>4. NotCreated'
  BY <1>1, <1>2 DEF StockInv, InventoryTypeOK, NotCreated
<1>5. QED
  BY <1>2, <1>3, <1>4 DEF StockInv, UnitsCount, PricesTold, BillToCome, JobInv, AsRead

\* It takes the units from the row, whatever the row has become since.
LEMMA SaleDecrementsStep ==
  ASSUME StockInv, NEW s \in Sales, SaleDecrements(s)
  PROVE  StockInv'
<1>1. /\ checked[s] > 0 /\ product' = [product EXCEPT !.stock = @ - checked[s]]
      /\ units' = units - checked[s]
      /\ checked' = [checked EXCEPT ![s] = 0]
      /\ job' = [c \in Clerks |-> Stale(c)]
      /\ history' = history /\ unbilled' = unbilled /\ torn' = torn
  BY DEF SaleDecrements
<1>2. InventoryTypeOK /\ NotCreated /\ UnitsCount /\ PricesTold /\ BillToCome
  BY DEF StockInv
<1>3. checked[s] \in Nat
  BY <1>2 DEF InventoryTypeOK
<1>4. product \in Product /\ product # NoProduct
  BY <1>1, <1>2 DEF InventoryTypeOK, NotCreated
<1>5. /\ product' \in Product /\ product'.stock = product.stock - checked[s]
      /\ PricesOf(product') = PricesOf(product)
  BY <1>1, <1>3, <1>4 DEF Product, PricesOf
<1>6. product' # NoProduct
  BY <1>5, InventoryAssumption DEF Product, NoProduct
<1>7. \A d \in Clerks :
        /\ job'[d] \in Job \cup {Idle} /\ JobInv(job[d])' /\ job'[d].step = job[d].step
        /\ job[d].step \in {"created", "billing"} /\ job[d].credit => job'[d].credit
  <2>1. TAKE d \in Clerks
  <2>2. job[d] \in Job \cup {Idle} /\ JobInv(job[d])
    BY <1>2 DEF StockInv, InventoryTypeOK
  <2>3. CASE job[d] = Idle
    BY <1>1, <2>3 DEF JobInv, Stale
  <2>4. CASE job[d] # Idle
    <3>1. job[d] \in Job /\ job'[d] = [job[d] EXCEPT !.stale = TRUE]
      BY <1>1, <2>2, <2>4 DEF Stale
    <3>2. /\ job'[d] \in Job /\ job'[d].stale /\ job'[d].step = job[d].step
          /\ job'[d].credit = job[d].credit /\ job'[d].stock = job[d].stock
      BY <3>1 DEF Job
    <3>3. QED
      BY <2>2, <2>4, <3>2 DEF JobInv
  <2>5. QED
    BY <2>3, <2>4
<1>8. InventoryTypeOK'
  <2>1. job' \in [Clerks -> Job \cup {Idle}]
    BY <1>1, <1>7
  <2>2. units' \in Int /\ checked' \in [Sales -> Nat]
    BY <1>1, <1>2, <1>3 DEF InventoryTypeOK
  <2>3. QED
    BY <1>1, <1>2, <1>5, <2>1, <2>2 DEF InventoryTypeOK
<1>9. (NotCreated /\ UnitsCount)'
  BY <1>1, <1>2, <1>4, <1>5, <1>6 DEF NotCreated, UnitsCount
<1>10. (PricesTold /\ BillToCome)'
  BY <1>1, <1>2, <1>5, <1>7 DEF PricesTold, BillToCome
<1>11. QED
  BY <1>7, <1>8, <1>9, <1>10 DEF StockInv

\* Every step of every handler keeps the books of the stock.
LEMMA StepStock ==
  StockInv /\ [InventoryNext]_inventoryVars => StockInv'
<1> SUFFICES ASSUME StockInv, [InventoryNext]_inventoryVars PROVE StockInv'
  OBVIOUS
<1>1. ASSUME NEW c \in Clerks, NEW row \in NewProduct, NEW credit \in BOOLEAN,
             CreateProduct(c, row, credit)
      PROVE  StockInv'
  BY <1>1, CreateProductStep
<1>2. ASSUME NEW c \in Clerks, CreateHistory(c) \/ CreateBill(c)
      PROVE  StockInv'
  BY <1>2, CreateHistoryStep, CreateBillStep
<1>3. ASSUME NEW c \in Clerks,
             \/ \E n \in Quantities, cost \in Costs : StockIn(c, n, cost)
             \/ \E n \in {NoCount} \cup (0..MaxQuantity), cost \in Costs, sale \in SalePrices :
                  UpdateProduct(c, n, cost, sale)
      PROVE  StockInv'
  BY <1>3, ReadSteps
<1>4. ASSUME NEW c \in Clerks,
             StockInCommit(c) \/ UpdateWrite(c) \/ UpdateHistory(c) \/ ClerkFails(c)
      PROVE  StockInv'
  BY <1>4, StockInStep, UpdateWriteStep, UpdateHistoryStep, ClerkFailsStep
<1>5. ASSUME NEW s \in Sales,
             (\E n \in Quantities : SaleChecks(s, n)) \/ SaleDecrements(s) \/ SaleRollsBack(s)
      PROVE  StockInv'
  BY <1>5, SaleChecksStep, SaleDecrementsStep
<1>6. CASE UNCHANGED inventoryVars
  BY <1>6 DEF inventoryVars, StockInv, InventoryTypeOK, NotCreated, UnitsCount, PricesTold,
              BillToCome, JobInv, AsRead
<1>7. QED
  BY <1>1, <1>2, <1>3, <1>4, <1>5, <1>6 DEF InventoryNext

\* The stock is what came in and was corrected less what was sold, whichever
\* handlers overlap, unless a delivery was written over a change it had not
\* seen; and the handlers keep to their types (admin.service.ts stockIn,
\* updateProduct, createProduct, and the sales of customerConfirm).
THEOREM StockCountsUnits == InventorySpec => [](InventoryTypeOK /\ StockIsAccounted)
<1>1. StockInv => InventoryTypeOK /\ StockIsAccounted
  BY DEF StockInv, UnitsCount, StockIsAccounted
<1>2. QED
  BY StockInitially, StepStock, <1>1, PTL DEF InventorySpec

\* Between two handlers the newest row of the price history has the product's
\* prices, and a first delivery on credit is on the supplier's bill, unless a
\* handler failed between its statements or overlapped with another
\* (createProduct, updateProduct, stockIn).
THEOREM BooksFollowTheRow == InventorySpec => []HistoryAndBillFollow
<1>1. StockInv => HistoryAndBillFollow
  <2> SUFFICES ASSUME StockInv PROVE HistoryAndBillFollow
    OBVIOUS
  <2>1. HistoryIsCurrent
    BY DEF StockInv, PricesTold, HistoryIsCurrent, Idle
  <2>2. FirstStockIsBilled
    BY DEF StockInv, BillToCome, FirstStockIsBilled
  <2>3. QED
    BY <2>1, <2>2 DEF HistoryAndBillFollow
<1>2. QED
  BY StockInitially, StepStock, <1>1, PTL DEF InventorySpec
-----------------------------------------------------------------------------
(* The order's total.                                                      *)

\* The columns a handler will write have the total of the items there are.
CountsItems(columns) ==
  /\ "total" \in DOMAIN columns
  /\ columns.total = CalculateOrderTotal(items, IF "delivers" \in DOMAIN columns
                                                THEN columns.delivers ELSE orderRow.delivers)

\* Before its last statement a handler has no status to write, but a total.
WillCount(r) ==
  r.at # "write" => "total" \in DOMAIN r.set /\ "status" \notin DOMAIN r.set

\* One that works alone knows the delivery of the row, and what it writes is
\* true: a fresh sum, or the total it has read as long as that was exact.
KnowsOrder(r) ==
  /\ r.at # "write" =>
       r.recounts /\ ("delivers" \in DOMAIN r.set \/ r.delivers = orderRow.delivers)
  /\ r.at = "write" /\ (r.recounts \/ (exact /\ "status" \in DOMAIN r.set)) =>
       CountsItems(r.set)

\* The total is that of the items, or the one createDraft has left at 0.
RowCounts ==
  \/ orderRow.total = CalculateOrderTotal(items, orderRow.delivers)
  \/ orderRow.status = "draft" /\ orderRow.total = 0 /\ DOMAIN items # {}

TotalsInv ==
  /\ TotalsTypeOK
  /\ orderRow.status = "absent" => writing = {} /\ DOMAIN items = {}
  /\ orderRow.status # "absent" /\ exact /\ (\A r \in writing : ~r.dirty) => RowCounts
  /\ \A r \in writing : WillCount(r)
  /\ \A r \in writing : r.alone => writing = {r} /\ KnowsOrder(r)

\* An order that is there has all its columns.
LEMMA RowIsThere ==
  ASSUME TotalsInv, orderRow.status # "absent" \/ orderRow.status \in Statuses
  PROVE  /\ orderRow \in [status : Statuses, total : Nat, delivers : BOOLEAN]
         /\ orderRow.status # "absent"
BY DEF TotalsInv, TotalsTypeOK, Statuses

\* price-calculator.ts: the total of any items is a number.
LEMMA TotalIsNumber ==
  ASSUME NEW list, DOMAIN list \subseteq Ids, \A i \in DOMAIN list : list[i] \in Amounts,
         NEW delivers \in BOOLEAN
  PROVE  CalculateOrderTotal(list, delivers) \in Nat
<1>1. IsFiniteSet(DOMAIN list)
  <2>1. IsFiniteSet(Ids)
    BY TotalsAssumption, FS_Interval DEF Ids
  <2>2. QED
    BY <2>1, FS_Subset
<1>2. ItemsTotal(list) = SumFunctionOnSet(list, DOMAIN list)
  BY DEF ItemsTotal, MapThenSumSet, SumFunctionOnSet, FoldFunctionOnSet
<1>3. \A i \in DOMAIN list : list[i] \in Nat
  BY TotalsAssumption
<1>4. SumFunctionOnSet(list, DOMAIN list) \in Nat
  BY <1>1, <1>3, SumIsNatural
<1>5. QED
  BY <1>2, <1>4, TotalsAssumption DEF CalculateOrderTotal

\* A row of items more, or another amount in one.
LEMMA ItemInserted ==
  ASSUME NEW list, DOMAIN list \subseteq Ids, \A i \in DOMAIN list : list[i] \in Amounts,
         NEW id \in Ids, NEW amount \in Amounts
  PROVE  /\ DOMAIN Insert(list, id, amount) \subseteq Ids
         /\ id \in DOMAIN Insert(list, id, amount)
         /\ \A i \in DOMAIN Insert(list, id, amount) : Insert(list, id, amount)[i] \in Amounts
BY DEF Insert

\* Nothing has been ordered yet.
LEMMA TotalsInitially == TotalsInit => TotalsInv
<1> SUFFICES ASSUME TotalsInit PROVE TotalsInv
  OBVIOUS
<1>1. /\ orderRow = [status |-> "absent"] /\ items = << >> /\ created = 0 /\ begun = 0
      /\ writing = {} /\ exact = TRUE
  BY DEF TotalsInit
<1>2. DOMAIN items = {}
  BY <1>1
<1>3. TotalsTypeOK
  BY <1>1, <1>2, TotalsAssumption DEF TotalsTypeOK
<1>4. QED
  BY <1>1, <1>2, <1>3 DEF TotalsInv

\* createDraft and createOrder: the order with its first item.
LEMMA EnteredStep ==
  ASSUME TotalsInv, NEW amount \in Amounts, NEW delivers \in BOOLEAN,
         \/ DraftCreated(amount, delivers)
         \/ \E fails \in BOOLEAN : OrderEntered(amount, delivers, fails)
  PROVE  TotalsInv'
<1>1. TotalsTypeOK /\ (orderRow.status = "absent" => writing = {} /\ DOMAIN items = {})
  BY DEF TotalsInv
<1>2. /\ orderRow.status = "absent" /\ MaxItems > 0 /\ created' = 1
      /\ UNCHANGED <<begun, writing>> /\ writing = {}
      /\ orderRow'.status = "draft" /\ orderRow'.delivers = delivers
  BY <1>1 DEF DraftCreated, OrderEntered
<1>3. 1 \in Ids
  BY <1>2, TotalsAssumption DEF Ids
<1> DEFINE list == Insert(items, 1, amount)
<1>4. /\ DOMAIN list \subseteq Ids /\ 1 \in DOMAIN list
      /\ \A i \in DOMAIN list : list[i] \in Amounts
  BY <1>1, <1>3, ItemInserted DEF TotalsTypeOK
<1>5. CalculateOrderTotal(list, delivers) \in Nat
  BY <1>4, TotalIsNumber
<1> HIDE DEF list
<1>6. \/ /\ orderRow' = [status |-> "draft", total |-> 0, delivers |-> delivers]
         /\ items' = list /\ exact' = exact
      \/ \E fails \in BOOLEAN :
           /\ orderRow' = [status |-> "draft", delivers |-> delivers,
                           total |-> CalculateOrderTotal(list, delivers)]
           /\ items' = IF fails THEN items ELSE list
           /\ exact' = ~fails
  BY DEF DraftCreated, OrderEntered, list
<1>7. orderRow' \in [status : Statuses, total : Nat, delivers : BOOLEAN]
  BY <1>5, <1>6 DEF Statuses
<1>8. TotalsTypeOK'
  <2>1. DOMAIN items' \subseteq Ids /\ \A i \in DOMAIN items' : items'[i] \in Amounts
    BY <1>1, <1>4, <1>6 DEF TotalsTypeOK
  <2>2. exact' \in BOOLEAN
    BY <1>1, <1>6 DEF TotalsTypeOK
  <2>3. created' \in 0..MaxItems
    BY <1>2, TotalsAssumption
  <2>4. begun' \in 0..MaxWriters /\ writing' \subseteq Writer
    BY <1>1, <1>2 DEF TotalsTypeOK
  <2>5. QED
    BY <1>7, <2>1, <2>2, <2>3, <2>4 DEF TotalsTypeOK
<1>9. exact' => RowCounts'
  <2>1. CASE /\ orderRow' = [status |-> "draft", total |-> 0, delivers |-> delivers]
             /\ items' = list /\ exact' = exact
    BY <1>4, <2>1 DEF RowCounts
  <2>2. CASE \E fails \in BOOLEAN :
               /\ orderRow' = [status |-> "draft", delivers |-> delivers,
                               total |-> CalculateOrderTotal(list, delivers)]
               /\ items' = IF fails THEN items ELSE list
               /\ exact' = ~fails
    <3>1. /\ orderRow'.total = CalculateOrderTotal(list, delivers)
          /\ orderRow'.delivers = delivers
      BY <2>2
    <3>2. exact' => items' = list
      BY <2>2
    <3>3. QED
      BY <3>1, <3>2 DEF RowCounts
  <2>3. QED
    BY <1>6, <2>1, <2>2
<1>10. QED
  BY <1>2, <1>8, <1>9 DEF TotalsInv

\* A handler begins. The first knows the order; with another one beside it,
\* neither claims anything.
LEMMA StartsStep ==
  ASSUME TotalsInv, NEW r \in Writer, Starts(r), orderRow.status # "absent",
         WillCount(r), ~r.dirty, writing = {} => KnowsOrder(r)
  PROVE  TotalsInv'
<1> DEFINE q == [r EXCEPT !.alone = (writing = {})]
           Others == {[p EXCEPT !.alone = FALSE] : p \in writing}
<1>1. /\ begun < MaxWriters /\ begun' = begun + 1 /\ writing' = Others \cup {q}
      /\ UNCHANGED <<orderRow, items, created, exact>>
  BY DEF Starts
<1>2. TotalsTypeOK /\ writing \subseteq Writer
  BY DEF TotalsInv, TotalsTypeOK
<1>3. /\ q \in Writer /\ q.alone = (writing = {}) /\ q.dirty = r.dirty /\ q.at = r.at
      /\ q.set = r.set /\ q.delivers = r.delivers /\ q.recounts = r.recounts
  BY DEF Writer
<1>4. \A o \in Others : \E p \in writing :
        /\ o \in Writer /\ ~o.alone /\ o.dirty = p.dirty /\ o.at = p.at /\ o.set = p.set
  BY <1>2 DEF Writer
<1>5. ASSUME NEW p \in writing PROVE \E o \in Others : o.dirty = p.dirty
  <2>1. [p EXCEPT !.alone = FALSE].dirty = p.dirty
    BY <1>2 DEF Writer
  <2>2. QED
    BY <2>1
<1>6. writing = {} => Others = {}
  OBVIOUS
<1> HIDE DEF q, Others
<1>7. TotalsTypeOK'
  BY <1>1, <1>2, <1>3, <1>4, TotalsAssumption DEF TotalsTypeOK
<1>8. (\A p \in writing' : ~p.dirty) => \A p \in writing : ~p.dirty
  BY <1>1, <1>5
<1>9. \A p \in writing' : WillCount(p)
  BY <1>1, <1>3, <1>4 DEF TotalsInv, WillCount
<1>10. ASSUME NEW p \in writing', p.alone
       PROVE  writing' = {p} /\ KnowsOrder(p)'
  <2>1. p = q /\ writing = {}
    BY <1>1, <1>3, <1>4, <1>10
  <2>2. KnowsOrder(p)'
    BY <1>1, <1>3, <2>1 DEF KnowsOrder, CountsItems
  <2>3. QED
    BY <1>1, <1>6, <2>1, <2>2
<1>11. QED
  BY <1>1, <1>7, <1>8, <1>9, <1>10 DEF TotalsInv, RowCounts, WillCount

\* A handler goes on: alone it still knows the order, beside others nobody does.
LEMMA GoesStep ==
  ASSUME TotalsInv, NEW r \in writing, NEW q \in Writer, Goes(r, q),
         q.alone = r.alone, WillCount(q), r.alone => KnowsOrder(q)'
  PROVE  /\ writing' \subseteq Writer
         /\ \A p \in writing' : WillCount(p)'
         /\ \A p \in writing' : p.alone => writing' = {p} /\ KnowsOrder(p)'
<1>1. writing' = (writing \ {r}) \cup {q} /\ writing \subseteq Writer
  BY DEF Goes, TotalsInv, TotalsTypeOK
<1>2. \A p \in writing' : WillCount(p)'
  BY <1>1 DEF TotalsInv, WillCount
<1>3. ASSUME NEW p \in writing', p.alone PROVE writing' = {p} /\ KnowsOrder(p)'
  <2>1. CASE p = q
    <3>1. r.alone /\ writing = {r}
      BY <1>3, <2>1 DEF TotalsInv
    <3>2. QED
      BY <1>1, <2>1, <3>1
  <2>2. CASE p # q
    <3>1. p \in writing /\ p # r
      BY <1>1, <2>2
    <3>2. writing = {p}
      BY <1>3, <3>1 DEF TotalsInv
    <3>3. QED
      BY <3>1, <3>2
  <2>3. QED
    BY <2>1, <2>2
<1>4. QED
  BY <1>1, <1>2, <1>3

\* The five handlers begin with what the row says.
LEMMA BeginSteps ==
  ASSUME TotalsInv,
         \/ AddManual \/ SetLocation \/ ConfirmTotal
         \/ \E delivers \in BOOLEAN : EditDelivery(delivers)
         \/ \E delivers \in BOOLEAN :
              \E list \in SUBSET ((DOMAIN items \cup {0}) \X Amounts) : EditItems(list, delivers)
  PROVE  TotalsInv'
<1>1. TotalsTypeOK /\ begun \in 0..MaxWriters /\ DOMAIN items \subseteq Ids
  BY DEF TotalsInv, TotalsTypeOK
<1>2. ASSUME NEW delivers \in BOOLEAN
      PROVE  CalculateOrderTotal(items, delivers) \in Nat
  BY <1>1, TotalIsNumber DEF TotalsTypeOK
<1>3. CASE AddManual
  <2> DEFINE r == [Request("insert", [total |-> 0]) EXCEPT !.delivers = orderRow.delivers]
  <2>1. orderRow.status = "draft" /\ Starts(r)
    BY <1>3 DEF AddManual
  <2>2. orderRow \in [status : Statuses, total : Nat, delivers : BOOLEAN] /\ orderRow.status # "absent"
    BY <2>1, RowIsThere DEF Statuses
  <2>3. [total |-> 0] \in [{"total"} -> Nat]
    OBVIOUS
  <2>4. [total |-> 0] \in Columns
    BY <2>3 DEF Columns
  <2>5. orderRow.delivers \in BOOLEAN
    BY <2>2
  <2>6. /\ r \in Writer /\ ~r.dirty
        /\ r.at = "insert" /\ r.recounts /\ r.delivers = orderRow.delivers
        /\ r.set = [total |-> 0]
    BY <1>1, <2>4, <2>5 DEF Writer, Request
  <2> HIDE DEF r
  <2>7. WillCount(r) /\ KnowsOrder(r)
    BY <2>6 DEF WillCount, KnowsOrder
  <2>8. QED
    BY <2>1, <2>2, <2>6, <2>7, StartsStep
<1>4. CASE SetLocation
  <2> DEFINE sum == CalculateOrderTotal(items, orderRow.delivers)
             r == Request("write", [status |-> "waiting_confirmation", total |-> sum])
  <2>1. orderRow.status \in Statuses /\ Starts(r)
    BY <1>4 DEF SetLocation
  <2>2. orderRow \in [status : Statuses, total : Nat, delivers : BOOLEAN] /\ orderRow.status # "absent"
    BY <2>1, RowIsThere
  <2>3. sum \in Nat
    BY <1>2, <2>2
  <2> HIDE DEF sum
  <2>4. [status |-> "waiting_confirmation", total |-> sum] \in Columns
    BY <2>3 DEF Columns, Statuses
  <2>5. /\ r \in Writer /\ ~r.dirty /\ r.at = "write"
        /\ r.set = [status |-> "waiting_confirmation", total |-> sum]
    BY <1>1, <2>4 DEF Writer, Request
  <2> HIDE DEF r
  <2>6. WillCount(r) /\ KnowsOrder(r)
    BY <2>5 DEF WillCount, KnowsOrder, CountsItems, sum
  <2>7. QED
    BY <2>1, <2>2, <2>5, <2>6, StartsStep
<1>5. CASE ConfirmTotal
  <2> DEFINE sum == IF UncountedDraft THEN CalculateOrderTotal(items, orderRow.delivers)
                      ELSE orderRow.total
             columns == [status |-> Confirmed(orderRow.delivers), total |-> sum]
             r == [Request("write", columns) EXCEPT !.recounts = UncountedDraft]
  <2>1. orderRow.status \in Statuses /\ Starts(r)
    BY <1>5 DEF ConfirmTotal
  <2>2. orderRow \in [status : Statuses, total : Nat, delivers : BOOLEAN] /\ orderRow.status # "absent"
    BY <2>1, RowIsThere
  <2>3. sum \in Nat /\ Confirmed(orderRow.delivers) \in Statuses
    BY <1>2, <2>2 DEF Confirmed, Statuses
  <2>4. UncountedDraft \in BOOLEAN
    BY DEF UncountedDraft
  <2>5. writing = {} /\ (UncountedDraft \/ exact) =>
          sum = CalculateOrderTotal(items, orderRow.delivers)
    BY <2>2 DEF TotalsInv, RowCounts, UncountedDraft
  <2> HIDE DEF sum
  <2>6. /\ columns \in Columns /\ "total" \in DOMAIN columns /\ columns.total = sum
        /\ "delivers" \notin DOMAIN columns
    BY <2>3 DEF Columns
  <2> HIDE DEF columns
  <2>7. /\ r \in Writer /\ ~r.dirty /\ r.at = "write" /\ r.set = columns
        /\ r.recounts = UncountedDraft
    BY <1>1, <2>4, <2>6 DEF Writer, Request
  <2> HIDE DEF r
  <2>8. WillCount(r) /\ (writing = {} => KnowsOrder(r))
    BY <2>5, <2>6, <2>7 DEF WillCount, KnowsOrder, CountsItems
  <2>9. QED
    BY <2>1, <2>2, <2>7, <2>8, StartsStep
<1>6. ASSUME NEW delivers \in BOOLEAN, EditDelivery(delivers)
      PROVE  TotalsInv'
  <2> DEFINE r == [Request("write", [delivers |-> delivers]) EXCEPT !.recounts = FALSE]
  <2>1. orderRow.status \in Statuses /\ Starts(r)
    BY <1>6 DEF EditDelivery
  <2>2. orderRow.status # "absent"
    BY <2>1, RowIsThere
  <2>3. [delivers |-> delivers] \in [{"delivers"} -> BOOLEAN]
    OBVIOUS
  <2>4. [delivers |-> delivers] \in Columns
    BY <2>3 DEF Columns
  <2>5. /\ r \in Writer /\ ~r.dirty /\ r.at = "write" /\ r.set = [delivers |-> delivers]
        /\ ~r.recounts
    BY <1>1, <2>4 DEF Writer, Request
  <2> HIDE DEF r
  <2>6. WillCount(r) /\ KnowsOrder(r)
    BY <2>5 DEF WillCount, KnowsOrder
  <2>7. QED
    BY <2>1, <2>2, <2>5, <2>6, StartsStep
<1>7. ASSUME NEW delivers \in BOOLEAN,
             NEW list \in SUBSET ((DOMAIN items \cup {0}) \X Amounts), EditItems(list, delivers)
      PROVE  TotalsInv'
  <2> DEFINE columns == [delivers |-> delivers, total |-> 0]
             drop == DOMAIN items \ {x[1] : x \in list}
             r == [Request("rows", columns) EXCEPT !.has = DOMAIN items, !.todo = list,
                                                   !.drop = drop]
  <2>1. orderRow.status \in Statuses /\ Starts(r)
    BY <1>7 DEF EditItems
  <2>2. orderRow.status # "absent"
    BY <2>1, RowIsThere
  <2>3. columns \in Columns /\ DOMAIN columns = {"delivers", "total"}
    BY DEF Columns
  <2>4. list \subseteq ((Ids \cup {0}) \X Amounts) /\ drop \subseteq Ids
    BY <1>1
  <2> HIDE DEF columns, drop
  <2>5. /\ r \in Writer /\ ~r.dirty /\ r.at = "rows" /\ r.set = columns /\ r.recounts
    BY <1>1, <2>3, <2>4 DEF Writer, Request
  <2> HIDE DEF r
  <2>6. WillCount(r) /\ KnowsOrder(r)
    BY <2>3, <2>5 DEF WillCount, KnowsOrder
  <2>7. QED
    BY <2>1, <2>2, <2>5, <2>6, StartsStep
<1>8. QED
  BY <1>3, <1>4, <1>5, <1>6, <1>7

\* A handler under way has an order.
LEMMA WriterHasOrder ==
  ASSUME TotalsInv, NEW r \in writing
  PROVE  /\ orderRow \in [status : Statuses, total : Nat, delivers : BOOLEAN]
         /\ orderRow.status # "absent" /\ r \in Writer
<1>1. orderRow.status # "absent" /\ r \in Writer
  BY DEF TotalsInv, TotalsTypeOK
<1>2. QED
  BY <1>1, RowIsThere

\* The statements that write an item: from then on the handler is dirty.
LEMMA ItemSteps ==
  ASSUME TotalsInv, NEW r \in writing,
         \/ \E amount \in Amounts : AddInsert(r, amount)
         \/ \E x \in r.todo : EditRow(r, x)
         \/ \E i \in r.drop : EditDrop(r, i)
  PROVE  TotalsInv'
<1>1. /\ orderRow \in [status : Statuses, total : Nat, delivers : BOOLEAN]
      /\ orderRow.status # "absent" /\ r \in Writer
  BY WriterHasOrder
<1>2. /\ TotalsTypeOK /\ DOMAIN items \subseteq Ids /\ WillCount(r)
      /\ r.alone => writing = {r} /\ KnowsOrder(r)
      /\ \A i \in DOMAIN items : items[i] \in Amounts
  BY DEF TotalsInv, TotalsTypeOK
<1>3. ASSUME created < MaxItems, created' = created + 1
      PROVE  created' \in Ids /\ created' \in 0..MaxItems
  BY <1>2, <1>3, TotalsAssumption DEF TotalsTypeOK, Ids
<1>4. PICK q \in Writer :
        /\ Goes(r, q) /\ UNCHANGED <<orderRow, begun, exact>>
        /\ q.alone = r.alone /\ q.dirty /\ q.recounts = r.recounts /\ q.set = r.set
        /\ q.delivers = r.delivers /\ q.at # "write" /\ r.at # "write"
        /\ DOMAIN items' \subseteq Ids /\ \A i \in DOMAIN items' : items'[i] \in Amounts
        /\ created' \in 0..MaxItems
  <2>1. ASSUME NEW amount \in Amounts, AddInsert(r, amount)
        PROVE  \E q \in Writer :
                 /\ Goes(r, q) /\ UNCHANGED <<orderRow, begun, exact>>
                 /\ q.alone = r.alone /\ q.dirty /\ q.recounts = r.recounts /\ q.set = r.set
                 /\ q.delivers = r.delivers /\ q.at # "write" /\ r.at # "write"
                 /\ DOMAIN items' \subseteq Ids /\ \A i \in DOMAIN items' : items'[i] \in Amounts
                 /\ created' \in 0..MaxItems
    <3> DEFINE q == [r EXCEPT !.at = "sum", !.dirty = TRUE]
    <3>1. /\ r.at = "insert" /\ created < MaxItems /\ created' = created + 1
          /\ items' = Insert(items, created', amount) /\ Goes(r, q)
          /\ UNCHANGED <<orderRow, begun, exact>>
      BY <2>1 DEF AddInsert
    <3>2. /\ DOMAIN items' \subseteq Ids /\ \A i \in DOMAIN items' : items'[i] \in Amounts
          /\ created' \in 0..MaxItems
      BY <1>2, <1>3, <3>1, ItemInserted
    <3>3. /\ q \in Writer /\ q.alone = r.alone /\ q.dirty /\ q.recounts = r.recounts
          /\ q.set = r.set /\ q.delivers = r.delivers /\ q.at # "write"
      BY <1>1 DEF Writer
    <3>4. QED
      BY <3>1, <3>2, <3>3
  <2>2. ASSUME NEW x \in r.todo, EditRow(r, x)
        PROVE  \E q \in Writer :
                 /\ Goes(r, q) /\ UNCHANGED <<orderRow, begun, exact>>
                 /\ q.alone = r.alone /\ q.dirty /\ q.recounts = r.recounts /\ q.set = r.set
                 /\ q.delivers = r.delivers /\ q.at # "write" /\ r.at # "write"
                 /\ DOMAIN items' \subseteq Ids /\ \A i \in DOMAIN items' : items'[i] \in Amounts
                 /\ created' \in 0..MaxItems
    <3> DEFINE q == [r EXCEPT !.todo = @ \ {x}, !.dirty = TRUE]
    <3>1. /\ r.at = "rows" /\ Goes(r, q) /\ UNCHANGED <<orderRow, begun, exact>>
          /\ \/ /\ x[1] \in DOMAIN items /\ items' = Insert(items, x[1], x[2])
                /\ created' = created
             \/ /\ created < MaxItems /\ created' = created + 1
                /\ items' = Insert(items, created', x[2])
      BY <2>2 DEF EditRow
    <3>2. x[2] \in Amounts /\ r.todo \subseteq ((Ids \cup {0}) \X Amounts)
      BY <1>1 DEF Writer
    <3>3. /\ DOMAIN items' \subseteq Ids /\ \A i \in DOMAIN items' : items'[i] \in Amounts
          /\ created' \in 0..MaxItems
      <4>1. CASE /\ x[1] \in DOMAIN items /\ items' = Insert(items, x[1], x[2])
                 /\ created' = created
        BY <1>2, <3>2, <4>1, ItemInserted DEF TotalsTypeOK
      <4>2. CASE /\ created < MaxItems /\ created' = created + 1
                 /\ items' = Insert(items, created', x[2])
        BY <1>2, <1>3, <3>2, <4>2, ItemInserted
      <4>3. QED
        BY <3>1, <4>1, <4>2
    <3>4. /\ q \in Writer /\ q.alone = r.alone /\ q.dirty /\ q.recounts = r.recounts
          /\ q.set = r.set /\ q.delivers = r.delivers /\ q.at = r.at
      BY <1>1 DEF Writer
    <3>5. QED
      BY <3>1, <3>3, <3>4
  <2>3. ASSUME NEW i \in r.drop, EditDrop(r, i)
        PROVE  \E q \in Writer :
                 /\ Goes(r, q) /\ UNCHANGED <<orderRow, begun, exact>>
                 /\ q.alone = r.alone /\ q.dirty /\ q.recounts = r.recounts /\ q.set = r.set
                 /\ q.delivers = r.delivers /\ q.at # "write" /\ r.at # "write"
                 /\ DOMAIN items' \subseteq Ids /\ \A j \in DOMAIN items' : items'[j] \in Amounts
                 /\ created' \in 0..MaxItems
    <3> DEFINE q == [r EXCEPT !.drop = @ \ {i}, !.dirty = TRUE]
    <3>1. /\ r.at = "rows" /\ Goes(r, q) /\ UNCHANGED <<orderRow, begun, exact, created>>
          /\ items' = [j \in DOMAIN items \ {i} |-> items[j]]
      BY <2>3 DEF EditDrop
    <3>2. /\ DOMAIN items' \subseteq Ids /\ \A j \in DOMAIN items' : items'[j] \in Amounts
          /\ created' \in 0..MaxItems
      BY <1>2, <3>1 DEF TotalsTypeOK
    <3>3. /\ q \in Writer /\ q.alone = r.alone /\ q.dirty /\ q.recounts = r.recounts
          /\ q.set = r.set /\ q.delivers = r.delivers /\ q.at = r.at
      BY <1>1 DEF Writer
    <3>4. QED
      BY <3>1, <3>2, <3>3
  <2>4. QED
    BY <2>1, <2>2, <2>3
<1>5. WillCount(q) /\ (r.alone => KnowsOrder(q)')
  BY <1>2, <1>4 DEF WillCount, KnowsOrder
<1>6. /\ writing' \subseteq Writer
      /\ \A p \in writing' : WillCount(p)'
      /\ \A p \in writing' : p.alone => writing' = {p} /\ KnowsOrder(p)'
  BY <1>4, <1>5, GoesStep
<1>7. TotalsTypeOK'
  BY <1>2, <1>4, <1>6 DEF TotalsTypeOK
<1>8. q \in writing' /\ q.dirty
  BY <1>4 DEF Goes
<1>9. QED
  BY <1>1, <1>4, <1>6, <1>7, <1>8 DEF TotalsInv

\* The items are read again and summed.
LEMMA SumStepOfTotals ==
  ASSUME TotalsInv, NEW r \in writing, SumItems(r)
  PROVE  TotalsInv'
<1>1. /\ orderRow \in [status : Statuses, total : Nat, delivers : BOOLEAN]
      /\ orderRow.status # "absent" /\ r \in Writer
  BY WriterHasOrder
<1>2. /\ TotalsTypeOK /\ WillCount(r) /\ (r.alone => writing = {r} /\ KnowsOrder(r))
      /\ writing \subseteq Writer
  BY DEF TotalsInv, TotalsTypeOK
<1> DEFINE delivers == IF "delivers" \in DOMAIN r.set THEN r.set.delivers ELSE r.delivers
           sum == CalculateOrderTotal(items, delivers)
<1>3. /\ r.at # "write" /\ Goes(r, [r EXCEPT !.at = "write", !.set.total = sum])
      /\ UNCHANGED <<orderRow, items, created, begun, exact>>
  BY DEF SumItems
<1>4. r.set \in [{"total"} -> Nat] \cup [delivers : BOOLEAN, total : Nat]
  <2>1. r.set \in Columns /\ "total" \in DOMAIN r.set /\ "status" \notin DOMAIN r.set
    BY <1>1, <1>2, <1>3 DEF Writer, WillCount
  <2>2. QED
    BY <2>1 DEF Columns
<1>5. delivers \in BOOLEAN
  BY <1>1, <1>4 DEF Writer
<1>6. sum \in Nat
  BY <1>2, <1>5, TotalIsNumber DEF TotalsTypeOK
<1>7. r.alone => sum = CalculateOrderTotal(items, IF "delivers" \in DOMAIN r.set
                                                    THEN r.set.delivers
                                                    ELSE orderRow.delivers)
  BY <1>2, <1>3 DEF KnowsOrder
<1> HIDE DEF delivers, sum
<1>8. PICK columns \in Columns :
        /\ columns = [r.set EXCEPT !.total = sum]
        /\ DOMAIN columns = DOMAIN r.set /\ "total" \in DOMAIN columns
        /\ columns.total = sum
        /\ "delivers" \in DOMAIN columns => columns.delivers = r.set.delivers
  <2> DEFINE columns == [r.set EXCEPT !.total = sum]
  <2>1. /\ columns \in Columns
        /\ DOMAIN columns = DOMAIN r.set /\ "total" \in DOMAIN columns
        /\ columns.total = sum
        /\ "delivers" \in DOMAIN columns => columns.delivers = r.set.delivers
    BY <1>4, <1>6 DEF Columns
  <2>2. QED
    BY <2>1
<1>9. PICK q \in Writer :
        /\ Goes(r, q) /\ q.alone = r.alone /\ q.dirty = r.dirty /\ q.at = "write"
        /\ q.set = columns
  <2> DEFINE q == [r EXCEPT !.at = "write", !.set = columns]
  <2>1. q = [r EXCEPT !.at = "write", !.set.total = sum]
    BY <1>1, <1>8 DEF Writer
  <2>2. /\ q \in Writer /\ q.alone = r.alone /\ q.dirty = r.dirty /\ q.at = "write"
        /\ q.set = columns
    BY <1>1 DEF Writer
  <2>3. QED
    BY <1>3, <2>1, <2>2
<1>10. WillCount(q) /\ (r.alone => KnowsOrder(q)')
  <2>1. r.alone => CountsItems(q.set)'
    BY <1>3, <1>7, <1>8, <1>9 DEF CountsItems
  <2>2. QED
    BY <1>9, <2>1 DEF WillCount, KnowsOrder
<1>11. /\ writing' \subseteq Writer
       /\ \A p \in writing' : WillCount(p)'
       /\ \A p \in writing' : p.alone => writing' = {p} /\ KnowsOrder(p)'
  BY <1>3, <1>9, <1>10, GoesStep
<1>12. TotalsTypeOK'
  BY <1>2, <1>3, <1>11 DEF TotalsTypeOK
<1>13. (\A p \in writing' : ~p.dirty) => \A p \in writing : ~p.dirty
  BY <1>3, <1>9 DEF Goes
<1>14. QED
  BY <1>1, <1>3, <1>11, <1>12, <1>13 DEF TotalsInv, RowCounts

\* With a handler gone nobody who was beside it works alone.
LEMMA NobodyAlone ==
  ASSUME TotalsInv, NEW r \in writing, writing' = writing \ {r}
  PROVE  \A p \in writing' : ~p.alone /\ WillCount(p)'
BY DEF TotalsInv, WillCount

\* The columns are written over those of the row.
LEMMA WriteTotalStep ==
  ASSUME TotalsInv, NEW r \in writing, WriteTotal(r)
  PROVE  TotalsInv'
<1>1. /\ orderRow \in [status : Statuses, total : Nat, delivers : BOOLEAN]
      /\ orderRow.status # "absent" /\ r \in Writer
  BY WriterHasOrder
<1>2. /\ TotalsTypeOK /\ (r.alone => KnowsOrder(r)) /\ r.set \in Columns
      /\ r.alone \in BOOLEAN /\ r.recounts \in BOOLEAN
  BY <1>1 DEF TotalsInv, Writer
<1>3. /\ r.at = "write"
      /\ orderRow' = [column \in DOMAIN orderRow |->
                        IF column \in DOMAIN r.set THEN r.set[column] ELSE orderRow[column]]
      /\ writing' = writing \ {r}
      /\ exact' = (r.alone /\ (r.recounts \/ (exact /\ "status" \in DOMAIN r.set)))
      /\ UNCHANGED <<items, created, begun>>
  BY DEF WriteTotal
<1>4. /\ orderRow'.status = IF "status" \in DOMAIN r.set THEN r.set.status ELSE orderRow.status
      /\ orderRow'.total = IF "total" \in DOMAIN r.set THEN r.set.total ELSE orderRow.total
      /\ orderRow'.delivers = IF "delivers" \in DOMAIN r.set THEN r.set.delivers
                              ELSE orderRow.delivers
  BY <1>1, <1>3
<1>5. orderRow' \in [status : Statuses, total : Nat, delivers : BOOLEAN]
  BY <1>1, <1>2, <1>3 DEF Columns
<1>6. orderRow'.status # "absent"
  BY <1>5 DEF Statuses
<1>7. TotalsTypeOK'
  <2>1. exact' \in BOOLEAN
    BY <1>3
  <2>2. QED
    BY <1>2, <1>3, <1>5, <2>1 DEF TotalsTypeOK
<1>8. exact' => RowCounts'
  BY <1>2, <1>3, <1>4 DEF KnowsOrder, CountsItems, RowCounts
<1>9. \A p \in writing' : ~p.alone /\ WillCount(p)'
  BY <1>3, NobodyAlone
<1>10. QED
  BY <1>6, <1>7, <1>8, <1>9 DEF TotalsInv

\* A handler that ends with an item written leaves the total behind.
LEMMA WriterFailsStep ==
  ASSUME TotalsInv, NEW r \in writing, WriterFails(r)
  PROVE  TotalsInv'
<1>1. orderRow.status # "absent" /\ r \in Writer
  BY WriterHasOrder
<1>2. /\ writing' = writing \ {r} /\ exact' = (exact /\ ~r.dirty)
      /\ UNCHANGED <<orderRow, items, created, begun>>
  BY DEF WriterFails
<1>3. TotalsTypeOK'
  <2>1. exact' \in BOOLEAN
    BY <1>2
  <2>2. QED
    BY <1>2, <2>1 DEF TotalsInv, TotalsTypeOK
<1>4. \A p \in writing' : ~p.alone /\ WillCount(p)'
  BY <1>2, NobodyAlone
<1>5. exact' /\ (\A p \in writing' : ~p.dirty) => RowCounts'
  BY <1>1, <1>2 DEF TotalsInv, RowCounts
<1>6. QED
  BY <1>1, <1>2, <1>3, <1>4, <1>5 DEF TotalsInv

\* Every step of every handler.
LEMMA StepTotals ==
  TotalsInv /\ [TotalsNext]_totalsVars => TotalsInv'
<1> SUFFICES ASSUME TotalsInv, [TotalsNext]_totalsVars PROVE TotalsInv'
  OBVIOUS
<1>1. ASSUME NEW amount \in Amounts, NEW delivers \in BOOLEAN,
             \/ DraftCreated(amount, delivers)
             \/ \E fails \in BOOLEAN : OrderEntered(amount, delivers, fails)
      PROVE  TotalsInv'
  BY <1>1, EnteredStep
<1>2. CASE AddManual \/ SetLocation \/ ConfirmTotal
  BY <1>2, BeginSteps
<1>3. ASSUME NEW delivers \in BOOLEAN,
             \/ EditDelivery(delivers)
             \/ \E list \in SUBSET ((DOMAIN items \cup {0}) \X Amounts) :
                  EditItems(list, delivers)
      PROVE  TotalsInv'
  BY <1>3, BeginSteps
<1>4. ASSUME NEW r \in writing, SumItems(r) \/ WriteTotal(r) \/ WriterFails(r)
      PROVE  TotalsInv'
  BY <1>4, SumStepOfTotals, WriteTotalStep, WriterFailsStep
<1>5. ASSUME NEW r \in writing,
             \/ \E amount \in Amounts : AddInsert(r, amount)
             \/ \E x \in r.todo : EditRow(r, x)
             \/ \E i \in r.drop : EditDrop(r, i)
      PROVE  TotalsInv'
  BY <1>5, ItemSteps
<1>6. CASE UNCHANGED totalsVars
  BY <1>6 DEF totalsVars, TotalsInv, TotalsTypeOK, RowCounts, WillCount, KnowsOrder, CountsItems
<1>7. QED
  BY <1>1, <1>2, <1>3, <1>4, <1>5, <1>6 DEF TotalsNext

\* Once it has left the draft, an order's total is that of its items and its
\* delivery, for any items and handlers, if the last to write it was alone and
\* wrote them all: the draft that createDraft leaves at 0 is summed on the way,
\* and confirm may write back the total it has read (price-calculator.ts,
\* createDraft, addManualProductToOrder, setLocation, confirm, updateOrder).
THEOREM TotalsFollowItems == TotalsSpec => [](TotalsTypeOK /\ TotalIsItems)
<1>1. TotalsInv => TotalsTypeOK /\ TotalIsItems
  BY DEF TotalsInv, RowCounts, TotalIsItems
<1>2. QED
  BY TotalsInitially, StepTotals, <1>1, PTL DEF TotalsSpec
-----------------------------------------------------------------------------
(* The tabs of the history (module HistoryPage).                           *)

ShowList == Newest(InTab(tab))

\* The rows down to the end of a page, and those of one page.
PageEnd(list, p) == IF p * PageSize < Len(list) THEN p * PageSize ELSE Len(list)
ShownTo(list, p) == SubSeq(list, 1, PageEnd(list, p))
RowsOfPage(list, p) == SubSeq(list, (p - 1) * PageSize + 1, PageEnd(list, p))

\* A request has its six parts.
IsAsked(q) ==
  q = [number |-> q.number, tab |-> q.tab, page |-> q.page, read |-> q.read,
       items |-> q.items, total |-> q.total]

\* Pages are numbered from 1.
PagesShape ==
  /\ pageNo \in Nat \ {0}
  /\ \A q \in requests : IsAsked(q) /\ q.page \in Nat \ {0}

\* While the tab is the only one asked for, one request is on its way at a
\* time: for the first page, with nothing shown, or for the next one.
OneAsked ==
  ~crossed =>
    /\ \A q, r \in requests : q = r
    /\ \A q \in requests :
         /\ q.tab = tab /\ ~failed
         /\ \/ q.page = 1 /\ rows = <<>> /\ loading
            \/ q.page = pageNo + 1 /\ rows # <<>> /\ loadingMore
    /\ failed => rows = <<>>

\* While the list stays what it was, the rows are its pages so far, an answer
\* on its way is the page that was asked for, and there is a page to ask for.
OwnPages ==
  ~crossed /\ ~moved =>
    /\ rows # <<>> => rows = ShownTo(ShowList, pageNo) /\ total = Len(ShowList)
    /\ \A q \in requests :
         /\ q.read => q.items = RowsOfPage(ShowList, q.page) /\ q.total = Len(ShowList)
         /\ q.page # 1 => pageNo * PageSize < Len(ShowList)

PagesInv == PagesShape /\ OneAsked /\ OwnPages

\* The list under a tab is a sequence.
LEMMA ListIsSequence ==
  ASSUME NEW t
  PROVE  \E S : Newest(InTab(t)) \in Seq(S)
<1> DEFINE L == Newest(InTab(t))
           S == {L[n] : n \in 1..Cardinality(InTab(t))}
<1>1. IsFiniteSet(InTab(t))
  <2>1. IsFiniteSet(ClosedIds)
    BY PagesAssumption, FS_Interval DEF ClosedIds
  <2>2. InTab(t) \subseteq ClosedIds
    BY DEF InTab
  <2> QED
    BY <2>1, <2>2, FS_Subset
<1>2. Cardinality(InTab(t)) \in Nat
  BY <1>1, FS_CardinalityType
<1>3. L \in [1..Cardinality(InTab(t)) -> S]
  BY DEF Newest
<1>4. L \in Seq(S)
  <2> HIDE DEF L, S
  <2> QED
    BY <1>2, <1>3
<1> QED
  BY <1>4

\* What is shown of a list has the length that was asked for, down to the end.
LEMMA ShownLength ==
  ASSUME NEW S, NEW list \in Seq(S), NEW p \in Nat \ {0}
  PROVE  /\ Len(list) \in Nat /\ p * PageSize \in Nat
         /\ Len(ShownTo(list, p)) = PageEnd(list, p)
         /\ PageEnd(list, p) = Len(list) => ShownTo(list, p) = list
<1>1. Len(list) \in Nat /\ DOMAIN list = 1..Len(list) /\ \A i \in 1..Len(list) : list[i] \in S
  BY LenProperties
<1>2. PageSize \in Nat \ {0}
  BY PagesAssumption
<1>3. p * PageSize \in Nat
  BY <1>2
<1>4. PageEnd(list, p) \in Nat /\ PageEnd(list, p) <= Len(list)
  BY <1>1, <1>3 DEF PageEnd
<1>5. Len(ShownTo(list, p)) = PageEnd(list, p)
  <2> DEFINE e == PageEnd(list, p)
  <2>1. e \in Nat /\ \A i \in 1..e : list[i] \in S
    BY <1>1, <1>4
  <2>2. Len(SubSeq(list, 1, e)) = IF 1 <= e THEN e - 1 + 1 ELSE 0
    <3> HIDE DEF e
    <3> QED
      BY <2>1, SubSeqProperties
  <2> QED
    BY <2>1, <2>2 DEF ShownTo
<1>6. PageEnd(list, p) = Len(list) => ShownTo(list, p) = list
  BY SubSeqFull DEF ShownTo
<1> QED
  BY <1>1, <1>3, <1>5, <1>6

\* One more page appended to those shown is what is shown down to that page.
LEMMA NextPageAppends ==
  ASSUME NEW S, NEW list \in Seq(S), NEW p \in Nat \ {0}, p * PageSize < Len(list)
  PROVE  ShownTo(list, p) \o RowsOfPage(list, p + 1) = ShownTo(list, p + 1)
<1>1. Len(list) \in Nat /\ p * PageSize \in Nat /\ PageSize \in Nat \ {0}
  BY ShownLength, PagesAssumption
<1>2. (p + 1) * PageSize = p * PageSize + PageSize
  BY <1>1
<1>3. PageEnd(list, p) = p * PageSize
  BY <1>1 DEF PageEnd
<1> DEFINE k == p * PageSize
           n == PageEnd(list, p + 1)
<1>4. k \in 0..Len(list) /\ n \in k..Len(list)
  BY <1>1, <1>2 DEF PageEnd
<1>5. (p + 1) - 1 = p
  OBVIOUS
<1>6. SubSeq(list, 1, k) \o SubSeq(list, k + 1, n) = SubSeq(list, 1, n)
  <2> HIDE DEF k, n
  <2>1. 1 \in 1..(Len(list) + 1) /\ k \in (1 - 1)..Len(list)
    BY <1>1, <1>4
  <2> QED
    BY <1>4, <2>1, ConcatAdjacentSubSeq
<1> QED
  BY <1>3, <1>5, <1>6 DEF ShownTo, RowsOfPage

LEMMA FirstPageShows ==
  ASSUME NEW list
  PROVE  RowsOfPage(list, 1) = ShownTo(list, 1)
<1>1. (1 - 1) * PageSize + 1 = 1
  BY PagesAssumption
<1> QED
  BY <1>1 DEF RowsOfPage, ShownTo

LEMMA PagesInitially == PagesInit => PagesInv
<1> SUFFICES ASSUME PagesInit PROVE PagesInv
  OBVIOUS
<1> DEFINE r == [number |-> 1, tab |-> "all", page |-> 1, read |-> FALSE, items |-> <<>>,
                 total |-> 0]
<1>1. requests = {r} /\ rows = <<>> /\ tab = "all" /\ loading = TRUE /\ failed = FALSE
  BY DEF PagesInit
<1>2. PagesShape
  BY <1>1 DEF PagesInit, PagesShape, IsAsked
<1>3. r.tab = tab /\ r.page = 1 /\ r.read = FALSE
  BY <1>1
<1>4. OneAsked
  BY <1>1, <1>3 DEF OneAsked
<1>5. OwnPages
  BY <1>1, <1>3 DEF OwnPages
<1> QED
  BY <1>2, <1>4, <1>5 DEF PagesInv

\* An answer is its request with the rows that were read.
LEMMA AnswerIs ==
  ASSUME NEW q, NEW i, NEW n, IsAsked(q)
  PROVE  [q EXCEPT !.read = TRUE, !.items = i, !.total = n]
           = [number |-> q.number, tab |-> q.tab, page |-> q.page, read |-> TRUE,
              items |-> i, total |-> n]
<1>1. ASSUME NEW a, a = [q EXCEPT !.read = TRUE, !.items = i, !.total = n]
      PROVE  a = [number |-> q.number, tab |-> q.tab, page |-> q.page, read |-> TRUE,
                  items |-> i, total |-> n]
  <2> DEFINE r == [number |-> q.number, tab |-> q.tab, page |-> q.page, read |-> q.read,
                 items |-> q.items, total |-> q.total]
  <2>1. a = [r EXCEPT !.read = TRUE, !.items = i, !.total = n]
    BY <1>1 DEF IsAsked
  <2> QED
    BY <2>1
<1> QED
  BY <1>1, Zenon

\* The answer to a request names the same tab and page.
LEMMA PageIsRead ==
  ASSUME PagesInv, NEW q \in requests, ServerPage(q)
  PROVE  PagesInv'
<1> DEFINE list == Newest(InTab(q.tab))
           a == [number |-> q.number, tab |-> q.tab, page |-> q.page, read |-> TRUE,
                 items |-> RowsOfPage(list, q.page), total |-> Len(list)]
<1>1. IsAsked(q) /\ q.page \in Nat \ {0}
  BY DEF PagesInv, PagesShape
<1>2. requests' = (requests \ {q}) \cup {a}
  <2>1. requests' = (requests \ {q}) \cup
          {[q EXCEPT !.read = TRUE, !.items = RowsOfPage(list, q.page), !.total = Len(list)]}
    BY DEF ServerPage, RowsOfPage, PageEnd
  <2>2. [q EXCEPT !.read = TRUE, !.items = RowsOfPage(list, q.page), !.total = Len(list)] = a
    BY <1>1, AnswerIs
  <2> QED
    BY <2>1, <2>2
<1>3. /\ a.tab = q.tab /\ a.page = q.page /\ a.read = TRUE
      /\ a.items = RowsOfPage(list, q.page) /\ a.total = Len(list)
      /\ IsAsked(a)
  BY DEF IsAsked
<1>4. UNCHANGED <<state, closings, tab, rows, total, pageNo, loading, loadingMore, failed, crossed,
                  moved>>
  BY DEF ServerPage
<1>5. ShowList' = ShowList
  BY <1>4 DEF ShowList, Newest, InTab
<1> HIDE DEF a, list
<1>6. PagesShape'
  BY <1>1, <1>2, <1>3, <1>4 DEF PagesInv, PagesShape
<1>7. OneAsked'
  BY <1>2, <1>3, <1>4 DEF PagesInv, OneAsked
<1>8. OwnPages'
  <2> SUFFICES ASSUME ~crossed, ~moved
               PROVE  /\ rows # <<>> => rows = ShownTo(ShowList, pageNo) /\ total = Len(ShowList)
                      /\ \A r \in requests' :
                           /\ r.read => r.items = RowsOfPage(ShowList, r.page)
                                        /\ r.total = Len(ShowList)
                           /\ r.page # 1 => pageNo * PageSize < Len(ShowList)
    BY <1>4, <1>5 DEF OwnPages, ShownTo, PageEnd, RowsOfPage
  <2>1. list = ShowList
    BY DEF PagesInv, OneAsked, ShowList, list
  <2> QED
    BY <1>2, <1>3, <2>1 DEF PagesInv, OwnPages
<1> QED
  BY <1>6, <1>7, <1>8 DEF PagesInv

\* What arrives is the first page, or the next one of the same list.
LEMMA AnswerArrives ==
  ASSUME PagesInv, NEW q \in requests, Arrives(q)
  PROVE  PagesInv'
<1>1. /\ q.read /\ requests' = requests \ {q}
      /\ rows' = IF q.page = 1 THEN q.items ELSE rows \o q.items
      /\ total' = q.total /\ pageNo' = q.page
      /\ loading' = FALSE /\ loadingMore' = FALSE
      /\ UNCHANGED <<state, closings, tab, failed, crossed, moved>>
  BY DEF Arrives
<1>2. ShowList' = ShowList
  BY <1>1 DEF ShowList, Newest, InTab
<1>3. PagesShape'
  BY <1>1 DEF PagesInv, PagesShape
<1>4. ~crossed => requests' = {} /\ ~failed
  BY <1>1 DEF PagesInv, OneAsked
<1>5. OneAsked'
  BY <1>1, <1>4 DEF OneAsked
<1>6. ASSUME ~crossed, ~moved
      PROVE  rows' = ShownTo(ShowList, q.page) /\ total' = Len(ShowList)
  <2>1. /\ q.items = RowsOfPage(ShowList, q.page) /\ q.total = Len(ShowList)
        /\ q.page # 1 => pageNo * PageSize < Len(ShowList)
        /\ q.page # 1 => q.page = pageNo + 1 /\ rows # <<>>
        /\ rows # <<>> => rows = ShownTo(ShowList, pageNo)
    BY <1>1, <1>6 DEF PagesInv, OneAsked, OwnPages
  <2>2. CASE q.page = 1
    BY <1>1, <2>1, <2>2, FirstPageShows
  <2>3. CASE q.page # 1
    <3>1. PICK S : ShowList \in Seq(S)
      BY ListIsSequence DEF ShowList
    <3>2. pageNo \in Nat \ {0}
      BY DEF PagesInv, PagesShape
    <3>3. ShownTo(ShowList, pageNo) \o RowsOfPage(ShowList, pageNo + 1)
            = ShownTo(ShowList, pageNo + 1)
      BY <2>1, <2>3, <3>1, <3>2, NextPageAppends
    <3> QED
      BY <1>1, <2>1, <2>3, <3>3
  <2> QED
    BY <2>2, <2>3
<1>7. OwnPages'
  BY <1>1, <1>2, <1>4, <1>6 DEF OwnPages, ShownTo, PageEnd
<1> QED
  BY <1>3, <1>5, <1>7 DEF PagesInv

\* A lost first page leaves nothing, any other what was there.
LEMMA AnswerLost ==
  ASSUME PagesInv, NEW q \in requests, Lost(q)
  PROVE  PagesInv'
<1>1. /\ requests' = requests \ {q}
      /\ rows' = IF q.page = 1 THEN <<>> ELSE rows
      /\ failed' = (failed \/ q.page = 1)
      /\ loading' = FALSE /\ loadingMore' = FALSE
      /\ UNCHANGED <<state, closings, tab, total, pageNo, crossed, moved>>
  BY DEF Lost
<1>2. ShowList' = ShowList
  BY <1>1 DEF ShowList, Newest, InTab
<1>3. PagesShape'
  BY <1>1 DEF PagesInv, PagesShape
<1>4. ~crossed => requests' = {} /\ ~failed
  BY <1>1 DEF PagesInv, OneAsked
<1>5. OneAsked'
  BY <1>1, <1>4 DEF OneAsked
<1>6. OwnPages'
  BY <1>1, <1>2, <1>4 DEF PagesInv, OwnPages, ShownTo, PageEnd
<1> QED
  BY <1>3, <1>5, <1>6 DEF PagesInv

\* An order that enters or leaves the tab moves the list, and nothing else.
LEMMA ListMoves ==
  ASSUME PagesInv, NEW o \in ClosedIds, NEW to \in States, Turns(o, to)
  PROVE  PagesInv'
<1>1. /\ state' = [state EXCEPT ![o] = to] /\ moved' = TRUE
      /\ UNCHANGED <<tab, rows, total, pageNo, loading, loadingMore, failed, requests, crossed>>
  BY DEF Turns
<1>2. PagesShape'
  BY <1>1 DEF PagesInv, PagesShape
<1>3. OneAsked'
  BY <1>1 DEF PagesInv, OneAsked
<1>4. OwnPages'
  BY <1>1 DEF OwnPages
<1> QED
  BY <1>2, <1>3, <1>4 DEF PagesInv

\* Another tab starts from nothing; it is the only one asked for when no answer
\* was still out.
LEMMA TabChanges ==
  ASSUME PagesInv, NEW t \in Tabs, SelectTab(t)
  PROVE  PagesInv'
<1> DEFINE a == Ask(t, 1)
<1>1. /\ tab' = t /\ rows' = <<>> /\ requests' = requests \cup {a}
      /\ crossed' = (requests # {}) /\ moved' = FALSE
      /\ loading' = TRUE /\ failed' = FALSE
      /\ UNCHANGED <<state, closings, total, pageNo, loadingMore>>
  BY DEF SelectTab
<1>2. /\ IsAsked(a)
      /\ a.tab = t /\ a.page = 1 /\ a.read = FALSE
  BY DEF Ask, IsAsked
<1> HIDE DEF a
<1>3. PagesShape'
  BY <1>1, <1>2 DEF PagesInv, PagesShape
<1>4. OneAsked'
  BY <1>1, <1>2 DEF OneAsked
<1>5. OwnPages'
  BY <1>1, <1>2 DEF OwnPages
<1> QED
  BY <1>3, <1>4, <1>5 DEF PagesInv

\* The next page is asked for while some of the list is not shown.
LEMMA MoreIsAsked ==
  ASSUME PagesInv, LoadMore
  PROVE  PagesInv'
<1> DEFINE a == Ask(tab, pageNo + 1)
<1>1. /\ rows # <<>> /\ ~failed /\ ~loadingMore /\ Len(rows) < total
      /\ loadingMore' = TRUE /\ requests' = requests \cup {a}
      /\ UNCHANGED <<state, closings, tab, rows, total, pageNo, loading, failed, crossed, moved>>
  BY DEF LoadMore
<1>2. /\ IsAsked(a)
      /\ a.tab = tab /\ a.page = pageNo + 1 /\ a.read = FALSE
  BY DEF Ask, IsAsked
<1>3. ShowList' = ShowList
  BY <1>1 DEF ShowList, Newest, InTab
<1>4. pageNo \in Nat \ {0}
  BY DEF PagesInv, PagesShape
<1> HIDE DEF a
<1>5. PagesShape'
  BY <1>1, <1>2, <1>4 DEF PagesInv, PagesShape
<1>6. ~crossed => requests = {}
  BY <1>1 DEF PagesInv, OneAsked
<1>7. OneAsked'
  BY <1>1, <1>2, <1>6 DEF OneAsked
<1>8. ASSUME ~crossed, ~moved
      PROVE  pageNo * PageSize < Len(ShowList)
  <2>1. rows = ShownTo(ShowList, pageNo) /\ total = Len(ShowList)
    BY <1>1, <1>8 DEF PagesInv, OwnPages
  <2>2. PICK S : ShowList \in Seq(S)
    BY ListIsSequence DEF ShowList
  <2>3. Len(rows) = PageEnd(ShowList, pageNo)
    BY <1>4, <2>1, <2>2, ShownLength
  <2> QED
    BY <1>1, <2>1, <2>3 DEF PageEnd
<1>9. OwnPages'
  BY <1>1, <1>2, <1>3, <1>6, <1>8 DEF PagesInv, OwnPages, ShownTo, PageEnd
<1> QED
  BY <1>5, <1>7, <1>9 DEF PagesInv

\* A failed first page is asked for again.
LEMMA FirstIsRetried ==
  ASSUME PagesInv, Retry
  PROVE  PagesInv'
<1> DEFINE a == Ask(tab, 1)
<1>1. /\ failed /\ requests' = requests \cup {a} /\ loading' = TRUE /\ failed' = FALSE
      /\ UNCHANGED <<state, closings, tab, rows, total, pageNo, loadingMore, crossed, moved>>
  BY DEF Retry
<1>2. /\ IsAsked(a)
      /\ a.tab = tab /\ a.page = 1 /\ a.read = FALSE
  BY DEF Ask, IsAsked
<1> HIDE DEF a
<1>3. PagesShape'
  BY <1>1, <1>2 DEF PagesInv, PagesShape
<1>4. ~crossed => requests = {} /\ rows = <<>>
  BY <1>1 DEF PagesInv, OneAsked
<1>5. OneAsked'
  BY <1>1, <1>2, <1>4 DEF OneAsked
<1>6. OwnPages'
  BY <1>1, <1>2, <1>4 DEF OwnPages
<1> QED
  BY <1>3, <1>5, <1>6 DEF PagesInv

LEMMA PagesPreserved == PagesInv /\ [PagesNext]_pageVars => PagesInv'
<1> SUFFICES ASSUME PagesInv, [PagesNext]_pageVars PROVE PagesInv'
  OBVIOUS
<1>1. CASE \E q \in requests : ServerPage(q) \/ Arrives(q) \/ Lost(q)
  BY <1>1, PageIsRead, AnswerArrives, AnswerLost
<1>2. CASE \E o \in ClosedIds, to \in States : Turns(o, to)
  BY <1>2, ListMoves
<1>3. CASE \E t \in Tabs : SelectTab(t)
  BY <1>3, TabChanges
<1>4. CASE LoadMore
  BY <1>4, MoreIsAsked
<1>5. CASE Retry
  BY <1>5, FirstIsRetried
<1>6. CASE UNCHANGED pageVars
  <2>1. UNCHANGED <<state, tab, rows, total, pageNo, loading, loadingMore, failed, requests,
                    crossed, moved>>
    BY <1>6 DEF pageVars
  <2>2. ShowList' = ShowList
    BY <2>1 DEF ShowList, Newest, InTab
  <2>3. PagesShape'
    BY <2>1 DEF PagesInv, PagesShape
  <2>4. OneAsked'
    BY <2>1 DEF PagesInv, OneAsked
  <2>5. OwnPages'
    BY <2>1, <2>2 DEF PagesInv, OwnPages, ShownTo, RowsOfPage, PageEnd
  <2> QED
    BY <2>3, <2>4, <2>5 DEF PagesInv
<1> QED
  BY <1>1, <1>2, <1>3, <1>4, <1>5, <1>6 DEF PagesNext

LEMMA PagesAreOwn == PagesInv => TabShowsItsOwn
<1> SUFFICES ASSUME PagesInv, ~crossed, ~moved, requests = {}, rows # <<>>
             PROVE  /\ Len(rows) <= Len(ShowList)
                    /\ rows = SubSeq(ShowList, 1, Len(rows))
                    /\ Len(rows) < total \/ rows = ShowList
  BY DEF TabShowsItsOwn, ShowList
<1>1. rows = ShownTo(ShowList, pageNo) /\ total = Len(ShowList)
  BY DEF PagesInv, OwnPages
<1>2. pageNo \in Nat \ {0}
  BY DEF PagesInv, PagesShape
<1>3. PICK S : ShowList \in Seq(S)
  BY ListIsSequence DEF ShowList
<1>4. /\ Len(ShowList) \in Nat /\ pageNo * PageSize \in Nat
      /\ Len(rows) = PageEnd(ShowList, pageNo)
      /\ PageEnd(ShowList, pageNo) = Len(ShowList) => rows = ShowList
  BY <1>1, <1>2, <1>3, ShownLength
<1>5. rows = SubSeq(ShowList, 1, Len(rows))
  BY <1>1, <1>4 DEF ShownTo
<1> QED
  BY <1>1, <1>4, <1>5 DEF PageEnd

\* The list under a tab of the history is the first rows of this tab, each once
\* and in order, and all of them when the button is gone, unless an answer for
\* another tab came in between or the list itself moved.
THEOREM TabsShowTheirOwn == PagesSpec => []TabShowsItsOwn
<1>1. PagesInit => PagesInv
  BY PagesInitially
<1>2. PagesInv /\ [PagesNext]_pageVars => PagesInv'
  BY PagesPreserved
<1>3. PagesInv => TabShowsItsOwn
  BY PagesAreOwn
<1> QED
  BY <1>1, <1>2, <1>3, PTL DEF PagesSpec
-----------------------------------------------------------------------------
(* The account of a supplier (module Suppliers). Both of its loops are     *)
(* FoldLeft over the deliveries; kind tells which, so that the equation of *)
(* the fold is shown once.                                                 *)

LoopStart(kind, money) ==
  IF kind = "total" THEN 0 ELSE [left |-> money, aged |-> [a \in Ages |-> 0]]

LoopStep(kind, acc, p) ==
  IF kind = "total" THEN acc + p.total
  ELSE LET applied == IF p.total < acc.left THEN p.total ELSE acc.left
       IN  [left |-> acc.left - applied,
            aged |-> [acc.aged EXCEPT ![p.age] = @ + p.total - applied]]

LoopOver(g, kind, money, list, s) ==
  IF s = {} THEN LoopStart(kind, money)
  ELSE LoopStep(kind, g[s \ {Max(s)}], list[Max(s)])

Loops(g, kind, money, list, S) ==
  g = [s \in SUBSET S |-> LoopOver(g, kind, money, list, s)]

Loop(kind, money, list) ==
  CHOOSE g : g = [s \in SUBSET DOMAIN list |-> LoopOver(g, kind, money, list, s)]

LEMMA LoopsAreFolds ==
  ASSUME NEW list, NEW money
  PROVE  /\ Total(list) = Loop("total", 0, list)[DOMAIN list]
         /\ Aged(list, money) = Loop("aged", money, list)[DOMAIN list].aged
BY DEF Total, Aged, FoldLeft, MapThenFoldSet, Loop, LoopOver, LoopStep, LoopStart

\* A set of positions has a last one.
LEMMA LastPosition ==
  ASSUME NEW n \in Nat, NEW s \in SUBSET (1..n), s # {}
  PROVE  Max(s) \in s /\ \A i \in s : i <= Max(s)
<1> DEFINE M == {n - i : i \in s}
<1>1. \A i \in s : i \in Int /\ n - i \in Nat
  OBVIOUS
<1>2. M \subseteq Nat /\ M # {}
  BY <1>1
<1>3. PICK least \in M : \A k \in M : least <= k
  <2> HIDE DEF M
  <2> QED
    BY <1>2, LeastNumber
<1>4. PICK i \in s : least = n - i
  BY <1>3
<1>5. \A j \in s : i >= j
  <2>1. \A j \in s : n - i <= n - j
    BY <1>3, <1>4
  <2> QED
    BY <1>1, <2>1
<1> QED
  BY <1>5 DEF Max

LEMMA LastTakenOff ==
  ASSUME NEW n \in Nat \ {0}
  PROVE  Max(1..n) = n /\ (1..n) \ {Max(1..n)} = 1..(n - 1)
<1>1. n \in 1..n
  OBVIOUS
<1>2. Max(1..n) \in 1..n /\ \A i \in 1..n : i <= Max(1..n)
  <2>1. 1..n \in SUBSET (1..n) /\ 1..n # {} /\ n \in Nat
    BY <1>1
  <2> QED
    BY <2>1, LastPosition
<1>3. Max(1..n) = n
  BY <1>2, <1>1
<1> QED
  BY <1>3

LEMMA PositionsFinite ==
  ASSUME NEW n \in Nat
  PROVE  \A s \in SUBSET (1..n) : IsFiniteSet(s) /\ Cardinality(s) \in Nat
<1>1. IsFiniteSet(1..n)
  BY FS_Interval
<1>2. \A s \in SUBSET (1..n) : IsFiniteSet(s)
  BY <1>1, FS_Subset
<1> QED
  BY <1>2, FS_CardinalityType

Positions(S, n) == S \subseteq 1..n

\* Two solutions agree where both are defined.
LEMMA LoopsAgree ==
  ASSUME NEW kind, NEW money, NEW list, NEW n \in Nat, NEW S, NEW T, NEW g, NEW h,
         Positions(S, n), Positions(T, n),
         Loops(g, kind, money, list, S), Loops(h, kind, money, list, T)
  PROVE  \A s : s \subseteq S /\ s \subseteq T => g[s] = h[s]
<1> DEFINE Bad == {s \in SUBSET (S \cap T) : g[s] # h[s]}
<1> SUFFICES ASSUME Bad # {} PROVE FALSE
  OBVIOUS
<1>1. \A s \in SUBSET (1..n) : IsFiniteSet(s) /\ Cardinality(s) \in Nat
  BY PositionsFinite
<1>2. PICK s \in Bad : \A t \in Bad : Cardinality(s) <= Cardinality(t)
  BY <1>1, SmallestSet DEF Positions
<1>3. g[s] = LoopOver(g, kind, money, list, s) /\ h[s] = LoopOver(h, kind, money, list, s)
  BY DEF Loops
<1>4. CASE s = {}
  BY <1>3, <1>4 DEF LoopOver
<1>5. CASE s # {}
  <2> DEFINE r == s \ {Max(s)}
  <2>1. Max(s) \in s
    BY <1>5, LastPosition DEF Positions
  <2>2. Cardinality(r) < Cardinality(s)
    BY <1>1, <2>1, FS_RemoveElement DEF Positions
  <2>3. r \in SUBSET (S \cap T) /\ Cardinality(r) \in Nat /\ Cardinality(s) \in Nat
    BY <1>1 DEF Positions
  <2>4. r \notin Bad
    BY <1>2, <2>2, <2>3
  <2> QED
    BY <1>3, <1>5, <2>3, <2>4 DEF LoopOver
<1> QED
  BY <1>4, <1>5

LEMMA LoopExists ==
  ASSUME NEW kind, NEW money, NEW list, NEW n \in Nat, NEW S \in SUBSET (1..n)
  PROVE  \E g : Loops(g, kind, money, list, S)
<1> DEFINE Bad == {s \in SUBSET S : ~ \E g : Loops(g, kind, money, list, s)}
<1> SUFFICES ASSUME Bad # {} PROVE FALSE
  OBVIOUS
<1>1. \A s \in SUBSET (1..n) : IsFiniteSet(s) /\ Cardinality(s) \in Nat
  BY PositionsFinite
<1>2. PICK u \in Bad : \A t \in Bad : Cardinality(u) <= Cardinality(t)
  BY <1>1, SmallestSet
<1> DEFINE G(s) == CHOOSE g : Loops(g, kind, money, list, s)
           Below(s) == G(s \ {Max(s)})[s \ {Max(s)}]
           Whole(s) == IF s = {} THEN LoopStart(kind, money)
                       ELSE LoopStep(kind, Below(s), list[Max(s)])
           g == [s \in SUBSET u |-> IF s = u THEN Whole(u) ELSE G(s)[s]]
<1>3. ASSUME NEW s \in SUBSET u, s # u
      PROVE  Loops(G(s), kind, money, list, s)
  <2>1. Cardinality(s) < Cardinality(u)
    <3>1. Cardinality(s) <= Cardinality(u) /\ (Cardinality(u) = Cardinality(s) => u = s)
      BY <1>1, FS_Subset
    <3> QED
      BY <1>1, <1>3, <3>1
  <2>2. s \notin Bad
    BY <1>1, <1>2, <2>1
  <2> QED
    BY <2>2 DEF Loops
<1> HIDE DEF G
<1>4. ASSUME NEW s \in SUBSET u
      PROVE  g[s] = LoopOver(g, kind, money, list, s)
  <2>1. CASE s = {}
    <3>1. u # {} => Loops(G({}), kind, money, list, {})
      BY <1>3
    <3>2. u # {} => G({})[{}] = LoopOver(G({}), kind, money, list, {})
      BY <3>1 DEF Loops
    <3> QED
      BY <2>1, <3>2 DEF LoopOver
  <2>2. CASE s # {}
    <3> DEFINE r == s \ {Max(s)}
    <3>1. Max(s) \in s /\ r \in SUBSET u /\ r # u /\ r # s
      BY <2>2, LastPosition
    <3>2. g[r] = G(r)[r]
      BY <3>1
    <3>3. s # u => G(s)[s] = LoopStep(kind, G(s)[r], list[Max(s)])
      <4> SUFFICES ASSUME s # u PROVE G(s)[s] = LoopStep(kind, G(s)[r], list[Max(s)])
        OBVIOUS
      <4>1. Loops(G(s), kind, money, list, s)
        BY <1>3
      <4>2. G(s)[s] = LoopOver(G(s), kind, money, list, s)
        BY <4>1 DEF Loops
      <4> QED
        BY <2>2, <4>2 DEF LoopOver
    <3>4. s # u => G(s)[r] = G(r)[r]
      <4> SUFFICES ASSUME s # u PROVE G(s)[r] = G(r)[r]
        OBVIOUS
      <4>1. Loops(G(s), kind, money, list, s) /\ Loops(G(r), kind, money, list, r)
        BY <1>3, <3>1
      <4>2. Positions(s, n) /\ Positions(r, n)
        BY DEF Positions
      <4>3. \A t : t \subseteq s /\ t \subseteq r => G(s)[t] = G(r)[t]
        <5>1. ASSUME NEW x, NEW y, Loops(x, kind, money, list, s), Loops(y, kind, money, list, r)
              PROVE  \A t : t \subseteq s /\ t \subseteq r => x[t] = y[t]
          <6> HIDE DEF r, Bad
          <6> QED
            BY <4>2, <5>1, LoopsAgree
        <5> QED
          BY <4>1, <5>1
      <4> QED
        BY <4>3
    <3>5. g[s] = LoopStep(kind, G(r)[r], list[Max(s)])
      BY <2>2, <3>3, <3>4
    <3> QED
      BY <2>2, <3>2, <3>5 DEF LoopOver
  <2> QED
    BY <2>1, <2>2
<1>5. Loops(g, kind, money, list, u)
  BY <1>4 DEF Loops
<1> QED
  BY <1>2, <1>5

\* The value of a loop after some deliveries, and after one more.
After(kind, money, list, i) == Loop(kind, money, list)[1..i]

LEMMA LoopGoesOn ==
  ASSUME NEW kind, NEW money, NEW S, NEW list \in Seq(S)
  PROVE  /\ Len(list) \in Nat /\ DOMAIN list = 1..Len(list)
         /\ After(kind, money, list, 0) = LoopStart(kind, money)
         /\ \A i \in 1..Len(list) :
              After(kind, money, list, i)
                = LoopStep(kind, After(kind, money, list, i - 1), list[i])
<1> DEFINE g == Loop(kind, money, list)
           n == Len(list)
<1>1. n \in Nat /\ DOMAIN list = 1..n
  BY LenProperties
<1>2. Loops(g, kind, money, list, 1..n)
  BY <1>1, LoopExists DEF Loops, Loop
<1> HIDE DEF g
<1>3. \A s \in SUBSET (1..n) : g[s] = LoopOver(g, kind, money, list, s)
  BY <1>2 DEF Loops
<1>4. g[1..0] = LoopStart(kind, money)
  <2>1. 1..0 = {} /\ 1..0 \in SUBSET (1..n)
    OBVIOUS
  <2> QED
    BY <1>3, <2>1 DEF LoopOver
<1>5. ASSUME NEW i \in 1..n
      PROVE  g[1..i] = LoopStep(kind, g[1..(i - 1)], list[i])
  <2>1. i \in Nat \ {0} /\ 1..i \in SUBSET (1..n) /\ 1..i # {}
    <3>1. i \in Nat \ {0} /\ i <= n /\ i \in 1..i
      BY <1>1
    <3>2. \A j \in 1..i : j \in 1..n
      BY <1>1, <3>1
    <3> QED
      BY <3>1, <3>2
  <2>2. Max(1..i) = i /\ (1..i) \ {Max(1..i)} = 1..(i - 1)
    BY <2>1, LastTakenOff
  <2> QED
    BY <1>3, <2>1, <2>2 DEF LoopOver
<1> QED
  BY <1>1, <1>4, <1>5 DEF After, g

SumOfAges(f) == f["0-30"] + f["31-60"] + f["61+"]

LEMMA AgesSum ==
  ASSUME NEW f \in [Ages -> Nat], NEW a \in Ages, NEW d \in Nat, NEW e \in 0..d
  PROVE  /\ [f EXCEPT ![a] = f[a] + d - e] \in [Ages -> Nat]
         /\ SumOfAges([f EXCEPT ![a] = f[a] + d - e]) = SumOfAges(f) + d - e
         /\ SumOfAges(f) \in Nat
<1> DEFINE h == [f EXCEPT ![a] = @ + d - e]
<1>1. f[a] + d - e \in Nat
  OBVIOUS
<1>2. h \in [Ages -> Nat]
  BY <1>1
<1>3. h["0-30"] = IF a = "0-30" THEN f["0-30"] + d - e ELSE f["0-30"]
  BY DEF Ages
<1>4. h["31-60"] = IF a = "31-60" THEN f["31-60"] + d - e ELSE f["31-60"]
  BY DEF Ages
<1>5. h["61+"] = IF a = "61+" THEN f["61+"] + d - e ELSE f["61+"]
  BY DEF Ages
<1>6. f["0-30"] \in Nat /\ f["31-60"] \in Nat /\ f["61+"] \in Nat
  BY DEF Ages
<1> HIDE DEF h
<1>7. SumOfAges(h) = SumOfAges(f) + d - e /\ SumOfAges(f) \in Nat
  BY <1>3, <1>4, <1>5, <1>6 DEF SumOfAges, Ages
<1> QED
  BY <1>2, <1>7 DEF h

\* After any number of deliveries the payments are used up by what they cost so
\* far, and the ages hold what they did not cover.
Covered(sum, acc, money) ==
  /\ sum \in Nat
  /\ acc.left \in Nat /\ acc.aged \in [Ages -> Nat]
  /\ acc.left = IF sum < money THEN money - sum ELSE 0
  /\ SumOfAges(acc.aged) = IF sum > money THEN sum - money ELSE 0

LEMMA OneMoreCovered ==
  ASSUME NEW sum, NEW acc, NEW money \in Nat, NEW p \in Purchase, Covered(sum, acc, money)
  PROVE  Covered(LoopStep("total", sum, p), LoopStep("aged", acc, p), money)
<1> DEFINE d == p.total
           e == IF d < acc.left THEN d ELSE acc.left
           h == [acc.aged EXCEPT ![p.age] = @ + d - e]
           next == [left |-> acc.left - e, aged |-> h]
<1>1. d \in Nat /\ p.age \in Ages
  BY SuppliersAssumption DEF Purchase
<1>2. e \in 0..d /\ e <= acc.left
  BY <1>1 DEF Covered
<1>3. LoopStep("total", sum, p) = sum + d /\ LoopStep("aged", acc, p) = next
  BY DEF LoopStep
<1> HIDE DEF d
<1>4. /\ h \in [Ages -> Nat] /\ SumOfAges(h) = SumOfAges(acc.aged) + d - e
      /\ SumOfAges(acc.aged) \in Nat
  <2>1. acc.aged \in [Ages -> Nat]
    BY DEF Covered
  <2> DEFINE f == acc.aged
             a == p.age
  <2>2. f \in [Ages -> Nat] /\ a \in Ages
    BY <1>1, <2>1
  <2>3. /\ [f EXCEPT ![a] = f[a] + d - e] \in [Ages -> Nat]
        /\ SumOfAges([f EXCEPT ![a] = f[a] + d - e]) = SumOfAges(f) + d - e
        /\ SumOfAges(f) \in Nat
    <3> HIDE DEF f, a, e
    <3> QED
      BY <1>1, <1>2, <2>2, AgesSum, Zenon
  <2> QED
    BY <2>3
<1>5. next.left = acc.left - e /\ next.aged = h
  OBVIOUS
<1> HIDE DEF h, next
<1>6. Covered(sum + d, next, money)
  BY <1>1, <1>2, <1>4, <1>5 DEF Covered
<1> QED
  BY <1>3, <1>6

LEMMA AllCovered ==
  ASSUME NEW list \in Seq(Purchase), NEW money \in Nat
  PROVE  /\ Total(list) \in Nat
         /\ Aged(list, money) \in [Ages -> Nat]
         /\ SumOfAges(Aged(list, money)) =
              IF Total(list) > money THEN Total(list) - money ELSE 0
<1> DEFINE n == Len(list)
           sum(i) == After("total", 0, list, i)
           acc(i) == After("aged", money, list, i)
           Bad == {i \in 0..n : ~Covered(sum(i), acc(i), money)}
<1>1. n \in Nat /\ DOMAIN list = 1..n /\ \A i \in 1..n : list[i] \in Purchase
  BY LenProperties
<1>2. /\ sum(0) = LoopStart("total", 0) /\ acc(0) = LoopStart("aged", money)
      /\ \A i \in 1..n : /\ sum(i) = LoopStep("total", sum(i - 1), list[i])
                         /\ acc(i) = LoopStep("aged", acc(i - 1), list[i])
  BY LoopGoesOn
<1>3. Covered(sum(0), acc(0), money)
  <2>1. sum(0) = 0 /\ acc(0).left = money /\ acc(0).aged = [a \in Ages |-> 0]
    BY <1>2 DEF LoopStart
  <2> HIDE DEF sum, acc
  <2> QED
    BY <2>1 DEF Covered, SumOfAges, Ages
<1> HIDE DEF sum, acc
<1>4. Bad = {}
  <2> SUFFICES ASSUME Bad # {} PROVE FALSE
    OBVIOUS
  <2>1. Bad \subseteq Nat
    BY <1>1
  <2>2. PICK i \in Bad : \A k \in Bad : i <= k
    <3> HIDE DEF Bad
    <3> QED
      BY <2>1, LeastNumber
  <2>3. i \in 1..n /\ i - 1 \in 0..n
    BY <1>1, <1>3
  <2>4. Covered(sum(i - 1), acc(i - 1), money)
    BY <2>2, <2>3
  <2>5. Covered(sum(i), acc(i), money)
    BY <1>1, <1>2, <2>3, <2>4, OneMoreCovered
  <2> QED
    BY <2>5
<1>5. Covered(sum(n), acc(n), money)
  BY <1>1, <1>4
<1>6. sum(n) = Total(list) /\ acc(n).aged = Aged(list, money)
  BY <1>1, LoopsAreFolds DEF sum, acc, After
<1> QED
  BY <1>5, <1>6 DEF Covered

LEMMA TotalGoesOn ==
  ASSUME NEW list \in Seq(Purchase)
  PROVE  /\ After("total", 0, list, 0) = 0
         /\ \A i \in 1..Len(list) :
              After("total", 0, list, i) = After("total", 0, list, i - 1) + list[i].total
<1>1. /\ After("total", 0, list, 0) = LoopStart("total", 0)
      /\ \A i \in 1..Len(list) :
           After("total", 0, list, i) = LoopStep("total", After("total", 0, list, i - 1), list[i])
  BY LoopGoesOn, Zenon
<1> QED
  BY <1>1 DEF LoopStart, LoopStep

\* What deliveries cost does not change as they age.
LEMMA AgesDoNotCount ==
  ASSUME NEW list \in Seq(Purchase), NEW other \in Seq(Purchase),
         Len(other) = Len(list), \A i \in 1..Len(list) : other[i].total = list[i].total
  PROVE  Total(other) = Total(list)
<1> DEFINE n == Len(list)
           sum(i) == After("total", 0, list, i)
           same(i) == After("total", 0, other, i)
           Bad == {i \in 0..n : sum(i) # same(i)}
<1>1. n \in Nat /\ DOMAIN list = 1..n /\ DOMAIN other = 1..n
  BY LenProperties
<1>2. sum(0) = 0 /\ \A i \in 1..n : sum(i) = sum(i - 1) + list[i].total
  BY TotalGoesOn
<1>3. same(0) = 0 /\ \A i \in 1..n : same(i) = same(i - 1) + other[i].total
  BY TotalGoesOn
<1> HIDE DEF sum, same
<1>4. Bad = {}
  <2> SUFFICES ASSUME Bad # {} PROVE FALSE
    OBVIOUS
  <2>1. Bad \subseteq Nat
    BY <1>1
  <2>2. PICK i \in Bad : \A k \in Bad : i <= k
    <3> HIDE DEF Bad
    <3> QED
      BY <2>1, LeastNumber
  <2>3. i \in 1..n /\ i - 1 \in 0..n
    BY <1>1, <1>2, <1>3
  <2>4. sum(i - 1) = same(i - 1)
    BY <2>2, <2>3
  <2> QED
    BY <1>2, <1>3, <2>2, <2>3, <2>4
<1>5. sum(n) = same(n)
  BY <1>1, <1>4
<1> QED
  BY <1>1, <1>5, LoopsAreFolds DEF sum, same, After

\* A report that is under way holds the sums of the account as it stands.
SuppliersInv ==
  /\ SuppliersTypeOK
  /\ debtReport.step = "summed" /\ ~debtReport.stale =>
       debtReport.total = Total(purchases) /\ debtReport.paid = paid
  /\ AgesAddUp

LEMMA SuppliersInitially == SuppliersInit => SuppliersInv
<1> SUFFICES ASSUME SuppliersInit PROVE SuppliersInv
  OBVIOUS
<1>1. purchases = <<>> /\ paid = 0 /\ debtReport = NoReport
  BY DEF SuppliersInit
<1>2. /\ NoReport.step = "none"
      /\ NoReport \in [step : {"none", "summed", "done"}, total : Nat, paid : Nat,
                       aged : [Ages -> Nat], stale : BOOLEAN]
  BY DEF NoReport
<1>3. purchases \in Seq(Purchase)
  BY <1>1, EmptySeq
<1>4. paid \in 0..MaxPaid
  BY <1>1, SuppliersAssumption
<1> QED
  BY <1>1, <1>2, <1>3, <1>4 DEF SuppliersInv, SuppliersTypeOK, AgesAddUp

Report == [step : {"none", "summed", "done"}, total : Nat, paid : Nat,
           aged : [Ages -> Nat], stale : BOOLEAN]

\* A delivery or a payment that comes in between marks the report.
LEMMA StirsMarks ==
  ASSUME debtReport \in Report, AgesAddUp, Stirs
  PROVE  /\ debtReport' \in Report
         /\ debtReport'.step = "summed" => debtReport'.stale
         /\ AgesAddUp'
<1> DEFINE mark == debtReport.stale \/ debtReport.step = "summed"
<1>1. debtReport' = [debtReport EXCEPT !.stale = mark]
  BY DEF Stirs
<1>2. mark \in BOOLEAN
  OBVIOUS
<1>3. /\ debtReport' \in Report
      /\ debtReport'.step = debtReport.step /\ debtReport'.total = debtReport.total
      /\ debtReport'.paid = debtReport.paid /\ debtReport'.aged = debtReport.aged
      /\ debtReport'.stale = mark
  <2> HIDE DEF mark
  <2> QED
    BY <1>1, <1>2 DEF Report
<1>4. AgesAddUp'
  BY <1>3 DEF AgesAddUp
<1> QED
  BY <1>3, <1>4

LEMMA SuppliersPreserved == SuppliersInv /\ [SuppliersNext]_supplierVars => SuppliersInv'
<1> SUFFICES ASSUME SuppliersInv, [SuppliersNext]_supplierVars PROVE SuppliersInv'
  OBVIOUS
<1>1. purchases \in Seq(Purchase) /\ paid \in 0..MaxPaid /\ debtReport \in Report
  BY DEF SuppliersInv, SuppliersTypeOK, Report
<1>2. Total(purchases) \in Nat
  BY <1>1, AllCovered, SuppliersAssumption
<1>3. ASSUME NEW cost \in Totals, Bill(cost)
      PROVE  SuppliersInv'
  <2>1. purchases' = Append(purchases, [total |-> cost, age |-> "0-30"]) /\ paid' = paid /\ Stirs
    BY <1>3 DEF Bill
  <2>2. [total |-> cost, age |-> "0-30"] \in Purchase
    BY DEF Purchase, Ages
  <2>3. purchases' \in Seq(Purchase)
    BY <1>1, <2>1, <2>2, AppendProperties
  <2>4. /\ debtReport' \in Report /\ AgesAddUp'
        /\ debtReport'.step = "summed" => debtReport'.stale
    BY <1>1, <2>1, StirsMarks DEF SuppliersInv
  <2> QED
    BY <1>1, <2>1, <2>3, <2>4 DEF SuppliersInv, SuppliersTypeOK, Report
<1>4. ASSUME NEW n \in Totals, RecordSupplierPayment(n)
      PROVE  SuppliersInv'
  <2>1. purchases' = purchases /\ paid' = paid + n /\ paid + n <= MaxPaid /\ Stirs
    BY <1>4 DEF RecordSupplierPayment
  <2>2. paid' \in 0..MaxPaid
    BY <1>1, <2>1, SuppliersAssumption
  <2>3. /\ debtReport' \in Report /\ AgesAddUp'
        /\ debtReport'.step = "summed" => debtReport'.stale
    BY <1>1, <2>1, StirsMarks DEF SuppliersInv
  <2> QED
    BY <1>1, <2>1, <2>2, <2>3 DEF SuppliersInv, SuppliersTypeOK, Report
<1>5. ASSUME NEW n \in 1..MaxPurchases, Ageing(n)
      PROVE  SuppliersInv'
  <2>1. /\ n \in DOMAIN purchases /\ UNCHANGED <<paid, debtReport>>
        /\ purchases' = [purchases EXCEPT ![n].age = Older(@)]
    BY <1>5 DEF Ageing
  <2>2. /\ Len(purchases) \in Nat /\ DOMAIN purchases = 1..Len(purchases)
        /\ \A i \in 1..Len(purchases) : purchases[i] \in Purchase
    BY <1>1, LenProperties
  <2> DEFINE p == [purchases[n] EXCEPT !.age = Older(@)]
  <2>3. p \in Purchase /\ p.total = purchases[n].total
    BY <2>1, <2>2 DEF Purchase, Older, Ages
  <2>4. purchases' = [purchases EXCEPT ![n] = p]
    BY <2>1
  <2> HIDE DEF p
  <2>5. /\ purchases' \in Seq(Purchase) /\ Len(purchases') = Len(purchases)
        /\ \A i \in 1..Len(purchases) : purchases'[i] = IF i = n THEN p ELSE purchases[i]
    BY <1>1, <2>1, <2>2, <2>3, <2>4, ExceptSeq
  <2>6. Total(purchases') = Total(purchases)
    <3>1. \A i \in 1..Len(purchases) : purchases'[i].total = purchases[i].total
      BY <2>3, <2>5
    <3> QED
      BY <1>1, <2>5, <3>1, AgesDoNotCount
  <2>7. AgesAddUp'
    BY <2>1 DEF SuppliersInv, AgesAddUp
  <2> QED
    BY <1>1, <2>1, <2>5, <2>6, <2>7 DEF SuppliersInv, SuppliersTypeOK, Report
<1>6. CASE SumDebts
  <2> DEFINE sum == Total(purchases)
             r == [NoReport EXCEPT !.step = "summed", !.total = sum, !.paid = paid]
  <2>1. debtReport' = r /\ UNCHANGED <<purchases, paid>>
    BY <1>6 DEF SumDebts
  <2>2. r \in Report /\ r.step = "summed" /\ r.total = sum /\ r.paid = paid
    <3> HIDE DEF sum
    <3>1. sum \in Nat /\ paid \in Nat
      BY <1>1, <1>2, SuppliersAssumption DEF sum
    <3> QED
      BY <3>1 DEF NoReport, Report
  <2> HIDE DEF r
  <2>3. AgesAddUp'
    BY <2>1, <2>2 DEF AgesAddUp
  <2> QED
    BY <1>1, <2>1, <2>2, <2>3 DEF SuppliersInv, SuppliersTypeOK, Report
<1>7. CASE AgeDebts
  <2> DEFINE aged == Aged(purchases, debtReport.paid)
             r == [debtReport EXCEPT !.step = "done", !.aged = aged]
  <2>1. debtReport.step = "summed" /\ debtReport' = r /\ UNCHANGED <<purchases, paid>>
    BY <1>7 DEF AgeDebts
  <2>2. debtReport.paid \in Nat
    BY <1>1 DEF Report
  <2>3. /\ aged \in [Ages -> Nat]
        /\ SumOfAges(aged) =
             IF Total(purchases) > debtReport.paid THEN Total(purchases) - debtReport.paid ELSE 0
    BY <1>1, <2>2, AllCovered
  <2>4. /\ r \in Report /\ r.step = "done" /\ r.total = debtReport.total
        /\ r.paid = debtReport.paid /\ r.aged = aged /\ r.stale = debtReport.stale
    <3> HIDE DEF aged
    <3> QED
      BY <1>1, <2>3 DEF Report
  <2> HIDE DEF r, aged
  <2>5. AgesAddUp'
    <3> SUFFICES ASSUME ~debtReport.stale
                 PROVE  SumOfAges(aged) = IF debtReport.total - debtReport.paid > 0
                                           THEN debtReport.total - debtReport.paid ELSE 0
      BY <2>1, <2>4 DEF AgesAddUp, SumOfAges
    <3>1. debtReport.total = Total(purchases)
      BY <2>1 DEF SuppliersInv
    <3> QED
      BY <1>2, <2>2, <2>3, <3>1
  <2> QED
    BY <1>1, <2>1, <2>4, <2>5 DEF SuppliersInv, SuppliersTypeOK, Report
<1>8. CASE UNCHANGED supplierVars
  BY <1>8 DEF supplierVars, SuppliersInv, SuppliersTypeOK, AgesAddUp
<1> QED
  BY <1>3, <1>4, <1>5, <1>6, <1>7, <1>8 DEF SuppliersNext

\* The ages of a supplier's debt add up to it, and to nothing when he has been
\* paid in advance, unless a delivery or a payment came in while the report was
\* read (getSupplierDebtSummary).
THEOREM DebtsAreAged == SuppliersSpec => [](SuppliersTypeOK /\ AgesAddUp)
<1>1. SuppliersInit => SuppliersInv
  BY SuppliersInitially
<1>2. SuppliersInv /\ [SuppliersNext]_supplierVars => SuppliersInv'
  BY SuppliersPreserved
<1>3. SuppliersInv => SuppliersTypeOK /\ AgesAddUp
  BY DEF SuppliersInv
<1> QED
  BY <1>1, <1>2, <1>3, PTL DEF SuppliersSpec
-----------------------------------------------------------------------------
(* The types of the history's rows, answers and requests.                  *)

\* The orders of a tab, and any of them, are finitely many.
LEMMA IdsAreFinite ==
  ASSUME NEW list \in SUBSET ClosedIds
  PROVE  /\ IsFiniteSet(list) /\ Cardinality(list) \in 0..ClosedOrders
         /\ list \subseteq Nat
<1>1. IsFiniteSet(ClosedIds) /\ Cardinality(ClosedIds) = ClosedOrders
  BY PagesAssumption, FS_Interval DEF ClosedIds
<1>2. IsFiniteSet(list) /\ Cardinality(list) <= ClosedOrders
  BY <1>1, FS_Subset
<1>3. Cardinality(list) \in Nat
  BY <1>2, FS_CardinalityType
<1>4. ClosedIds \subseteq Nat
  BY PagesAssumption DEF ClosedIds
<1>5. QED
  BY <1>2, <1>3, <1>4, PagesAssumption

\* Every rank is held: the newest of the orders that have at least n orders as
\* new as themselves has just n.
LEMMA RanksAreHeld ==
  ASSUME NEW list \in SUBSET ClosedIds, NEW n \in 1..Cardinality(list)
  PROVE  \E o \in list : Cardinality({x \in list : x >= o}) = n
<1> DEFINE From(o) == {x \in list : x >= o}
           G == {o \in list : Cardinality(From(o)) >= n}
<1>1. /\ IsFiniteSet(list) /\ Cardinality(list) \in Nat /\ list \subseteq Nat
      /\ n \in Nat /\ n >= 1 /\ n <= Cardinality(list)
  BY IdsAreFinite
<1>2. \A o \in list : IsFiniteSet(From(o)) /\ Cardinality(From(o)) \in Nat
  <2>1. ASSUME NEW o \in list
        PROVE  IsFiniteSet(From(o)) /\ Cardinality(From(o)) \in Nat
    <3>1. From(o) \in SUBSET ClosedIds
      OBVIOUS
    <3>2. QED
      BY <3>1, IdsAreFinite
  <2>2. QED
    BY <2>1
<1>3. G # {}
  <2>1. list # {}
    BY <1>1, FS_EmptySet
  <2>2. PICK o \in list : \A x \in list : o <= x
    BY <1>1, <2>1, LeastNumber
  <2>3. From(o) = list
    BY <1>1, <2>2
  <2>4. QED
    BY <1>1, <2>2, <2>3
<1>4. PICK o \in G : \A x \in G : x <= o
  <2>1. G \in SUBSET (1..ClosedOrders)
    BY DEF ClosedIds
  <2>2. QED
    BY <1>3, <2>1, LastPosition, PagesAssumption
<1>5. o \in list /\ o \in Nat /\ Cardinality(From(o)) >= n
  BY <1>1, <1>4
<1>6. CASE Cardinality(From(o)) = n
  BY <1>5, <1>6
<1>7. CASE Cardinality(From(o)) # n
  <2> DEFINE Newer == From(o) \ {o}
  <2>1. o \in From(o)
    BY <1>5
  <2>2. Cardinality(Newer) = Cardinality(From(o)) - 1
    BY <1>2, <1>5, <2>1, FS_RemoveElement
  <2>3. Cardinality(Newer) >= n
    BY <1>1, <1>2, <1>5, <1>7, <2>2
  <2>4. Newer # {}
    BY <1>1, <2>3, FS_EmptySet
  <2>5. Newer \subseteq Nat
    BY <1>1
  <2>6. PICK p \in Newer : \A x \in Newer : p <= x
    BY <2>4, <2>5, LeastNumber
  <2>7. p \in list /\ p \in Nat /\ p > o
    BY <1>1, <1>5, <2>6
  <2>8. From(p) = Newer
    <3>1. ASSUME NEW x \in list PROVE x >= p <=> x >= o /\ x # o
      <4>1. x \in Nat
        BY <1>1
      <4>2. x >= o /\ x # o => x \in Newer
        OBVIOUS
      <4>3. QED
        BY <1>5, <2>6, <2>7, <4>1, <4>2
    <3>2. QED
      BY <3>1
  <2>9. p \in G
    BY <2>3, <2>7, <2>8
  <2>10. QED
    BY <1>4, <1>5, <2>7, <2>9
<1>8. QED
  BY <1>6, <1>7

\* A list from the newest order down.
LEMMA NewestIsList ==
  ASSUME NEW list \in SUBSET ClosedIds
  PROVE  Newest(list) \in Seq(ClosedIds) /\ Len(Newest(list)) \in 0..ClosedOrders
<1>1. Cardinality(list) \in 0..ClosedOrders
  BY IdsAreFinite
<1>2. \A n \in 1..Cardinality(list) :
        (CHOOSE o \in list : Cardinality({x \in list : x >= o}) = n) \in ClosedIds
  BY RanksAreHeld
<1>3. Newest(list) \in [1..Cardinality(list) -> ClosedIds]
  BY <1>2 DEF Newest
<1>4. QED
  BY <1>1, <1>3

LEMMA PageIsList ==
  ASSUME NEW list \in Seq(ClosedIds), NEW p \in Nat \ {0}
  PROVE  SubSeq(list, (p - 1) * PageSize + 1,
                IF p * PageSize < Len(list) THEN p * PageSize ELSE Len(list))
           \in Seq(ClosedIds)
<1> DEFINE first == (p - 1) * PageSize + 1
           last == IF p * PageSize < Len(list) THEN p * PageSize ELSE Len(list)
<1>1. (p - 1) * PageSize \in Nat /\ p * PageSize \in Nat
  BY PagesAssumption
<1>2. first \in Nat /\ first >= 1 /\ last \in Nat /\ last <= Len(list)
  BY <1>1
<1>3. QED
  <2> HIDE DEF first, last
  <2>1. SubSeq(list, first, last) \in Seq(ClosedIds)
    BY <1>2, SubSeqProperties
  <2>2. QED
    BY <2>1 DEF first, last

\* While one more request may be sent there is a number for it.
LEMMA NumberIsFree ==
  ASSUME IsFiniteSet(requests), Cardinality(requests) < MaxFetches,
         NEW t \in Tabs, NEW p \in 1..(ClosedOrders + 1),
         \A q \in requests : q.number \in 1..MaxFetches
  PROVE  Ask(t, p) \in PageRequest
<1> DEFINE used == {q.number : q \in requests}
           free == (1..MaxFetches) \ used
           f == [q \in requests |-> q.number]
<1>1. f \in Surjection(requests, used)
  BY DEF Surjection
<1>2. IsFiniteSet(used) /\ Cardinality(used) <= Cardinality(requests)
  BY <1>1, FS_Surjection
<1>3. Cardinality(1..MaxFetches) = MaxFetches /\ IsFiniteSet(1..MaxFetches)
  BY FS_Interval, PagesAssumption
<1>4. Cardinality(used) \in Nat /\ Cardinality(requests) \in Nat
  BY <1>2, FS_CardinalityType
<1>5. free # {}
  <2> SUFFICES ASSUME free = {} PROVE FALSE
    OBVIOUS
  <2>1. 1..MaxFetches \in SUBSET used
    OBVIOUS
  <2>2. MaxFetches <= Cardinality(used)
    <3> HIDE DEF used
    <3>1. Cardinality(1..MaxFetches) <= Cardinality(used)
      BY <1>2, <2>1, FS_Subset
    <3>2. QED
      BY <1>3, <3>1
  <2>3. QED
    BY <1>2, <1>4, <2>2, PagesAssumption
<1>6. free \subseteq Nat
  OBVIOUS
<1>7. PICK n \in free : \A k \in free : n <= k
  <2> HIDE DEF free
  <2>1. QED
    BY <1>5, <1>6, LeastNumber
<1>8. \A q \in requests : q.number # n
  BY <1>7
<1>9. \A k \in 1..(n - 1) : \E q \in requests : q.number = k
  <2>1. ASSUME NEW k \in 1..(n - 1) PROVE \E q \in requests : q.number = k
    <3>1. k \in 1..MaxFetches /\ k \notin free
      BY <1>6, <1>7, PagesAssumption
    <3>2. QED
      BY <3>1
  <2>2. QED
    BY <2>1
<1>10. Ask(t, p).number \in 1..MaxFetches
  BY <1>7, <1>8, <1>9 DEF Ask
<1>11. QED
  BY <1>10, PagesAssumption DEF Ask, PageRequest

\* Only finitely many requests are out, so that they can be counted.
PagesTyped == PagesTypeOK /\ IsFiniteSet(requests)

\* A request that is sent has a number of its own; an answer is a page of a list.
LEMMA RequestsTyped ==
  ASSUME PagesTyped, Cardinality(requests) < MaxFetches,
         NEW t \in Tabs, NEW p \in 1..(ClosedOrders + 1),
         requests' = requests \cup {Ask(t, p)}
  PROVE  requests' \subseteq PageRequest /\ IsFiniteSet(requests')
<1>1. \A q \in requests : q.number \in 1..MaxFetches
  BY DEF PagesTyped, PagesTypeOK, PageRequest
<1>2. Ask(t, p) \in PageRequest
  BY <1>1, NumberIsFree DEF PagesTyped
<1>3. QED
  BY <1>2, FS_AddElement DEF PagesTyped, PagesTypeOK

LEMMA StepPagesTyped ==
  PagesTyped /\ [PagesNext]_pageVars => PagesTyped'
<1> SUFFICES ASSUME PagesTyped, [PagesNext]_pageVars PROVE PagesTyped'
  OBVIOUS
<1>1. ASSUME NEW q \in requests, ServerPage(q) PROVE PagesTyped'
  <2> DEFINE list == Newest(InTab(q.tab))
             cut == SubSeq(list, (q.page - 1) * PageSize + 1,
                     IF q.page * PageSize < Len(list) THEN q.page * PageSize ELSE Len(list))
             a == [q EXCEPT !.read = TRUE, !.items = cut, !.total = Len(list)]
  <2>1. q \in PageRequest
    BY DEF PagesTyped, PagesTypeOK
  <2>2. q.page \in Nat \ {0} /\ q.tab \in Tabs
    BY <2>1, PagesAssumption DEF PageRequest
  <2>3. InTab(q.tab) \in SUBSET ClosedIds
    BY DEF InTab
  <2>4. list \in Seq(ClosedIds) /\ Len(list) \in 0..ClosedOrders
    BY <2>3, NewestIsList
  <2>5. cut \in Seq(ClosedIds)
    <3> HIDE DEF list
    <3>1. QED
      BY <2>2, <2>4, PageIsList
  <2>6. requests' = (requests \ {q}) \cup {a}
    BY <1>1 DEF ServerPage
  <2>7. a \in PageRequest
    <3> HIDE DEF list, cut
    <3>1. QED
      BY <2>1, <2>4, <2>5 DEF PageRequest
  <2> HIDE DEF a
  <2>8. IsFiniteSet(requests')
    BY <2>6, FS_AddElement, FS_RemoveElement DEF PagesTyped
  <2>9. UNCHANGED <<state, closings, tab, rows, total, pageNo, loading, loadingMore, failed,
                    crossed, moved>>
    BY <1>1 DEF ServerPage
  <2>10. QED
    BY <2>6, <2>7, <2>8, <2>9 DEF PagesTyped, PagesTypeOK
<1>2. ASSUME NEW q \in requests, Arrives(q) PROVE PagesTyped'
  <2>1. q \in PageRequest
    BY DEF PagesTyped, PagesTypeOK
  <2>2. q.items \in Seq(ClosedIds) /\ q.page \in 1..(ClosedOrders + 1) /\ q.total \in 0..ClosedOrders
    BY <2>1 DEF PageRequest
  <2>3. rows' \in Seq(ClosedIds)
    BY <1>2, <2>2, ConcatProperties DEF Arrives, PagesTyped, PagesTypeOK
  <2>4. IsFiniteSet(requests')
    BY <1>2, FS_RemoveElement DEF Arrives, PagesTyped
  <2>5. QED
    BY <1>2, <2>2, <2>3, <2>4 DEF Arrives, PagesTyped, PagesTypeOK
<1>3. ASSUME NEW q \in requests, Lost(q) PROVE PagesTyped'
  <2>1. IsFiniteSet(requests')
    BY <1>3, FS_RemoveElement DEF Lost, PagesTyped
  <2>2. rows' \in Seq(ClosedIds)
    BY <1>3, EmptySeq DEF Lost, PagesTyped, PagesTypeOK
  <2>3. QED
    BY <1>3, <2>1, <2>2 DEF Lost, PagesTyped, PagesTypeOK
<1>4. ASSUME NEW o \in ClosedIds, NEW to \in States, Turns(o, to) PROVE PagesTyped'
  BY <1>4, PagesAssumption DEF Turns, PagesTyped, PagesTypeOK
<1>5. ASSUME NEW t \in Tabs, SelectTab(t) PROVE PagesTyped'
  <2>1. 1 \in 1..(ClosedOrders + 1)
    BY PagesAssumption
  <2>2. requests' \subseteq PageRequest /\ IsFiniteSet(requests')
    BY <1>5, <2>1, RequestsTyped DEF SelectTab
  <2>3. QED
    BY <1>5, <2>2, EmptySeq DEF SelectTab, PagesTyped, PagesTypeOK
<1>6. ASSUME LoadMore PROVE PagesTyped'
  <2>1. tab \in Tabs /\ pageNo + 1 \in 1..(ClosedOrders + 1)
    BY <1>6, PagesAssumption DEF LoadMore, PagesTyped, PagesTypeOK
  <2>2. requests' \subseteq PageRequest /\ IsFiniteSet(requests')
    BY <1>6, <2>1, RequestsTyped DEF LoadMore
  <2>3. QED
    BY <1>6, <2>2 DEF LoadMore, PagesTyped, PagesTypeOK
<1>7. ASSUME Retry PROVE PagesTyped'
  <2>1. tab \in Tabs /\ 1 \in 1..(ClosedOrders + 1)
    BY PagesAssumption DEF PagesTyped, PagesTypeOK
  <2>2. requests' \subseteq PageRequest /\ IsFiniteSet(requests')
    BY <1>7, <2>1, RequestsTyped DEF Retry
  <2>3. QED
    BY <1>7, <2>2 DEF Retry, PagesTyped, PagesTypeOK
<1>8. CASE UNCHANGED pageVars
  BY <1>8 DEF pageVars, PagesTyped, PagesTypeOK
<1>9. QED
  BY <1>1, <1>2, <1>3, <1>4, <1>5, <1>6, <1>7, <1>8 DEF PagesNext

LEMMA PagesInitTyped == PagesInit => PagesTyped
<1> SUFFICES ASSUME PagesInit PROVE PagesTyped
  OBVIOUS
<1> DEFINE r == [number |-> 1, tab |-> "all", page |-> 1, read |-> FALSE, items |-> <<>>,
                 total |-> 0]
<1>1. r \in PageRequest
  BY PagesAssumption, EmptySeq DEF PageRequest, Tabs
<1>2. requests = {r}
  BY DEF PagesInit
<1> HIDE DEF r
<1>3. IsFiniteSet(requests) /\ requests \subseteq PageRequest
  BY <1>1, <1>2, FS_Singleton
<1>4. closings \in 0..MaxClosings /\ total \in 0..ClosedOrders /\ pageNo \in 1..(ClosedOrders + 1)
  BY PagesAssumption DEF PagesInit
<1>5. rows \in Seq(ClosedIds) /\ tab \in Tabs
  BY EmptySeq DEF PagesInit, Tabs
<1>6. QED
  BY <1>3, <1>4, <1>5 DEF PagesInit, PagesTyped, PagesTypeOK

\* The rows, the answers and the numbers of requests keep their types: every
\* page cut from a list is one (getMyOrdersByUserId), and there is a number for
\* every request that may be sent.
THEOREM PagesAreTyped == PagesSpec => []PagesTypeOK
<1>1. PagesTyped => PagesTypeOK
  BY DEF PagesTyped
<1>2. QED
  BY PagesInitTyped, StepPagesTyped, <1>1, PTL DEF PagesSpec
-----------------------------------------------------------------------------
(* The parts of the desk side by side.                                     *)

DeskInv ==
  /\ part \in Parts
  /\ AuthInv /\ CountInv /\ LogoutInv
  /\ DialogueInv /\ HistoryInv /\ BooksTypeOK
  /\ FormInv /\ CardsInv /\ PagesTyped
  /\ StockInv /\ SuppliersInv /\ DebtInv /\ TotalsInv

LEMMA DeskInitially == DeskInit => DeskInv
BY AuthInitially, DialogueInitially, HistoryInitially, BooksTypeInit, FormInitially,
   CardsInitially, PagesInitTyped, StockInitially, SuppliersInitially, DebtInitially,
   TotalsInitially
   DEF DeskInit, DeskInv

\* Every part steps, or stands still, by its own specification.
LEMMA PartsStep ==
  ASSUME [DeskNext]_deskVars
  PROVE  /\ part' = part
         /\ [AuthNext]_authVars /\ [DialogueNext]_dialogueVars /\ [HistoryNext]_historyVars
         /\ [FiguresNext]_<<reportsVars, booksVars>>
         /\ [FormNext]_formVars /\ [CardsNext]_cardVars /\ [PagesNext]_pageVars
         /\ [InventoryNext]_inventoryVars /\ [SuppliersNext]_supplierVars
         /\ [OrganizationsNext]_organizationVars /\ [TotalsNext]_totalsVars
<1>1. CASE UNCHANGED deskVars
  BY <1>1 DEF deskVars
<1>2. CASE DeskNext
  BY <1>2 DEF DeskNext, FiguresNext
<1>3. QED
  BY <1>1, <1>2

LEMMA StepDesk == DeskInv /\ [DeskNext]_deskVars => DeskInv'
<1> SUFFICES ASSUME DeskInv, [DeskNext]_deskVars PROVE DeskInv'
  OBVIOUS
<1>1. part' \in Parts
  BY PartsStep DEF DeskInv
<1>2. AuthInv' /\ CountInv' /\ LogoutInv'
  BY PartsStep, StepAuth DEF DeskInv
<1>3. DialogueInv' /\ HistoryInv' /\ BooksTypeOK'
  BY PartsStep, StepDialogue, StepHistory, StepBooksTyped DEF DeskInv
<1>4. FormInv' /\ CardsInv' /\ PagesTyped'
  BY PartsStep, StepForm, StepCards, StepPagesTyped DEF DeskInv
<1>5. StockInv' /\ SuppliersInv' /\ DebtInv' /\ TotalsInv'
  BY PartsStep, StepStock, SuppliersPreserved, StepDebt, StepTotals DEF DeskInv
<1>6. QED
  BY <1>1, <1>2, <1>3, <1>4, <1>5 DEF DeskInv

\* Whichever part is followed keeps its types: no count leaves its bounds, no
\* row, answer, request or call has a shape its handler does not expect.
THEOREM DeskTypeCorrect == DeskSpec => []DeskTypeOK
<1>1. DeskInv => DeskTypeOK
  BY DeskAssumption
     DEF DeskInv, DeskTypeOK, AuthInv, DialogueInv, DialogueTypes, HistoryInv, BooksTypeOK,
         FormInv, CardsInv, PagesTyped, StockInv, SuppliersInv, DebtInv, TotalsInv
<1>2. QED
  BY DeskInitially, StepDesk, <1>1, PTL DEF DeskSpec
=============================================================================
