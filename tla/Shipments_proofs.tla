--------------------------- MODULE Shipments_proofs ---------------------------
(***************************************************************************)
(* For any number of parcels, drivers and concurrent calls: the trip is    *)
(* never overloaded, the first driver wins, and, as long as the staff      *)
(* decides nothing, parcel and money follow Delivery.tla.                  *)
(*                                                                         *)
(* A parcel that still searches has no driver and takes no room; whoever   *)
(* is about to give room back read that the parcel has it, and a parcel    *)
(* never leaves its trip, so that the room of one parcel is given back     *)
(* once, by the one claim that cancels it.                                 *)
(***************************************************************************)
EXTENDS Shipments, FiniteSetTheorems, TLAPS

WithParcel == Announced \cup {"accept", "extend", "cancel", "complete", "release"}

CallOK(r, boarded) ==
    /\ r.at \in WithParcel => r.s \in Parcels
    /\ r.at = "accept" => r.d \in Drivers
    /\ r.at = "cancel" /\ r.trip => boarded[r.s]

CallsOK == \A c \in Workers : CallOK(call[c], onTrip)

Fresh ==
    \A s \in Parcels :
        /\ status[s] \in {"ABSENT", "SEARCHING_DRIVER"} => driver[s] = Nobody
        /\ driver[s] = Nobody => ~onTrip[s]

IInv == TypeOK /\ CallsOK /\ Fresh /\ NeverOverloaded

tripVars == <<status, driver, onTrip, free>>

SearchOK ==
    /\ window \in [Parcels -> {"open", "over"}]
    /\ asked \in [Parcels -> {"no", "within", "before"}]
    /\ extensions \in 0..MaxExtensions

MoneyOK ==
    /\ client \in [Parcels -> {"none", "debited", "refunded"}]
    /\ attempt \in [Parcels -> {"PENDING", "CAPTURED"}]
    /\ paid \in [Parcels -> {"PENDING", "CAPTURED", "REFUNDED"}]
    /\ revenue \in [Parcels -> {"NONE", "PENDING", "RELEASED", "REVERSED"}]
    /\ settling \in [Parcels -> SUBSET {"refund", "repay", "reverse"}]

TripOK ==
    /\ status \in [Parcels -> ShipmentStatus]
    /\ driver \in [Parcels -> Drivers \cup {Nobody}]
    /\ onTrip \in [Parcels -> BOOLEAN]
    /\ free \in 0..Capacity

-----------------------------------------------------------------------------
(* Sets of parcels and calls                                                *)

LEMMA AboardIsFinite ==
    /\ IsFiniteSet(Aboard) /\ Cardinality(Aboard) \in Nat
  <1>1. IsFiniteSet(Aboard)
    BY ShipmentsAssumption, FS_Subset DEF Aboard
  <1> QED
    BY <1>1, FS_CardinalityType

LEMMA IdleIsCall ==
    ASSUME NEW boarded
    PROVE  Idle \in CallState /\ CallOK(Idle, boarded)
  BY DEF Idle, CallState, Location, Announced, Captured, Cancellable, CallOK, WithParcel

LEMMA InitIInv == Init => IInv
  <1> SUFFICES ASSUME Init PROVE IInv
    OBVIOUS
  <1>1. TypeOK
    <2>1. onTrip \in [Parcels -> BOOLEAN]
      BY Zenon DEF Init
    <2> QED
      BY <2>1, IdleIsCall, ShipmentsAssumption DEF Init, TypeOK, ShipmentStatus
  <1>2. CallsOK
    BY IdleIsCall DEF Init, CallsOK
  <1>3. Fresh
    BY DEF Init, Fresh
  <1>4. NeverOverloaded
    <2>1. Aboard = {}
      BY DEF Init, Aboard
    <2> QED
      BY <2>1, FS_EmptySet, ShipmentsAssumption DEF Init, NeverOverloaded
  <1> QED
    BY <1>1, <1>2, <1>3, <1>4 DEF IInv

\* One call changes; what the others read of the trip stays true.
LEMMA CallStep ==
    ASSUME IInv, NEW c \in Workers, NEW r \in CallState, Becomes(c, r),
           \A s \in Parcels : onTrip[s] => onTrip'[s],
           CallOK(r, onTrip')
    PROVE  call' \in [Workers -> CallState] /\ CallsOK'
  <1>1. call' \in [Workers -> CallState]
    BY DEF IInv, TypeOK, Becomes
  <1>2. ASSUME NEW w \in Workers PROVE CallOK(call'[w], onTrip')
    <2>1. CASE w = c
      <3>1. call'[w] = r
        BY <2>1 DEF IInv, TypeOK, Becomes
      <3> QED
        BY <3>1 DEF CallOK
    <2>2. CASE w # c
      <3>1. call'[w] = call[w] /\ CallOK(call[w], onTrip)
        BY <2>2 DEF IInv, TypeOK, CallsOK, Becomes
      <3> QED
        BY <3>1 DEF CallOK, WithParcel, Announced, Captured
    <2> QED
      BY <2>1, <2>2
  <1> QED
    BY <1>1, <1>2 DEF CallsOK

LEMMA Kept ==
    ASSUME IInv
    PROVE  /\ UNCHANGED searchVars => SearchOK'
           /\ UNCHANGED moneyVars => MoneyOK'
           /\ UNCHANGED failures => failures' \in 0..MaxFailures
           /\ UNCHANGED tripVars => TripOK' /\ Fresh' /\ NeverOverloaded'
  <1>1. UNCHANGED tripVars => Aboard' = Aboard
    BY DEF Aboard, tripVars
  <1> QED
    BY <1>1 DEF IInv, TypeOK, searchVars, moneyVars, tripVars, SearchOK, MoneyOK, TripOK,
                Fresh, NeverOverloaded

LEMMA Assembled ==
    ASSUME TripOK', SearchOK', MoneyOK', failures' \in 0..MaxFailures,
           call' \in [Workers -> CallState], CallsOK', Fresh', NeverOverloaded'
    PROVE  IInv'
  BY DEF IInv, TypeOK, TripOK, SearchOK, MoneyOK

\* A step in which a call moves on and the trip is left alone.
LEMMA CallOnly ==
    ASSUME IInv, NEW c \in Workers, NEW r \in CallState, Becomes(c, r), CallOK(r, onTrip'),
           UNCHANGED tripVars, SearchOK', MoneyOK', failures' \in 0..MaxFailures
    PROVE  IInv'
  <1>1. \A s \in Parcels : onTrip[s] => onTrip'[s]
    BY DEF tripVars
  <1> QED
    BY <1>1, CallStep, Kept, Assembled

\* A step in which no call moves and the trip is left alone.
LEMMA NoCall ==
    ASSUME IInv, UNCHANGED call, UNCHANGED tripVars,
           SearchOK', MoneyOK', failures' \in 0..MaxFailures
    PROVE  IInv'
  <1>1. call' \in [Workers -> CallState] /\ CallsOK'
    BY DEF IInv, TypeOK, CallsOK, CallOK, WithParcel, Announced, Captured, tripVars
  <1> QED
    BY <1>1, Kept, Assembled

\* The records the calls take.
LEMMA Records ==
    ASSUME NEW s \in Parcels
    PROVE  /\ \A where \in {"claimAttempt", "accept", "extend", "complete"},
                    d \in Drivers \cup {Nobody} :
                 [Idle EXCEPT !.at = where, !.s = s, !.d = d] \in CallState
           /\ \A d \in Drivers, b \in BOOLEAN :
                 [Idle EXCEPT !.at = "accept", !.s = s, !.d = d, !.trip = b] \in CallState
           /\ \A by \in DOMAIN Cancellable, b \in BOOLEAN :
                 [Idle EXCEPT !.at = "cancel", !.s = s, !.by = by, !.trip = b] \in CallState
  BY DEF Idle, CallState, Location, Announced, Captured, Cancellable

LEMMA CallRecord ==
    ASSUME IInv, NEW c \in Workers
    PROVE  call[c] \in CallState /\ CallOK(call[c], onTrip)
  BY DEF IInv, TypeOK, CallsOK

-----------------------------------------------------------------------------
(* Room on the trip                                                         *)

LEMMA WithdrawKeepsRoom ==
    ASSUME IInv, NEW s \in Parcels, NEW givesRoomBack \in BOOLEAN,
           status[s] \notin {"ABSENT", "CANCELLED"}, givesRoomBack => onTrip[s],
           Withdraw(s, givesRoomBack), UNCHANGED <<driver, onTrip>>
    PROVE  Fresh' /\ NeverOverloaded' /\ free' \in 0..Capacity
           /\ status' \in [Parcels -> ShipmentStatus]
  <1>1. /\ status' = [status EXCEPT ![s] = "CANCELLED"]
        /\ free' = IF givesRoomBack THEN free + 1 ELSE free
    BY DEF Withdraw, SetStatus
  <1>2. status' \in [Parcels -> ShipmentStatus]
    BY <1>1 DEF IInv, TypeOK, ShipmentStatus
  <1>3. Fresh'
    BY <1>1 DEF IInv, TypeOK, Fresh
  <1>4. Aboard' = Aboard \ {s}
    BY <1>1 DEF IInv, TypeOK, Aboard
  <1>5. givesRoomBack => s \in Aboard
    BY DEF Aboard
  <1>6. Cardinality(Aboard') = IF s \in Aboard THEN Cardinality(Aboard) - 1
                               ELSE Cardinality(Aboard)
    <2>1. CASE s \in Aboard
      <3>1. Cardinality(Aboard \ {s}) = Cardinality(Aboard) - 1
        BY <2>1, AboardIsFinite, FS_RemoveElement
      <3> QED
        BY <2>1, <3>1, <1>4
    <2>2. CASE s \notin Aboard
      <3>1. Aboard' = Aboard
        BY <2>2, <1>4
      <3> QED
        BY <2>2, <3>1
    <2> QED
      BY <2>1, <2>2
  <1>7. Cardinality(Aboard') \in Nat /\ Cardinality(Aboard) \in Nat
    BY <1>4, AboardIsFinite, FS_Subset, FS_CardinalityType
  <1>8. NeverOverloaded'
    BY <1>1, <1>5, <1>6, <1>7, ShipmentsAssumption DEF IInv, TypeOK, NeverOverloaded
  <1>9. free' \in 0..Capacity
    BY <1>1, <1>7, <1>8, ShipmentsAssumption DEF IInv, TypeOK, NeverOverloaded
  <1> QED
    BY <1>2, <1>3, <1>8, <1>9

\* An order or an acceptance: the parcel had no room before.
LEMMA TakeKeepsRoom ==
    ASSUME IInv, NEW s \in Parcels, NEW to \in {"CREATED", "DRIVER_ASSIGNED"},
           NEW taken \in BOOLEAN, NEW d \in Drivers \cup {Nobody},
           status[s] \in {"ABSENT", "SEARCHING_DRIVER"}, taken => free > 0 /\ d \in Drivers,
           SetStatus(s, to),
           driver' = [driver EXCEPT ![s] = d], onTrip' = [onTrip EXCEPT ![s] = taken],
           free' = IF taken THEN free - 1 ELSE free
    PROVE  /\ Fresh' /\ NeverOverloaded' /\ free' \in 0..Capacity
           /\ status' \in [Parcels -> ShipmentStatus]
           /\ driver' \in [Parcels -> Drivers \cup {Nobody}]
           /\ onTrip' \in [Parcels -> BOOLEAN]
           /\ \A p \in Parcels : onTrip[p] => onTrip'[p]
  <1>1. ~onTrip[s]
    BY DEF IInv, Fresh
  <1>2. status' \in [Parcels -> ShipmentStatus] /\ driver' \in [Parcels -> Drivers \cup {Nobody}]
    BY DEF IInv, TypeOK, SetStatus, ShipmentStatus, ByParties
  <1>3. onTrip' \in [Parcels -> BOOLEAN]
    BY DEF IInv, TypeOK
  <1>4. \A p \in Parcels : onTrip[p] => onTrip'[p]
    BY <1>1 DEF IInv, TypeOK
  <1>5. Fresh'
    BY ShipmentsAssumption DEF IInv, TypeOK, Fresh, SetStatus
  <1>6. Aboard' = IF taken THEN Aboard \cup {s} ELSE Aboard
    BY <1>1 DEF IInv, TypeOK, Aboard, SetStatus
  <1>7. s \notin Aboard
    BY <1>1 DEF Aboard
  <1>8. Cardinality(Aboard \cup {s}) = Cardinality(Aboard) + 1
    BY <1>7, AboardIsFinite, FS_AddElement
  <1>9. free' \in 0..Capacity
    BY ShipmentsAssumption DEF IInv, TypeOK
  <1>10. NeverOverloaded'
    BY <1>6, <1>8, <1>9, AboardIsFinite, ShipmentsAssumption DEF IInv, TypeOK, NeverOverloaded
  <1> QED
    BY <1>2, <1>3, <1>4, <1>5, <1>9, <1>10

\* The parcel goes on without being cancelled.
LEMMA MoveKeepsRoom ==
    ASSUME IInv, NEW s \in Parcels, NEW to \in ShipmentStatus \ {"ABSENT", "CANCELLED"},
           status[s] # "CANCELLED", SetStatus(s, to),
           to = "SEARCHING_DRIVER" => driver[s] = Nobody,
           UNCHANGED <<driver, onTrip, free>>
    PROVE  Fresh' /\ NeverOverloaded' /\ status' \in [Parcels -> ShipmentStatus]
  <1>1. status' \in [Parcels -> ShipmentStatus]
    BY DEF IInv, TypeOK, SetStatus
  <1>2. Fresh'
    BY DEF IInv, TypeOK, Fresh, SetStatus
  <1>3. Aboard' = Aboard
    BY DEF IInv, TypeOK, Aboard, SetStatus
  <1> QED
    BY <1>1, <1>2, <1>3 DEF IInv, NeverOverloaded

-----------------------------------------------------------------------------
(* One lemma per operation                                                  *)

LEMMA ReturnIs ==
    ASSUME NEW c, Return(c)
    PROVE  Becomes(c, Idle) /\ Idle \in CallState /\ CallOK(Idle, onTrip')
  BY IdleIsCall DEF Return, CallOK, Idle, WithParcel, Announced, Captured

\* A call that stays with its parcel.
LEMMA GoToIs ==
    ASSUME IInv, NEW c \in Workers, NEW where \in WithParcel \ {"accept", "cancel"},
           call[c].at \in WithParcel, NEW d \in Drivers \cup {Nobody}
    PROVE  /\ [call[c] EXCEPT !.at = where] \in CallState
           /\ CallOK([call[c] EXCEPT !.at = where], onTrip')
           /\ [call[c] EXCEPT !.at = where, !.d = d] \in CallState
           /\ CallOK([call[c] EXCEPT !.at = where, !.d = d], onTrip')
           /\ GoTo(c, where) => Becomes(c, [call[c] EXCEPT !.at = where])
  <1>1. call[c] \in CallState /\ call[c].s \in Parcels
    BY CallRecord DEF CallOK
  <1>2. where \in Location
    BY DEF WithParcel, Location
  <1> QED
    BY <1>1, <1>2 DEF CallState, CallOK, GoTo, Becomes

LEMMA Invariant_Create ==
    ASSUME IInv, NEW s \in Parcels, NEW chosen \in BOOLEAN, Create(s, chosen)
    PROVE  IInv'
  <1> DEFINE d == IF chosen THEN TripDriver ELSE Nobody
  <1>1. /\ d \in Drivers \cup {Nobody}
        /\ chosen => free > 0 /\ d \in Drivers
        /\ "CREATED" \in {"CREATED", "DRIVER_ASSIGNED"}
        /\ status[s] \in {"ABSENT", "SEARCHING_DRIVER"}
        /\ driver' = [driver EXCEPT ![s] = d]
    BY ShipmentsAssumption DEF Create
  <1>2. /\ TripOK' /\ Fresh' /\ NeverOverloaded'
        /\ \A p \in Parcels : onTrip[p] => onTrip'[p]
    BY <1>1, TakeKeepsRoom DEF Create, TripOK
  <1>3. call' \in [Workers -> CallState] /\ CallsOK'
    BY <1>2 DEF Create, IInv, TypeOK, CallsOK, CallOK, WithParcel, Announced, Captured
  <1> QED
    BY <1>2, <1>3, Kept, Assembled DEF Create

LEMMA Invariant_Pay ==
    ASSUME IInv, NEW s \in Parcels, Pay(s)
    PROVE  IInv'
  <1>1. MoneyOK'
    BY DEF Pay, IInv, TypeOK, MoneyOK
  <1> QED
    BY <1>1, Kept, NoCall DEF Pay, tripVars

LEMMA Invariant_Webhook ==
    ASSUME IInv, NEW c \in Calls, NEW s \in Parcels, Webhook(c, s)
    PROVE  IInv'
  <1> DEFINE r == [Idle EXCEPT !.at = "claimAttempt", !.s = s, !.d = Nobody]
  <1>1. c \in Workers /\ r \in CallState /\ Becomes(c, r)
    BY Records DEF Workers, Webhook, Begin
  <1>2. CallOK(r, onTrip')
    BY DEF CallOK, Idle, WithParcel, Announced, Captured
  <1> QED
    BY <1>1, <1>2, Kept, CallOnly DEF Webhook, tripVars

\* What an announcement writes beside the shipment, and the catch block after it.
LEMMA Invariant_Announcement ==
    ASSUME IInv, NEW c \in Calls,
           \/ ClaimAttempt(c) \/ ClaimPayment(c) \/ HoldRevenue(c) \/ Notified(c)
           \/ CaptureThrows(c) \/ ResetAttempt(c) \/ ResetPayment(c)
    PROVE  IInv'
  <1>1. c \in Workers /\ call[c].at \in WithParcel
    BY DEF Workers, ClaimAttempt, ClaimPayment, HoldRevenue, Notified, CaptureThrows,
           ResetAttempt, ResetPayment, At, WithParcel, Announced, Captured
  <1>2. call[c].s \in Parcels /\ driver[call[c].s] \in Drivers \cup {Nobody}
    BY <1>1, CallRecord DEF CallOK, IInv, TypeOK
  <1>3. MoneyOK'
    BY <1>2 DEF ClaimAttempt, ClaimPayment, HoldRevenue, Hold, Notified, CaptureThrows,
                ResetAttempt, ResetPayment, IInv, TypeOK, MoneyOK, moneyVars
  <1>4. failures' \in 0..MaxFailures
    BY ShipmentsAssumption
       DEF ClaimAttempt, ClaimPayment, HoldRevenue, Notified, CaptureThrows, ResetAttempt,
           ResetPayment, IInv, TypeOK
  <1>5. UNCHANGED tripVars /\ UNCHANGED searchVars
    BY DEF ClaimAttempt, ClaimPayment, HoldRevenue, Notified, CaptureThrows, ResetAttempt,
           ResetPayment, tripVars
  <1>6. \/ Return(c)
        \/ \E where \in Announced : GoTo(c, where)
        \/ Becomes(c, [call[c] EXCEPT !.at = "confirm", !.d = driver[call[c].s]])
    BY DEF ClaimAttempt, ClaimPayment, HoldRevenue, Notified, CaptureThrows, ResetAttempt,
           ResetPayment, Announced, Captured, Becomes
  <1>7. \E r \in CallState : Becomes(c, r) /\ CallOK(r, onTrip')
    <2>1. CASE Return(c)
      BY <2>1, ReturnIs
    <2>2. CASE \E where \in Announced : GoTo(c, where)
      <3>1. PICK where \in WithParcel \ {"accept", "cancel"} : GoTo(c, where)
        BY <2>2 DEF WithParcel, Announced, Captured
      <3> QED
        BY <1>1, <1>2, <3>1, GoToIs
    <2>3. CASE Becomes(c, [call[c] EXCEPT !.at = "confirm", !.d = driver[call[c].s]])
      <3>1. "confirm" \in WithParcel \ {"accept", "cancel"}
        BY DEF WithParcel, Announced, Captured
      <3> QED
        BY <1>1, <1>2, <2>3, <3>1, GoToIs
    <2> QED
      BY <1>6, <2>1, <2>2, <2>3
  <1>8. SearchOK'
    BY <1>5, Kept
  <1> QED
    BY <1>1, <1>3, <1>4, <1>5, <1>7, <1>8, CallOnly

LEMMA Invariant_ConfirmPayment ==
    ASSUME IInv, NEW c \in Calls, ConfirmPayment(c)
    PROVE  IInv'
  <1> DEFINE s == call[c].s
  <1>1. c \in Workers /\ s \in Parcels /\ call[c].at \in WithParcel
    BY CallRecord DEF Workers, ConfirmPayment, At, CallOK, WithParcel, Announced, Captured
  <1>2. \E r \in CallState : Becomes(c, r) /\ CallOK(r, onTrip')
    <2>1. CASE Return(c)
      BY <2>1, ReturnIs
    <2>2. CASE ToHold(c)
      <3>1. PICK where \in WithParcel \ {"accept", "cancel"} : GoTo(c, where)
        BY <2>2 DEF ToHold, WithParcel, Announced, Captured
      <3> QED
        BY <1>1, <3>1, GoToIs, ShipmentsAssumption
    <2> QED
      BY <2>1, <2>2 DEF ConfirmPayment
  <1>3. MoneyOK' /\ SearchOK' /\ failures' \in 0..MaxFailures
    BY <1>1 DEF ConfirmPayment, Settle, IInv, TypeOK, MoneyOK, SearchOK, searchVars
  <1>4. CASE status[s] = "CREATED" /\ Confirmed(s)
    <2>1. \E to \in {"SEARCHING_DRIVER", "DRIVER_ASSIGNED"} :
             SetStatus(s, to) /\ (to = "SEARCHING_DRIVER" => driver[s] = Nobody)
      BY <1>4 DEF Confirmed
    <2>2. Fresh' /\ NeverOverloaded' /\ status' \in [Parcels -> ShipmentStatus]
      BY <1>1, <1>4, <2>1, MoveKeepsRoom DEF ConfirmPayment, ShipmentStatus, ByParties
    <2>3. TripOK'
      BY <2>2 DEF ConfirmPayment, IInv, TypeOK, TripOK
    <2>4. call' \in [Workers -> CallState] /\ CallsOK'
      BY <1>1, <1>2, CallStep DEF ConfirmPayment
    <2> QED
      BY <1>3, <2>2, <2>3, <2>4, Assembled
  <1>5. CASE UNCHANGED tripVars
    BY <1>1, <1>2, <1>3, <1>5, CallOnly
  <1> QED
    BY <1>4, <1>5 DEF ConfirmPayment, tripVars

LEMMA Invariant_Accept ==
    ASSUME IInv, NEW c \in Calls, NEW s \in Parcels, NEW d \in Drivers,
           NEW withTrip \in BOOLEAN, Accept(c, s, d, withTrip)
    PROVE  IInv'
  <1> DEFINE r == [Idle EXCEPT !.at = "accept", !.s = s, !.d = d, !.trip = withTrip]
  <1>1. c \in Workers /\ r \in CallState /\ Becomes(c, r)
    BY Records DEF Workers, Accept
  <1>2. CallOK(r, onTrip')
    BY DEF CallOK, Idle, WithParcel, Announced, Captured
  <1> QED
    BY <1>1, <1>2, Kept, CallOnly DEF Accept, tripVars

LEMMA Invariant_AcceptClaim ==
    ASSUME IInv, NEW c \in Calls, AcceptClaim(c)
    PROVE  IInv'
  <1> DEFINE s == call[c].s
             d == call[c].d
             taken == call[c].trip
  <1>1. c \in Workers /\ s \in Parcels /\ d \in Drivers /\ taken \in BOOLEAN
    BY CallRecord DEF Workers, AcceptClaim, At, CallOK, WithParcel, Announced, Captured, CallState
  <1>2. Becomes(c, Idle) /\ Idle \in CallState /\ CallOK(Idle, onTrip')
    BY ReturnIs DEF AcceptClaim
  <1>3. MoneyOK' /\ SearchOK' /\ failures' \in 0..MaxFailures
    BY <1>1 DEF AcceptClaim, Hold, IInv, TypeOK, MoneyOK, SearchOK, searchVars
  <1>4. CASE status[s] = "SEARCHING_DRIVER" /\ (taken => free > 0)
    <2>1. /\ status[s] \in {"ABSENT", "SEARCHING_DRIVER"}
          /\ taken => free > 0 /\ d \in Drivers
          /\ SetStatus(s, "DRIVER_ASSIGNED")
          /\ driver' = [driver EXCEPT ![s] = d]
          /\ onTrip' = [onTrip EXCEPT ![s] = taken]
          /\ free' = IF taken THEN free - 1 ELSE free
          /\ "DRIVER_ASSIGNED" \in {"CREATED", "DRIVER_ASSIGNED"}
      BY <1>1, <1>4 DEF AcceptClaim
    <2>2. /\ TripOK' /\ Fresh' /\ NeverOverloaded'
          /\ \A p \in Parcels : onTrip[p] => onTrip'[p]
      BY <1>1, <2>1, TakeKeepsRoom DEF TripOK
    <2> QED
      BY <1>1, <1>2, <1>3, <2>2, CallStep, Assembled
  <1>5. CASE ~(status[s] = "SEARCHING_DRIVER" /\ (taken => free > 0))
    <2>1. UNCHANGED tripVars
      BY <1>5 DEF AcceptClaim, tripVars
    <2> QED
      BY <1>1, <1>2, <1>3, <2>1, CallOnly
  <1> QED
    BY <1>4, <1>5

LEMMA Invariant_ExtendWindow ==
    ASSUME IInv, NEW c \in Calls, NEW s \in Parcels, ExtendWindow(c, s)
    PROVE  IInv'
  <1> DEFINE r == [Idle EXCEPT !.at = "extend", !.s = s, !.d = Nobody]
  <1>1. c \in Workers /\ r \in CallState /\ Becomes(c, r)
    BY Records DEF Workers, ExtendWindow, Begin
  <1>2. CallOK(r, onTrip')
    BY DEF CallOK, Idle, WithParcel, Announced, Captured
  <1>3. SearchOK'
    BY ShipmentsAssumption DEF ExtendWindow, IInv, TypeOK, SearchOK
  <1> QED
    BY <1>1, <1>2, <1>3, Kept, CallOnly DEF ExtendWindow, tripVars

LEMMA Invariant_ExtendUpdate ==
    ASSUME IInv, NEW c \in Calls, ExtendUpdate(c)
    PROVE  IInv'
  <1>1. c \in Workers /\ Becomes(c, Idle) /\ Idle \in CallState /\ CallOK(Idle, onTrip')
    BY ReturnIs DEF Workers, ExtendUpdate
  <1>2. SearchOK'
    BY DEF ExtendUpdate, IInv, TypeOK, SearchOK
  <1> QED
    BY <1>1, <1>2, Kept, CallOnly DEF ExtendUpdate, tripVars

LEMMA Invariant_Clock ==
    ASSUME IInv, NEW s \in Parcels, Clock(s)
    PROVE  IInv'
  <1>1. SearchOK'
    BY DEF Clock, WindowEnds, GraceEnds, IInv, TypeOK, SearchOK
  <1> QED
    BY <1>1, Kept, NoCall DEF Clock, WindowEnds, GraceEnds, tripVars

LEMMA Invariant_Cancel ==
    ASSUME IInv, NEW c \in Calls, NEW s \in Parcels, NEW by \in DOMAIN Cancellable,
           Cancel(c, s, by)
    PROVE  IInv'
  <1> DEFINE r == [Idle EXCEPT !.at = "cancel", !.s = s, !.by = by, !.trip = onTrip[s]]
  <1>1. onTrip[s] \in BOOLEAN
    BY DEF IInv, TypeOK
  <1>2. c \in Workers /\ r \in CallState /\ Becomes(c, r)
    BY <1>1, Records DEF Workers, Cancel
  <1>3. CallOK(r, onTrip')
    BY DEF CallOK, Idle, WithParcel, Announced, Captured, Cancel
  <1> QED
    BY <1>2, <1>3, Kept, CallOnly DEF Cancel, tripVars

LEMMA Invariant_CancelClaim ==
    ASSUME IInv, NEW c \in Calls, CancelClaim(c)
    PROVE  IInv'
  <1> DEFINE s == call[c].s
             back == call[c].trip
  <1>1. c \in Workers /\ s \in Parcels /\ back \in BOOLEAN /\ (back => onTrip[s])
    BY CallRecord DEF Workers, CancelClaim, At, CallOK, WithParcel, Announced, Captured, CallState
  <1>2. Becomes(c, Idle) /\ Idle \in CallState /\ CallOK(Idle, onTrip')
    BY ReturnIs DEF CancelClaim
  <1>3. MoneyOK' /\ SearchOK' /\ failures' \in 0..MaxFailures
    BY <1>1 DEF CancelClaim, Withdraw, Settle, IInv, TypeOK, MoneyOK, SearchOK, searchVars
  <1>4. CASE status[s] \in Cancellable[call[c].by]
    <2>1. status[s] \notin {"ABSENT", "CANCELLED"}
      BY <1>1, <1>4, CallRecord DEF CallState, Cancellable, ByParties, Carried, Delivered
    <2>2. Withdraw(s, back) /\ UNCHANGED <<driver, onTrip>>
      BY <1>4 DEF CancelClaim
    <2>3. Fresh' /\ NeverOverloaded' /\ free' \in 0..Capacity
          /\ status' \in [Parcels -> ShipmentStatus]
      BY <1>1, <2>1, <2>2, WithdrawKeepsRoom
    <2>4. TripOK' /\ \A p \in Parcels : onTrip[p] => onTrip'[p]
      BY <2>2, <2>3 DEF TripOK, IInv, TypeOK
    <2> QED
      BY <1>1, <1>2, <1>3, <2>3, <2>4, CallStep, Assembled
  <1>5. CASE status[s] \notin Cancellable[call[c].by]
    <2>1. UNCHANGED tripVars
      BY <1>5 DEF CancelClaim, tripVars
    <2> QED
      BY <1>1, <1>2, <1>3, <2>1, CallOnly
  <1> QED
    BY <1>4, <1>5

LEMMA Invariant_Settlement ==
    ASSUME IInv, NEW s \in Parcels, StaffRefunds(s) \/ Settlement(s) \/ HandlerDies(s)
    PROVE  IInv'
  <1>1. CASE \E what \in {"refund", "repay"} : Refund(s, what)
    <2>1. PICK what \in {"refund", "repay"} : Refund(s, what)
      BY <1>1
    <2>2. MoneyOK' /\ failures' \in 0..MaxFailures
      BY <2>1 DEF Refund, IInv, TypeOK, MoneyOK
    <2> QED
      BY <2>1, <2>2, Kept, NoCall DEF Refund, tripVars
  <1>2. CASE StaffRefunds(s) \/ Reverse(s) \/ RecoverRefund(s) \/ HandlerDies(s)
    <2>1. MoneyOK'
      BY <1>2 DEF StaffRefunds, Reverse, RecoverRefund, HandlerDies, Settle, SettleRevenue,
                  IInv, TypeOK, MoneyOK
    <2>2. failures' \in 0..MaxFailures
      BY <1>2, ShipmentsAssumption
         DEF StaffRefunds, Reverse, RecoverRefund, HandlerDies, IInv, TypeOK
    <2> QED
      BY <1>2, <2>1, <2>2, Kept, NoCall
         DEF StaffRefunds, Reverse, RecoverRefund, HandlerDies, tripVars
  <1> QED
    BY <1>1, <1>2 DEF Settlement

\* A step of the journey: only the status moves.
LEMMA AdvanceKeeps ==
    ASSUME IInv, NEW s \in Parcels, NEW from \in ShipmentStatus,
           NEW to \in ShipmentStatus \ {"ABSENT", "CANCELLED", "SEARCHING_DRIVER"},
           from # "CANCELLED", Advance(s, from, to)
    PROVE  /\ TripOK' /\ Fresh' /\ NeverOverloaded' /\ SearchOK' /\ MoneyOK'
           /\ failures' \in 0..MaxFailures
           /\ \A p \in Parcels : onTrip[p] => onTrip'[p]
  <1>1. Fresh' /\ NeverOverloaded' /\ status' \in [Parcels -> ShipmentStatus]
    BY MoveKeepsRoom DEF Advance
  <1> QED
    BY <1>1, Kept DEF Advance, TripOK, IInv, TypeOK

LEMMA Invariant_Journey ==
    ASSUME IInv, NEW s \in Parcels, Journey(s)
    PROVE  IInv'
  <1>1. PICK from \in ShipmentStatus,
             to \in ShipmentStatus \ {"ABSENT", "CANCELLED", "SEARCHING_DRIVER"} :
             from # "CANCELLED" /\ Advance(s, from, to)
    BY DEF Journey, MarkPickupPending, MarkPickedUp, MarkInTransit, MarkDeliveryPending,
           ShipmentStatus, ByParties, Carried
  <1>2. UNCHANGED call
    BY DEF Journey, MarkPickupPending, MarkPickedUp, MarkInTransit, MarkDeliveryPending
  <1>3. call' \in [Workers -> CallState] /\ CallsOK'
    BY <1>1, <1>2 DEF Advance, IInv, TypeOK, CallsOK
  <1> QED
    BY <1>1, <1>3, AdvanceKeeps, Assembled

LEMMA Invariant_MarkDelivered ==
    ASSUME IInv, NEW c \in Calls, NEW s \in Parcels, MarkDelivered(c, s)
    PROVE  IInv'
  <1> DEFINE r == [Idle EXCEPT !.at = "complete", !.s = s, !.d = Nobody]
  <1>1. c \in Workers /\ r \in CallState /\ Becomes(c, r)
    BY Records DEF Workers, MarkDelivered, Begin
  <1>2. CallOK(r, onTrip')
    BY DEF CallOK, Idle, WithParcel, Announced, Captured
  <1>3. /\ "DELIVERY_PENDING" \in ShipmentStatus
        /\ "DELIVERED" \in ShipmentStatus \ {"ABSENT", "CANCELLED", "SEARCHING_DRIVER"}
        /\ Advance(s, "DELIVERY_PENDING", "DELIVERED")
    BY DEF MarkDelivered, ShipmentStatus, Carried, Delivered
  <1> QED
    BY <1>1, <1>2, <1>3, AdvanceKeeps, CallStep, Assembled

LEMMA Invariant_Complete ==
    ASSUME IInv, NEW c \in Calls, Complete(c)
    PROVE  IInv'
  <1> DEFINE s == call[c].s
             r == [call[c] EXCEPT !.at = "release"]
  <1>1. c \in Workers /\ s \in Parcels
    BY CallRecord DEF Workers, Complete, At, CallOK, WithParcel, Announced, Captured
  <1>2. r \in CallState /\ Becomes(c, r)
    BY <1>1, CallRecord DEF Complete, GoTo, Becomes, CallState, Location, Announced, Captured
  <1>3. CallOK(r, onTrip')
    BY <1>1, CallRecord DEF CallOK, WithParcel, Announced, Captured, CallState
  <1>4. /\ "DELIVERED" \in ShipmentStatus
        /\ "COMPLETED" \in ShipmentStatus \ {"ABSENT", "CANCELLED", "SEARCHING_DRIVER"}
        /\ Advance(s, "DELIVERED", "COMPLETED")
    BY DEF Complete, ShipmentStatus, Carried, Delivered
  <1> QED
    BY <1>1, <1>2, <1>3, <1>4, AdvanceKeeps, CallStep, Assembled

LEMMA Invariant_Ends ==
    ASSUME IInv, NEW c \in Calls, NotDeliveredAnyMore(c) \/ ReleaseFunds(c)
    PROVE  IInv'
  <1>1. c \in Workers /\ Becomes(c, Idle) /\ Idle \in CallState /\ CallOK(Idle, onTrip')
    BY ReturnIs DEF Workers, NotDeliveredAnyMore, ReleaseFunds
  <1>2. MoneyOK'
    BY DEF NotDeliveredAnyMore, ReleaseFunds, SettleRevenue, IInv, TypeOK, MoneyOK, moneyVars
  <1> QED
    BY <1>1, <1>2, Kept, CallOnly DEF NotDeliveredAnyMore, ReleaseFunds, tripVars

LEMMA Invariant_Die ==
    ASSUME IInv, NEW c \in Workers, Die(c)
    PROVE  IInv'
  <1>1. Becomes(c, Idle) /\ Idle \in CallState /\ CallOK(Idle, onTrip')
    BY ReturnIs DEF Die
  <1>2. failures' \in 0..MaxFailures
    BY ShipmentsAssumption DEF Die, IInv, TypeOK
  <1> QED
    BY <1>1, <1>2, Kept, CallOnly DEF Die, tripVars

-----------------------------------------------------------------------------
(* The jobs                                                                 *)

JobPlace == {"idle", "ask", "expire", "unpaid", "late", "unheld"}

\* A job holds no parcel and no room of its own: its list changes, or it stops.
LEMMA ListIs ==
    ASSUME NEW c, NEW where \in JobPlace, NEW listed \in SUBSET Parcels, List(c, where, listed)
    PROVE  \E r \in CallState : Becomes(c, r) /\ CallOK(r, onTrip')
  <1> DEFINE r == [Idle EXCEPT !.at = where, !.todo = listed]
  <1>1. r \in CallState
    BY DEF Idle, CallState, Location, Announced, Captured, JobPlace, Cancellable
  <1>2. CallOK(r, onTrip')
    BY DEF Idle, CallOK, WithParcel, Announced, Captured, JobPlace
  <1> QED
    BY <1>1, <1>2 DEF List

LEMMA TakesIs ==
    ASSUME IInv, NEW c \in Workers, NEW where \in JobPlace, NEW s, Takes(c, where, s)
    PROVE  \E r \in CallState : Becomes(c, r) /\ CallOK(r, onTrip')
  <1> DEFINE r == IF call[c].todo = {s} THEN Idle ELSE [call[c] EXCEPT !.todo = @ \ {s}]
  <1>1. r \in CallState
    BY CallRecord, IdleIsCall DEF CallState
  <1>2. CallOK(r, onTrip')
    BY CallRecord, IdleIsCall
       DEF CallOK, WithParcel, Announced, Captured, CallState, JobPlace, Takes, At
  <1>3. Becomes(c, r)
    BY DEF Takes, Becomes
  <1> QED
    BY <1>1, <1>2, <1>3

LEMMA JobsAreWorkers == WindowJob \in Workers /\ HeldJob \in Workers
  BY DEF Workers, Jobs

LEMMA Invariant_Lists ==
    ASSUME IInv,
           ListEnded \/ ListUnextended \/ ListUnpaid \/ ListUnreleased \/ ListUnheld
    PROVE  IInv'
  <1>1. UNCHANGED <<tripVars, searchVars, moneyVars, failures>>
    BY DEF ListEnded, ListUnextended, ListUnpaid, ListUnreleased, ListUnheld, tripVars
  <1>2. \E c \in {WindowJob, HeldJob}, r \in CallState : Becomes(c, r) /\ CallOK(r, onTrip')
    <2>1. CASE ListEnded \/ ListUnextended \/ ListUnpaid
      <3>1. \E where \in JobPlace, listed \in SUBSET Parcels : List(WindowJob, where, listed)
        BY <2>1 DEF ListEnded, ListUnextended, ListUnpaid, Searching, JobPlace
      <3> QED
        BY <3>1, ListIs
    <2>2. CASE ListUnreleased \/ ListUnheld
      <3>1. \E where \in JobPlace, listed \in SUBSET Parcels : List(HeldJob, where, listed)
        BY <2>2 DEF ListUnreleased, ListUnheld, JobPlace
      <3> QED
        BY <3>1, ListIs
    <2> QED
      BY <2>1, <2>2
  <1> QED
    BY <1>1, <1>2, JobsAreWorkers, Kept, CallOnly

LEMMA Invariant_RequestExtension ==
    ASSUME IInv, NEW s \in Parcels, RequestExtension(s)
    PROVE  IInv'
  <1>1. \E r \in CallState : Becomes(WindowJob, r) /\ CallOK(r, onTrip')
    BY JobsAreWorkers, TakesIs DEF RequestExtension, JobPlace
  <1>2. SearchOK'
    BY DEF RequestExtension, IInv, TypeOK, SearchOK
  <1> QED
    BY <1>1, <1>2, JobsAreWorkers, Kept, CallOnly DEF RequestExtension, tripVars

LEMMA Invariant_HeldTakes ==
    ASSUME IInv, NEW s \in Parcels, ReleaseLate(s) \/ HoldLate(s)
    PROVE  IInv'
  <1>1. \E r \in CallState : Becomes(HeldJob, r) /\ CallOK(r, onTrip')
    BY JobsAreWorkers, TakesIs DEF ReleaseLate, HoldLate, JobPlace
  <1>2. MoneyOK'
    BY DEF ReleaseLate, HoldLate, Hold, SettleRevenue, IInv, TypeOK, MoneyOK
  <1> QED
    BY <1>1, <1>2, JobsAreWorkers, Kept, CallOnly DEF ReleaseLate, HoldLate, tripVars

LEMMA Invariant_Expire ==
    ASSUME IInv, NEW s \in Parcels, ExpireSearch(s) \/ ExpireUnpaid(s)
    PROVE  IInv'
  <1>1. \E r \in CallState : Becomes(WindowJob, r) /\ CallOK(r, onTrip')
    BY JobsAreWorkers, TakesIs DEF ExpireSearch, ExpireUnpaid, JobPlace
  <1>2. /\ MoneyOK' /\ SearchOK' /\ failures' \in 0..MaxFailures
        /\ UNCHANGED <<driver, onTrip>>
    BY DEF ExpireSearch, ExpireUnpaid, Withdraw, Settle, IInv, TypeOK, MoneyOK, SearchOK, searchVars
  <1>3. \/ UNCHANGED tripVars
        \/ /\ status[s] \in {"SEARCHING_DRIVER", "CREATED"}
           /\ \E back \in BOOLEAN : (back => onTrip[s]) /\ Withdraw(s, back)
    BY DEF ExpireSearch, ExpireUnpaid, Searching, tripVars, IInv, TypeOK
  <1>4. CASE UNCHANGED tripVars
    BY <1>1, <1>2, <1>4, JobsAreWorkers, CallOnly
  <1>5. CASE \E back \in BOOLEAN : /\ status[s] \in {"SEARCHING_DRIVER", "CREATED"}
                                   /\ (back => onTrip[s]) /\ Withdraw(s, back)
    <2>1. PICK back \in BOOLEAN : /\ status[s] \notin {"ABSENT", "CANCELLED"}
                                  /\ (back => onTrip[s]) /\ Withdraw(s, back)
      BY <1>5
    <2>2. Fresh' /\ NeverOverloaded' /\ free' \in 0..Capacity
          /\ status' \in [Parcels -> ShipmentStatus]
      BY <1>2, <2>1, WithdrawKeepsRoom
    <2>3. TripOK' /\ \A p \in Parcels : onTrip[p] => onTrip'[p]
      BY <1>2, <2>2 DEF TripOK, IInv, TypeOK
    <2> QED
      BY <1>1, <1>2, <2>2, <2>3, JobsAreWorkers, CallStep, Assembled
  <1> QED
    BY <1>3, <1>4, <1>5

LEMMA NextKeepsIInv == IInv /\ [Next]_vars => IInv'
  <1> SUFFICES ASSUME IInv, [Next]_vars PROVE IInv'
    OBVIOUS
  <1>1. CASE \E c \in Calls : Continue(c) \/ CaptureThrows(c)
    BY <1>1, Invariant_Announcement, Invariant_ConfirmPayment, Invariant_AcceptClaim,
       Invariant_ExtendUpdate, Invariant_CancelClaim, Invariant_Complete, Invariant_Ends
       DEF Continue
  <1>2. CASE \E c \in Calls, s \in Parcels : Start(c, s)
    BY <1>2, Invariant_Webhook, Invariant_ExtendWindow, Invariant_MarkDelivered,
       Invariant_Cancel, Invariant_Accept DEF Start
  <1>3. CASE \E s \in Parcels :
                \/ \E chosen \in BOOLEAN : Create(s, chosen)
                \/ Pay(s) \/ Journey(s) \/ Clock(s)
                \/ StaffRefunds(s) \/ Settlement(s) \/ HandlerDies(s)
    BY <1>3, Invariant_Create, Invariant_Pay, Invariant_Journey, Invariant_Clock, Invariant_Settlement
  <1>4. CASE WindowPass \/ HeldPass
    BY <1>4, Invariant_Lists, Invariant_RequestExtension, Invariant_Expire, Invariant_HeldTakes
       DEF WindowPass, HeldPass
  <1>5. CASE \E c \in Workers : Die(c)
    BY <1>5, Invariant_Die
  <1>6. CASE UNCHANGED vars
    BY <1>6, Kept, NoCall DEF vars, tripVars, searchVars, moneyVars
  <1> QED
    BY <1>1, <1>2, <1>3, <1>4, <1>5, <1>6 DEF Next

LEMMA Invariance == Spec => []IInv
  BY InitIInv, NextKeepsIInv, PTL DEF Spec

-----------------------------------------------------------------------------
(* What follows                                                             *)

\* Every variable keeps its type, whatever the number of parcels and calls.
THEOREM TypeCorrect == Spec => []TypeOK
  <1>1. IInv => TypeOK
    BY DEF IInv
  <1> QED
    BY <1>1, Invariance, PTL

\* ShipmentsService never lets more parcels count on a trip than it announced room
\* for, however orders, acceptances, cancellations and expiries interleave.
THEOREM TripNeverOverloaded == Spec => []NeverOverloaded
  <1>1. IInv => NeverOverloaded
    BY DEF IInv
  <1> QED
    BY <1>1, Invariance, PTL

\* Among any number of drivers who accept a parcel the first claim wins: no later
\* step gives the parcel to another.
LEMMA DriverStays ==
    ASSUME IInv, [Next]_vars, NEW s \in Parcels, driver[s] # Nobody
    PROVE  driver'[s] = driver[s]
  <1>1. CASE UNCHANGED driver
    BY <1>1
  <1>2. CASE \E p \in Parcels, chosen \in BOOLEAN : Create(p, chosen)
    BY <1>2 DEF Create, IInv, TypeOK, Fresh
  <1>3. CASE \E c \in Calls : AcceptClaim(c)
    BY <1>3, CallRecord
       DEF AcceptClaim, At, IInv, TypeOK, Fresh, CallOK, WithParcel, Announced, Captured, Workers
  <1>4. \/ UNCHANGED driver
        \/ \E p \in Parcels, chosen \in BOOLEAN : Create(p, chosen)
        \/ \E c \in Calls : AcceptClaim(c)
    BY ZenonT(30) DEF Next, vars, Continue, Start, Journey, WindowPass, HeldPass,
           Pay, Webhook, ClaimAttempt, ClaimPayment, ConfirmPayment, HoldRevenue, Notified,
           CaptureThrows, ResetAttempt, ResetPayment, Accept, ExtendWindow, ExtendUpdate, Clock,
           WindowEnds, GraceEnds, Cancel, CancelClaim, StaffRefunds, Settlement, Refund, Reverse,
           MarkPickupPending, MarkPickedUp, MarkInTransit, MarkDeliveryPending, MarkDelivered,
           Complete, NotDeliveredAnyMore, Advance, ReleaseFunds, ListEnded, RequestExtension,
           ListUnextended, ExpireSearch, ListUnpaid, ExpireUnpaid,
           ListUnreleased, ReleaseLate, ListUnheld, HoldLate, RecoverRefund,
           Die, HandlerDies
  <1> QED
    BY <1>1, <1>2, <1>3, <1>4

\* Of all the drivers that accept a parcel at once the first claim wins, and nothing later
\* gives the parcel to another (ShipmentsService.accept).
THEOREM FirstDriverKeepsIt == Spec => FirstDriverWins
  <1>1. IInv /\ [Next]_vars
        => [\A s \in Parcels : driver[s] # Nobody => driver'[s] = driver[s]]_vars
    BY DriverStays
  <1> QED
    BY <1>1, Invariance, PTL DEF Spec, FirstDriverWins

-----------------------------------------------------------------------------
(* Without the staff: a cancelled parcel stays cancelled, a delivered one  *)
(* stays delivered, money only goes back for the former and is only earned *)
(* for the latter.                                                         *)

\* What a call knows of the parcel it holds.
CallKnows ==
    \A c \in Workers :
        /\ call[c].at = "cancel" => call[c].by = "party"
        /\ call[c].at \in Announced => client[call[c].s] # "none"
        /\ call[c].at = "release" => status[call[c].s] \in Delivered
        /\ call[c].at = "late" => \A s \in call[c].todo : status[s] \in Delivered

MoneyFollows ==
    \A s \in Parcels :
        /\ client[s] = "none" => status[s] \in {"ABSENT", "CREATED", "CANCELLED"}
        /\ client[s] = "refunded" \/ "refund" \in settling[s] \/ "repay" \in settling[s]
              => status[s] = "CANCELLED"
        /\ revenue[s] = "RELEASED" => status[s] \in Delivered

Custody == CallKnows /\ MoneyFollows

\* What no step undoes.
Final ==
    \A s \in Parcels :
        /\ status[s] = "CANCELLED" => status'[s] = "CANCELLED"
        /\ status[s] \in Delivered => status'[s] \in Delivered
        /\ client[s] # "none" => client'[s] # "none"

LEMMA KnowsIsKept ==
    ASSUME IInv, CallKnows, Final, NEW c \in Workers, NEW r \in CallState, Becomes(c, r),
           r.at = "cancel" => r.by = "party",
           r.at \in Announced => r.s \in Parcels /\ client'[r.s] # "none",
           r.at = "release" => r.s \in Parcels /\ status'[r.s] \in Delivered,
           r.at = "late" => \A s \in r.todo : status'[s] \in Delivered
    PROVE  CallKnows'
  <1> SUFFICES ASSUME NEW w \in Workers
               PROVE  /\ call'[w].at = "cancel" => call'[w].by = "party"
                      /\ call'[w].at \in Announced => client'[call'[w].s] # "none"
                      /\ call'[w].at = "release" => status'[call'[w].s] \in Delivered
                      /\ call'[w].at = "late" => \A s \in call'[w].todo : status'[s] \in Delivered
    BY DEF CallKnows
  <1>1. CASE w = c
    <2>1. call'[w] = r
      BY <1>1 DEF IInv, TypeOK, Becomes
    <2> QED
      BY <2>1
  <1>2. CASE w # c
    <2>1. call'[w] = call[w]
      BY <1>2 DEF IInv, TypeOK, Becomes
    <2>2. /\ call[w] \in CallState
          /\ call[w].at \in Announced \cup {"release"} => call[w].s \in Parcels
      BY CallRecord DEF CallOK, WithParcel, Announced, Captured
    <2>3. \A s \in call[w].todo : s \in Parcels
      BY <2>2 DEF CallState
    <2> QED
      BY <2>1, <2>2, <2>3 DEF CallKnows, Final
  <1> QED
    BY <1>1, <1>2

LEMMA InitCustody == Init => Custody
  BY DEF Init, Custody, CallKnows, MoneyFollows, Idle, Announced, Captured

LEMMA Custody_Create ==
    ASSUME IInv, Custody, NEW s \in Parcels, NEW chosen \in BOOLEAN, Create(s, chosen)
    PROVE  Custody'
  <1>1. \A p \in Parcels : status[p] # "ABSENT" => status'[p] = status[p]
    BY DEF Create, SetStatus, IInv, TypeOK
  <1>2. status'[s] = "CREATED" /\ \A p \in Parcels \ {s} : status'[p] = status[p]
    BY DEF Create, SetStatus, IInv, TypeOK
  <1>3. MoneyFollows'
    BY <1>1, <1>2 DEF Create, moneyVars, Custody, MoneyFollows, Delivered
  <1>4. \A c \in Workers : /\ call[c].at = "release" => call[c].s \in Parcels
                           /\ \A p \in call[c].todo : p \in Parcels
    BY CallRecord DEF CallOK, WithParcel, Announced, Captured, CallState
  <1>5. CallKnows'
    BY <1>1, <1>4 DEF Create, moneyVars, Custody, CallKnows, Delivered
  <1> QED
    BY <1>3, <1>5 DEF Custody

LEMMA KnowsWithoutCalls ==
    ASSUME IInv, CallKnows, Final, UNCHANGED call
    PROVE  CallKnows'
  <1>1. \A c \in Workers : /\ call[c].at \in Announced \cup {"release"} => call[c].s \in Parcels
                           /\ \A p \in call[c].todo : p \in Parcels
    BY CallRecord DEF CallOK, WithParcel, Announced, Captured, CallState
  <1> QED
    BY <1>1 DEF CallKnows, Final

LEMMA IdleKnows ==
    ASSUME IInv, CallKnows, Final, NEW c \in Workers, Return(c)
    PROVE  CallKnows'
  BY KnowsIsKept, ReturnIs DEF Idle, Announced, Captured

\* A step of a call, seen without the call: parcel and money.
LEMMA Custody_Calls ==
    ASSUME IInv, Custody, ~StaffDecides, NEW c \in Calls, Continue(c) \/ CaptureThrows(c)
    PROVE  MoneyFollows' /\ Final
  <1>1. call[c] \in CallState /\ (call[c].at \in WithParcel => call[c].s \in Parcels)
    BY CallRecord DEF CallOK, Workers
  <1>2. /\ call[c].at = "cancel" => call[c].by = "party"
        /\ call[c].at \in Announced => client[call[c].s] # "none"
        /\ call[c].at = "release" => status[call[c].s] \in Delivered
    BY DEF Custody, CallKnows, Workers
  <1>3. CASE ConfirmPayment(c)
    BY <1>1, <1>2, <1>3
       DEF ConfirmPayment, Confirmed, SetStatus, Settle, At, WithParcel, Announced, Captured,
           IInv, TypeOK, Custody, MoneyFollows, Final, Delivered
  <1>4. CASE HoldRevenue(c)
    BY <1>4 DEF HoldRevenue, Hold, IInv, TypeOK, Custody, MoneyFollows, Final
  <1>11. CASE \/ ClaimAttempt(c) \/ ClaimPayment(c) \/ Notified(c) \/ CaptureThrows(c)
              \/ ResetAttempt(c) \/ ResetPayment(c)
    <2>1. UNCHANGED <<status, client, revenue, settling>>
      BY <1>11 DEF ClaimAttempt, ClaimPayment, Notified, CaptureThrows, ResetAttempt,
                   ResetPayment, moneyVars
    <2> QED
      BY <2>1 DEF Custody, MoneyFollows, Final
  <1>5. CASE AcceptClaim(c)
    BY <1>1, <1>5
       DEF AcceptClaim, SetStatus, Hold, At, WithParcel, Announced, Captured,
           IInv, TypeOK, Custody, MoneyFollows, Final, Delivered
  <1>6. CASE ExtendUpdate(c)
    BY <1>6 DEF ExtendUpdate, moneyVars, Custody, MoneyFollows, Final
  <1>7. CASE CancelClaim(c)
    BY <1>1, <1>2, <1>7
       DEF CancelClaim, Withdraw, SetStatus, Settle, At, WithParcel, Announced, Captured,
           IInv, TypeOK, Custody, MoneyFollows, Final, Delivered, Cancellable, ByParties
  <1>8. CASE Complete(c)
    BY <1>1, <1>8
       DEF Complete, Advance, SetStatus, moneyVars, At, WithParcel, Announced, Captured,
           IInv, TypeOK, Custody, MoneyFollows, Final, Delivered
  <1>9. CASE NotDeliveredAnyMore(c)
    BY <1>9 DEF NotDeliveredAnyMore, moneyVars, Custody, MoneyFollows, Final
  <1>10. CASE ReleaseFunds(c)
    BY <1>1, <1>2, <1>10
       DEF ReleaseFunds, SettleRevenue, At, WithParcel, Announced, Captured,
           IInv, TypeOK, Custody, MoneyFollows, Final
  <1> QED
    BY <1>3, <1>4, <1>5, <1>6, <1>7, <1>8, <1>9, <1>10, <1>11 DEF Continue

LEMMA Custody_Continue ==
    ASSUME IInv, Custody, ~StaffDecides, NEW c \in Calls, Continue(c) \/ CaptureThrows(c)
    PROVE  Custody'
  <1>1. MoneyFollows' /\ Final /\ CallKnows /\ c \in Workers
    BY Custody_Calls DEF Custody, Workers
  <1>2. CASE Return(c)
    BY <1>1, <1>2, IdleKnows DEF Custody
  <1>3. CASE Complete(c)
    <2> DEFINE r == [call[c] EXCEPT !.at = "release"]
    <2>1. call[c].s \in Parcels /\ call[c] \in CallState
      BY <1>1, <1>3, CallRecord DEF Complete, At, CallOK, WithParcel, Announced, Captured
    <2>2. r \in CallState /\ Becomes(c, r) /\ r.at = "release" /\ r.s = call[c].s
      BY <1>3, <2>1 DEF Complete, GoTo, Becomes, CallState, Location, Announced, Captured
    <2>3. status'[call[c].s] \in Delivered
      BY <1>3, <2>1 DEF Complete, Advance, SetStatus, IInv, TypeOK, Delivered
    <2>4. CallKnows'
      BY <1>1, <2>1, <2>2, <2>3, KnowsIsKept DEF Announced, Captured
    <2> QED
      BY <1>1, <2>4 DEF Custody
  <1>4. CASE call[c].at \in Announced /\ ~Return(c)
    <2>1. call[c] \in CallState /\ call[c].s \in Parcels /\ client[call[c].s] # "none"
      BY <1>1, <1>4, CallRecord DEF CallOK, WithParcel, CallKnows
    <2>2. client'[call[c].s] # "none"
      BY <1>1, <2>1 DEF Final
    <2>3. driver[call[c].s] \in Drivers \cup {Nobody} /\ call[c].at \in WithParcel
      BY <1>4, <2>1 DEF IInv, TypeOK, WithParcel
    <2>4. \/ \E where \in Announced : GoTo(c, where)
          \/ Becomes(c, [call[c] EXCEPT !.at = "confirm", !.d = driver[call[c].s]])
      BY <1>4 DEF Continue, ClaimAttempt, ClaimPayment, ConfirmPayment, ToHold, HoldRevenue,
                  Notified, CaptureThrows, ResetAttempt, ResetPayment, AcceptClaim, ExtendUpdate,
                  CancelClaim, Complete, NotDeliveredAnyMore, ReleaseFunds, At, Announced,
                  Captured, Becomes
    <2>5. \E r \in CallState : Becomes(c, r) /\ r.at \in Announced /\ r.s = call[c].s
      <3>1. CASE \E where \in Announced : GoTo(c, where)
        <4>1. PICK where \in WithParcel \ {"accept", "cancel"} : GoTo(c, where) /\ where \in Announced
          BY <3>1 DEF WithParcel, Announced, Captured
        <4>2. Becomes(c, [call[c] EXCEPT !.at = where]) /\ [call[c] EXCEPT !.at = where] \in CallState
          BY <1>1, <2>3, <4>1, GoToIs
        <4>3. [call[c] EXCEPT !.at = where].at = where /\ [call[c] EXCEPT !.at = where].s = call[c].s
          BY <2>1 DEF CallState
        <4> QED
          BY <4>1, <4>2, <4>3
      <3>2. CASE Becomes(c, [call[c] EXCEPT !.at = "confirm", !.d = driver[call[c].s]])
        <4> DEFINE r == [call[c] EXCEPT !.at = "confirm", !.d = driver[call[c].s]]
        <4>1. "confirm" \in WithParcel \ {"accept", "cancel"} /\ "confirm" \in Announced
          BY DEF WithParcel, Announced, Captured
        <4>2. r \in CallState
          BY <1>1, <2>3, <4>1, GoToIs
        <4>3. r.at = "confirm" /\ r.s = call[c].s
          BY <2>1 DEF CallState
        <4> QED
          BY <3>2, <4>1, <4>2, <4>3
      <3> QED
        BY <2>4, <3>1, <3>2
    <2>6. CallKnows'
      <3>1. PICK r \in CallState : Becomes(c, r) /\ r.at \in Announced /\ r.s = call[c].s
        BY <2>5
      <3>2. r.at \notin {"cancel", "release", "late"}
        BY <3>1 DEF Announced, Captured
      <3> QED
        BY <1>1, <2>1, <2>2, <3>1, <3>2, KnowsIsKept
    <2> QED
      BY <1>1, <2>6 DEF Custody
  <1> QED
    BY <1>2, <1>3, <1>4
       DEF Continue, ClaimAttempt, ClaimPayment, ConfirmPayment, HoldRevenue, Notified,
           CaptureThrows, ResetAttempt, ResetPayment, AcceptClaim, ExtendUpdate, CancelClaim,
           NotDeliveredAnyMore, ReleaseFunds, At, Announced, Captured

LEMMA Custody_Start ==
    ASSUME IInv, Custody, ~StaffDecides, NEW c \in Calls, NEW s \in Parcels, Start(c, s)
    PROVE  Custody'
  <1>1. c \in Workers /\ CallKnows
    BY DEF Workers, Custody
  <1>2. MoneyFollows' /\ Final
    <2>2. CASE MarkDelivered(c, s)
      BY <2>2 DEF MarkDelivered, Advance, SetStatus, moneyVars, IInv, TypeOK, Custody,
                  MoneyFollows, Final, Delivered
    <2>3. CASE UNCHANGED <<status, moneyVars>>
      BY <2>3 DEF moneyVars, Custody, MoneyFollows, Final
    <2> QED
      BY <2>2, <2>3 DEF Start, Webhook, ExtendWindow, Cancel, Accept
  <1>3. \E r \in CallState :
            /\ Becomes(c, r)
            /\ r.at \in {"claimAttempt", "extend", "complete", "cancel", "accept"}
            /\ r.at = "cancel" => r.by = "party"
            /\ r.at = "claimAttempt" => r.s \in Parcels /\ client'[r.s] # "none"
    <2>1. CASE Webhook(c, s)
      <3>1. client'[s] # "none"
        BY <2>1 DEF Webhook, moneyVars
      <3>2. [Idle EXCEPT !.at = "claimAttempt", !.s = s, !.d = Nobody] \in CallState
        BY Records
      <3> QED
        BY <2>1, <3>1, <3>2 DEF Webhook, Begin, Idle
    <2>2. CASE ExtendWindow(c, s)
      <3>1. [Idle EXCEPT !.at = "extend", !.s = s, !.d = Nobody] \in CallState
        BY Records
      <3> QED
        BY <2>2, <3>1 DEF ExtendWindow, Begin, Idle
    <2>3. CASE MarkDelivered(c, s)
      <3>1. [Idle EXCEPT !.at = "complete", !.s = s, !.d = Nobody] \in CallState
        BY Records
      <3> QED
        BY <2>3, <3>1 DEF MarkDelivered, Begin, Idle
    <2>4. CASE \E by \in DOMAIN Cancellable : Cancel(c, s, by)
      <3>1. Cancel(c, s, "party") /\ "party" \in DOMAIN Cancellable
        BY <2>4 DEF Cancel, Cancellable
      <3>2. onTrip[s] \in BOOLEAN
        BY DEF IInv, TypeOK
      <3> QED
        BY <3>1, <3>2, Records DEF Cancel, Idle
    <2>5. CASE \E d \in Drivers, withTrip \in BOOLEAN : Accept(c, s, d, withTrip)
      BY <2>5, Records DEF Accept, Idle
    <2> QED
      BY <2>1, <2>2, <2>3, <2>4, <2>5 DEF Start
  <1>4. CallKnows'
    BY <1>1, <1>2, <1>3, KnowsIsKept DEF Announced, Captured
  <1> QED
    BY <1>2, <1>4 DEF Custody

\* What moves by itself: the journey, the clock, the settlement of a cancellation.
LEMMA Custody_Parcels ==
    ASSUME IInv, Custody, ~StaffDecides, NEW s \in Parcels,
           \/ Pay(s) \/ Journey(s) \/ Clock(s)
           \/ StaffRefunds(s) \/ Settlement(s) \/ HandlerDies(s)
    PROVE  Custody'
  <1>1. UNCHANGED call
    BY DEF Pay, Journey, MarkPickupPending, MarkPickedUp, MarkInTransit, MarkDeliveryPending, Clock,
           WindowEnds, GraceEnds, StaffRefunds, Settlement, Refund, Reverse, RecoverRefund,
           HandlerDies
  <1>2. MoneyFollows' /\ Final
    <2>1. CASE Journey(s)
      BY <2>1 DEF Journey, MarkPickupPending, MarkPickedUp, MarkInTransit, MarkDeliveryPending,
                  Advance, SetStatus, moneyVars, IInv, TypeOK, Custody, MoneyFollows, Final, Delivered
    <2>2. CASE Clock(s)
      BY <2>2 DEF Clock, WindowEnds, GraceEnds, moneyVars, Custody, MoneyFollows, Final
    <2>3. CASE StaffRefunds(s)
      BY <2>3 DEF StaffRefunds
    <2>4. CASE \E what \in {"refund", "repay"} : Refund(s, what)
      <3>1. PICK what \in {"refund", "repay"} : Refund(s, what)
        BY <2>4
      <3>2. status[s] = "CANCELLED" /\ status' = status /\ revenue' = revenue
        BY <3>1 DEF Refund, Custody, MoneyFollows
      <3>3. \A p \in Parcels : /\ client'[p] = client[p] \/ (p = s /\ client'[p] = "refunded")
                               /\ p # s => settling'[p] = settling[p]
                               /\ client[p] # "none" => client'[p] # "none"
        BY <3>1 DEF Refund, IInv, TypeOK
      <3> QED
        BY <3>2, <3>3 DEF Custody, MoneyFollows, Final
    <2>5. CASE Reverse(s)
      BY <2>5 DEF Reverse, SettleRevenue, IInv, TypeOK, Custody, MoneyFollows, Final
    <2>6. CASE RecoverRefund(s)
      BY <2>6 DEF RecoverRefund, Settle, IInv, TypeOK, Custody, MoneyFollows, Final
    <2>7. CASE HandlerDies(s)
      BY <2>7 DEF HandlerDies, IInv, TypeOK, Custody, MoneyFollows, Final
    <2>8. CASE Pay(s)
      BY <2>8 DEF Pay, IInv, TypeOK, Custody, MoneyFollows, Final
    <2> QED
      BY <2>1, <2>2, <2>3, <2>4, <2>5, <2>6, <2>7, <2>8 DEF Settlement
  <1> QED
    BY <1>1, <1>2, KnowsWithoutCalls DEF Custody

\* A job's step: a new list, one parcel of the list, or the end of the pass.
LEMMA Custody_Jobs ==
    ASSUME IInv, Custody, WindowPass \/ HeldPass
    PROVE  Custody'
  <1>1. CallKnows
    BY DEF Custody
  <1>2. \A s \in Parcels : Takes(HeldJob, "late", s) => status[s] \in Delivered
    BY JobsAreWorkers DEF Custody, CallKnows, Takes, At
  <1>3. MoneyFollows' /\ Final
    <2>1. CASE \E s \in Parcels : ExpireSearch(s) \/ ExpireUnpaid(s)
      BY <2>1 DEF ExpireSearch, ExpireUnpaid, Searching, Withdraw, SetStatus, Settle, IInv, TypeOK,
                  Custody, MoneyFollows, Final, Delivered
    <2>2. CASE \E s \in Parcels : ReleaseLate(s) \/ HoldLate(s)
      BY <1>2, <2>2 DEF ReleaseLate, HoldLate, SettleRevenue, Hold, IInv, TypeOK,
                        Custody, MoneyFollows, Final
    <2>3. CASE UNCHANGED <<status, moneyVars>>
      BY <2>3 DEF moneyVars, Custody, MoneyFollows, Final
    <2> QED
      BY <2>1, <2>2, <2>3
         DEF WindowPass, HeldPass, ListEnded, ListUnextended, ListUnpaid, RequestExtension,
             ListUnreleased, ListUnheld
  <1>4. \E j \in {WindowJob, HeldJob}, r \in CallState :
            /\ Becomes(j, r) /\ r.at \in JobPlace
            /\ r.at = "late" => \A s \in r.todo : status'[s] \in Delivered
    <2>2. CASE \E where \in JobPlace \ {"late"}, l \in SUBSET Parcels :
                  List(WindowJob, where, l) \/ List(HeldJob, where, l)
      <3>1. PICK where \in JobPlace \ {"late"}, l \in SUBSET Parcels, j \in {WindowJob, HeldJob} :
                List(j, where, l)
        BY <2>2
      <3> DEFINE r == [Idle EXCEPT !.at = where, !.todo = l]
      <3>2. r \in CallState /\ r.at = where
        BY DEF Idle, CallState, Location, Announced, Captured, JobPlace, Cancellable
      <3> QED
        BY <3>1, <3>2 DEF List
    <2>3. CASE ListUnreleased
      <3> DEFINE l == {s \in Parcels : status[s] \in Delivered /\ revenue[s] = "PENDING"}
                 r == [Idle EXCEPT !.at = "late", !.todo = l]
      <3>1. r \in CallState /\ r.at = "late" /\ r.todo = l
        BY DEF Idle, CallState, Location, Announced, Captured, Cancellable
      <3>2. Becomes(HeldJob, r) /\ status' = status
        BY <2>3 DEF ListUnreleased, List
      <3> QED
        BY <3>1, <3>2 DEF JobPlace
    <2>4. CASE \E j \in {WindowJob, HeldJob}, where \in JobPlace, s \in Parcels : Takes(j, where, s)
      <3>1. PICK j \in {WindowJob, HeldJob}, where \in JobPlace, s \in Parcels : Takes(j, where, s)
        BY <2>4
      <3> DEFINE r == IF call[j].todo = {s} THEN Idle ELSE [call[j] EXCEPT !.todo = @ \ {s}]
      <3>2. j \in Workers /\ call[j] \in CallState
        BY <3>1, JobsAreWorkers, CallRecord
      <3>3. /\ r \in CallState /\ Becomes(j, r) /\ r.at \in {"idle", call[j].at}
            /\ r.todo \in SUBSET call[j].todo
        BY <3>1, <3>2, IdleIsCall DEF CallState, Takes, Becomes, Idle
      <3>4. call[j].at \in JobPlace /\ r.todo \in SUBSET Parcels
        BY <3>1, <3>2, <3>3 DEF Takes, At, CallState
      <3> QED
        BY <1>1, <1>3, <3>2, <3>3, <3>4 DEF CallKnows, Final, JobPlace
    <2> QED
      BY <2>2, <2>3, <2>4
         DEF WindowPass, HeldPass, ListEnded, ListUnextended, ListUnpaid, RequestExtension,
             ExpireSearch, ExpireUnpaid, ListUnreleased, ReleaseLate, ListUnheld, HoldLate,
             JobPlace, Searching
  <1>5. CallKnows'
    BY <1>1, <1>3, <1>4, JobsAreWorkers, KnowsIsKept DEF JobPlace, Announced, Captured
  <1> QED
    BY <1>3, <1>5 DEF Custody

LEMMA NextKeepsCustody ==
    ASSUME IInv, Custody, ~StaffDecides, [Next]_vars
    PROVE  Custody'
  <1>1. CASE \E c \in Workers : Die(c)
    <2>1. PICK c \in Workers : Die(c)
      BY <1>1
    <2>2. MoneyFollows' /\ Final /\ Return(c) /\ CallKnows
      BY <2>1 DEF Die, moneyVars, Custody, MoneyFollows, Final
    <2> QED
      BY <2>2, IdleKnows DEF Custody
  <1>2. CASE UNCHANGED vars
    BY <1>2 DEF vars, moneyVars, Custody, CallKnows, MoneyFollows
  <1> QED
    BY <1>1, <1>2, Custody_Create, Custody_Continue, Custody_Start, Custody_Parcels, Custody_Jobs
       DEF Next

\* As long as the staff decides nothing, who accepted, carries or delivered a parcel does
\* so for a client who was debited and has not got his money back, whatever handleCaptured
\* throws and the catch block of settleTransaction writes over, announced once or twice.
THEOREM EngagedIsPaidFor == ~StaffDecides => (Spec => []EngagedIsPaid)
  <1> SUFFICES ASSUME ~StaffDecides PROVE Spec => []EngagedIsPaid
    OBVIOUS
  <1>1. IInv /\ Custody => EngagedIsPaid
    BY DEF IInv, TypeOK, Custody, MoneyFollows, EngagedIsPaid, WithDriver, Carried, Delivered
  <1>2. IInv /\ Custody /\ [Next]_vars => Custody'
    BY NextKeepsCustody
  <1> QED
    BY <1>1, <1>2, InitCustody, Invariance, PTL DEF Spec

-----------------------------------------------------------------------------
(* Delivery.tla                                                             *)

goodsBar == [s \in Parcels |-> Goods(s)]
moneyBar == [s \in Parcels |-> Money(s)]

LEMMA Abstract ==
    ASSUME NEW s \in Parcels
    PROVE  /\ status[s] \in Carried => Goods(s) = "driver"
           /\ status[s] \in Delivered => Goods(s) = "recipient"
           /\ status[s] = "CANCELLED" => Goods(s) = "withdrawn"
           /\ status[s] \notin Carried \cup Delivered \cup {"CANCELLED"} => Goods(s) = "sender"
           /\ revenue[s] = "RELEASED" /\ client[s] = "debited" => Money(s) = "earned"
           /\ client[s] = "refunded" => Money(s) = "returned"
           /\ client[s] = "none" => Money(s) = "unpaid"
           /\ revenue[s] # "RELEASED" /\ client[s] = "debited" => Money(s) = "kept"
  BY DEF Goods, Money, Carried, Delivered

LEMMA AbstractNext ==
    ASSUME NEW s \in Parcels
    PROVE  /\ status'[s] \in Carried => Goods(s)' = "driver"
           /\ status'[s] \in Delivered => Goods(s)' = "recipient"
           /\ status'[s] = "CANCELLED" => Goods(s)' = "withdrawn"
           /\ status'[s] \notin Carried \cup Delivered \cup {"CANCELLED"} => Goods(s)' = "sender"
           /\ revenue'[s] = "RELEASED" /\ client'[s] = "debited" => Money(s)' = "earned"
           /\ client'[s] = "refunded" => Money(s)' = "returned"
           /\ client'[s] = "none" => Money(s)' = "unpaid"
           /\ revenue'[s] # "RELEASED" /\ client'[s] = "debited" => Money(s)' = "kept"
  BY DEF Goods, Money, Carried, Delivered

\* Where nothing of a parcel changes, nothing of its image does.
LEMMA SameImage ==
    ASSUME NEW s \in Parcels
    PROVE  /\ status'[s] = status[s] => Goods(s)' = Goods(s)
           /\ client'[s] = client[s] /\ revenue'[s] = revenue[s] => Money(s)' = Money(s)
  BY DEF Goods, Money

\* One parcel's goods move, or one parcel's money, along Delivery's arrows.
GoodsMove(s) ==
    /\ UNCHANGED <<client, revenue>>
    /\ \E to \in ShipmentStatus : status' = [status EXCEPT ![s] = to] /\
          \/ {status[s], to} \cap (Carried \cup Delivered \cup {"CANCELLED"}) = {}
          \/ status[s] \in Carried /\ to \in Carried
          \/ status[s] \in Delivered /\ to \in Delivered
          \/ status[s] \in ByParties /\ to \in Carried
          \/ status[s] \in Carried /\ to \in Delivered
          \/ status[s] \in ByParties /\ to = "CANCELLED"

MoneyMove(s) ==
    /\ UNCHANGED status
    /\ \/ /\ client[s] = "none" /\ client' = [client EXCEPT ![s] = "debited"]
          /\ UNCHANGED revenue
       \/ /\ client[s] = "debited" /\ client' = [client EXCEPT ![s] = "refunded"]
          /\ status[s] = "CANCELLED"
          /\ UNCHANGED revenue
       \/ /\ revenue[s] = "PENDING" /\ revenue' = [revenue EXCEPT ![s] = "RELEASED"]
          /\ status[s] \in Delivered
          /\ UNCHANGED client
       \/ /\ \E to \in {"PENDING", "REVERSED"} : revenue' = [revenue EXCEPT ![s] = to]
          /\ revenue[s] # "RELEASED"
          /\ UNCHANGED client

LEMMA GoodsMoveImplements ==
    ASSUME IInv, NEW s \in Parcels, GoodsMove(s)
    PROVE  [D!Next]_(D!dvars)
  <1>1. moneyBar' = moneyBar
    BY SameImage DEF GoodsMove, moneyBar
  <1>2. PICK to \in ShipmentStatus :
            /\ status' = [status EXCEPT ![s] = to]
            /\ \/ {status[s], to} \cap (Carried \cup Delivered \cup {"CANCELLED"}) = {}
               \/ status[s] \in Carried /\ to \in Carried
               \/ status[s] \in Delivered /\ to \in Delivered
               \/ status[s] \in ByParties /\ to \in Carried
               \/ status[s] \in Carried /\ to \in Delivered
               \/ status[s] \in ByParties /\ to = "CANCELLED"
    BY DEF GoodsMove
  <1>3. /\ status'[s] = to
        /\ \A p \in Parcels \ {s} : status'[p] = status[p]
    BY <1>2 DEF IInv, TypeOK
  <1>4. goodsBar' = [goodsBar EXCEPT ![s] = Goods(s)']
    BY <1>3, SameImage DEF goodsBar
  <1>5. goodsBar[s] = Goods(s)
    BY DEF goodsBar
  <1>6. \/ Goods(s)' = Goods(s)
        \/ Goods(s) = "sender" /\ Goods(s)' \in {"driver", "withdrawn"}
        \/ Goods(s) = "driver" /\ Goods(s)' = "recipient"
    <2>1. status[s] \in ByParties => status[s] \notin Carried \cup Delivered \cup {"CANCELLED"}
      BY DEF ByParties, Carried, Delivered
    <2> QED
      BY <1>2, <1>3, <2>1, Abstract, AbstractNext
  <1>7. CASE Goods(s)' = Goods(s)
    <2>1. goodsBar' = goodsBar
      BY <1>4, <1>7 DEF goodsBar
    <2> QED
      BY <1>1, <2>1 DEF D!dvars, goodsBar, moneyBar
  <1>8. CASE Goods(s)' # Goods(s)
    <2>1. D!PickUp(s) \/ D!HandOver(s) \/ D!Withdraw(s)
      BY <1>1, <1>4, <1>5, <1>6, <1>8
         DEF D!PickUp, D!HandOver, D!Withdraw, D!Move, goodsBar, moneyBar
    <2> QED
      BY <2>1 DEF D!Next
  <1> QED
    BY <1>7, <1>8

LEMMA MoneyMoveImplements ==
    ASSUME IInv, Custody, NEW s \in Parcels, MoneyMove(s)
    PROVE  [D!Next]_(D!dvars)
  <1>1. goodsBar' = goodsBar
    BY SameImage DEF MoneyMove, goodsBar
  <1>2. \A p \in Parcels \ {s} : client'[p] = client[p] /\ revenue'[p] = revenue[p]
    BY DEF MoneyMove, IInv, TypeOK
  <1>3. moneyBar' = [moneyBar EXCEPT ![s] = Money(s)']
    BY <1>2, SameImage DEF moneyBar
  <1>4. moneyBar[s] = Money(s) /\ goodsBar[s] = Goods(s)
    BY DEF moneyBar, goodsBar
  <1>5. /\ client[s] \in {"none", "debited", "refunded"}
        /\ client[s] = "none" => revenue[s] # "RELEASED"
        /\ status[s] \in Delivered => client[s] = "debited"
        /\ status[s] = "CANCELLED" => revenue[s] # "RELEASED"
    BY DEF IInv, TypeOK, Custody, MoneyFollows, Delivered
  <1>6. \/ Money(s)' = Money(s)
        \/ Money(s) = "unpaid" /\ Money(s)' = "kept"
        \/ Money(s) = "kept" /\ Money(s)' = "returned" /\ Goods(s) = "withdrawn"
        \/ Money(s) = "kept" /\ Money(s)' = "earned" /\ Goods(s) = "recipient"
    <2>1. CASE client[s] = "none" /\ client' = [client EXCEPT ![s] = "debited"] /\ UNCHANGED revenue
      <3>1. client'[s] = "debited" /\ revenue'[s] # "RELEASED"
        BY <1>5, <2>1 DEF IInv, TypeOK
      <3> QED
        BY <2>1, <3>1, Abstract, AbstractNext
    <2>2. CASE /\ client[s] = "debited" /\ client' = [client EXCEPT ![s] = "refunded"]
               /\ status[s] = "CANCELLED" /\ UNCHANGED revenue
      <3>1. client'[s] = "refunded" /\ revenue[s] # "RELEASED"
        BY <1>5, <2>2 DEF IInv, TypeOK
      <3> QED
        BY <2>2, <3>1, Abstract, AbstractNext
    <2>3. CASE /\ revenue[s] = "PENDING" /\ revenue' = [revenue EXCEPT ![s] = "RELEASED"]
               /\ status[s] \in Delivered /\ UNCHANGED client
      <3>1. revenue'[s] = "RELEASED" /\ client[s] = "debited" /\ client'[s] = "debited"
        BY <1>5, <2>3 DEF IInv, TypeOK
      <3> QED
        BY <2>3, <3>1, Abstract, AbstractNext
    <2>4. CASE /\ \E to \in {"PENDING", "REVERSED"} : revenue' = [revenue EXCEPT ![s] = to]
               /\ revenue[s] # "RELEASED" /\ UNCHANGED client
      <3>1. revenue'[s] # "RELEASED" /\ client'[s] = client[s]
        BY <2>4 DEF IInv, TypeOK
      <3> QED
        BY <1>5, <2>4, <3>1, Abstract, AbstractNext
    <2> QED
      BY <2>1, <2>2, <2>3, <2>4 DEF MoneyMove
  <1>7. CASE Money(s)' = Money(s)
    <2>1. moneyBar' = moneyBar
      BY <1>3, <1>7 DEF moneyBar
    <2> QED
      BY <1>1, <2>1 DEF D!dvars, goodsBar, moneyBar
  <1>8. CASE Money(s)' # Money(s)
    <2>1. D!Pay(s) \/ D!Earn(s) \/ D!GiveBack(s)
      BY <1>1, <1>3, <1>4, <1>6, <1>8
         DEF D!Pay, D!Earn, D!GiveBack, D!Transfer, goodsBar, moneyBar
    <2> QED
      BY <2>1 DEF D!Next
  <1> QED
    BY <1>7, <1>8

LEMMA Unmoved ==
    ASSUME UNCHANGED <<status, client, revenue>>
    PROVE  [D!Next]_(D!dvars)
  BY SameImage DEF D!dvars

\* An acceptance moves the parcel and its revenue, and neither image.
LEMMA AcceptanceIsUnmoved ==
    ASSUME IInv, Custody, NEW s \in Parcels, status[s] = "SEARCHING_DRIVER",
           SetStatus(s, "DRIVER_ASSIGNED"), Hold(s), UNCHANGED client
    PROVE  [D!Next]_(D!dvars)
  <1>1. /\ status'[s] = "DRIVER_ASSIGNED" /\ client'[s] = client[s]
        /\ revenue[s] # "RELEASED" /\ revenue'[s] # "RELEASED"
        /\ client[s] \in {"none", "debited", "refunded"}
    BY DEF SetStatus, Hold, IInv, TypeOK, Custody, MoneyFollows, Delivered
  <1>2. Goods(s)' = Goods(s) /\ Money(s)' = Money(s)
    BY <1>1, Abstract, AbstractNext DEF Carried, Delivered
  <1>3. \A p \in Parcels \ {s} : /\ status'[p] = status[p] /\ revenue'[p] = revenue[p]
                                 /\ client'[p] = client[p]
    BY DEF SetStatus, Hold, IInv, TypeOK
  <1>4. \A p \in Parcels : Goods(p)' = Goods(p) /\ Money(p)' = Money(p)
    BY <1>2, <1>3, SameImage
  <1> QED
    BY <1>4 DEF D!dvars

LEMMA ContinueImplements ==
    ASSUME IInv, Custody, ~StaffDecides, NEW c \in Calls, Continue(c) \/ CaptureThrows(c)
    PROVE  [D!Next]_(D!dvars)
  <1> DEFINE s == call[c].s
  <1>1. call[c].at \in WithParcel => s \in Parcels
    BY CallRecord DEF CallOK, Workers
  <1>2. /\ call[c].at = "cancel" => call[c].by = "party"
        /\ call[c].at = "release" => status[s] \in Delivered
    BY DEF Custody, CallKnows, Workers
  <1>3. CASE ConfirmPayment(c)
    <2>1. s \in Parcels
      BY <1>1, <1>3 DEF ConfirmPayment, At, WithParcel, Announced, Captured
    <2>2. GoodsMove(s) \/ UNCHANGED <<status, client, revenue>>
      BY <1>3, <2>1 DEF ConfirmPayment, Confirmed, SetStatus, GoodsMove, ShipmentStatus,
                        ByParties, Carried, Delivered
    <2> QED
      BY <2>1, <2>2, GoodsMoveImplements, Unmoved
  <1>4. CASE HoldRevenue(c)
    <2>1. UNCHANGED status /\ UNCHANGED client
      BY <1>4 DEF HoldRevenue
    <2>2. s \in Parcels
      BY <1>1, <1>4 DEF HoldRevenue, At, WithParcel, Announced, Captured
    <2>3. revenue[s] = "NONE" => MoneyMove(s)
      BY <1>4, <2>1 DEF HoldRevenue, Hold, MoneyMove
    <2>4. revenue[s] # "NONE" => UNCHANGED revenue
      BY <1>4, <2>2 DEF HoldRevenue, Hold, IInv, TypeOK
    <2> QED
      BY <2>1, <2>2, <2>3, <2>4, MoneyMoveImplements, Unmoved
  <1>5. CASE AcceptClaim(c)
    <2>1. s \in Parcels
      BY <1>1, <1>5 DEF AcceptClaim, At, WithParcel, Announced, Captured
    <2>2. \/ UNCHANGED <<status, client, revenue>>
          \/ /\ status[s] = "SEARCHING_DRIVER" /\ SetStatus(s, "DRIVER_ASSIGNED")
             /\ Hold(s) /\ UNCHANGED client
      BY <1>5 DEF AcceptClaim
    <2> QED
      BY <2>1, <2>2, AcceptanceIsUnmoved, Unmoved
  <1>6. CASE CancelClaim(c)
    <2>1. s \in Parcels /\ call[c].by = "party"
      BY <1>1, <1>2, <1>6 DEF CancelClaim, At, WithParcel, Announced, Captured
    <2>2. GoodsMove(s) \/ UNCHANGED <<status, client, revenue>>
      BY <1>6, <2>1 DEF CancelClaim, Withdraw, SetStatus, GoodsMove, Cancellable, ShipmentStatus
    <2> QED
      BY <2>1, <2>2, GoodsMoveImplements, Unmoved
  <1>7. CASE Complete(c)
    <2>1. s \in Parcels
      BY <1>1, <1>7 DEF Complete, At, WithParcel, Announced, Captured
    <2>2. GoodsMove(s)
      BY <1>7 DEF Complete, Advance, SetStatus, moneyVars, GoodsMove, ShipmentStatus, Delivered
    <2> QED
      BY <2>1, <2>2, GoodsMoveImplements
  <1>8. CASE ReleaseFunds(c)
    <2>1. s \in Parcels /\ status[s] \in Delivered
      BY <1>1, <1>2, <1>8 DEF ReleaseFunds, At, WithParcel, Announced, Captured
    <2>2. MoneyMove(s) \/ UNCHANGED <<status, client, revenue>>
      BY <1>8, <2>1 DEF ReleaseFunds, SettleRevenue, MoneyMove, IInv, TypeOK
    <2> QED
      BY <2>1, <2>2, MoneyMoveImplements, Unmoved
  <1>9. CASE \/ ExtendUpdate(c) \/ NotDeliveredAnyMore(c) \/ ClaimAttempt(c) \/ ClaimPayment(c)
             \/ Notified(c) \/ CaptureThrows(c) \/ ResetAttempt(c) \/ ResetPayment(c)
    BY <1>9, Unmoved DEF ExtendUpdate, NotDeliveredAnyMore, ClaimAttempt, ClaimPayment, Notified,
                         CaptureThrows, ResetAttempt, ResetPayment, moneyVars
  <1> QED
    BY <1>3, <1>4, <1>5, <1>6, <1>7, <1>8, <1>9 DEF Continue

LEMMA StartImplements ==
    ASSUME IInv, Custody, NEW c \in Calls, NEW s \in Parcels, Start(c, s)
    PROVE  [D!Next]_(D!dvars)
  <1>2. CASE MarkDelivered(c, s)
    <2>1. GoodsMove(s)
      BY <1>2 DEF MarkDelivered, Advance, SetStatus, moneyVars, GoodsMove, ShipmentStatus, Carried,
                  Delivered
    <2> QED
      BY <2>1, GoodsMoveImplements
  <1>3. CASE UNCHANGED <<status, moneyVars>>
    BY <1>3, Unmoved DEF moneyVars
  <1> QED
    BY <1>2, <1>3 DEF Start, Webhook, ExtendWindow, Cancel, Accept

LEMMA ParcelsImplement ==
    ASSUME IInv, Custody, ~StaffDecides, NEW s \in Parcels,
           \/ \E chosen \in BOOLEAN : Create(s, chosen)
           \/ Pay(s) \/ Journey(s) \/ Clock(s)
           \/ StaffRefunds(s) \/ Settlement(s) \/ HandlerDies(s)
    PROVE  [D!Next]_(D!dvars)
  <1>1. CASE \E chosen \in BOOLEAN : Create(s, chosen)
    <2>1. GoodsMove(s)
      BY <1>1 DEF Create, SetStatus, moneyVars, GoodsMove, ShipmentStatus, ByParties, Carried,
                  Delivered
    <2> QED
      BY <2>1, GoodsMoveImplements
  <1>2. CASE Journey(s)
    <2>1. GoodsMove(s)
      BY <1>2 DEF Journey, MarkPickupPending, MarkPickedUp, MarkInTransit, MarkDeliveryPending,
                  Advance, SetStatus, moneyVars, GoodsMove, ShipmentStatus, ByParties, Carried,
                  Delivered
    <2> QED
      BY <2>1, GoodsMoveImplements
  <1>3. CASE \E what \in {"refund", "repay"} : Refund(s, what)
    <2>1. MoneyMove(s) \/ UNCHANGED <<status, client, revenue>>
      BY <1>3 DEF Refund, Refundable, MoneyMove, Custody, MoneyFollows
    <2> QED
      BY <2>1, MoneyMoveImplements, Unmoved
  <1>4. CASE Reverse(s)
    <2>1. MoneyMove(s) \/ UNCHANGED <<status, client, revenue>>
      BY <1>4 DEF Reverse, SettleRevenue, MoneyMove, IInv, TypeOK
    <2> QED
      BY <2>1, MoneyMoveImplements, Unmoved
  <1>5. CASE Clock(s) \/ StaffRefunds(s) \/ RecoverRefund(s) \/ HandlerDies(s)
    BY <1>5, Unmoved
       DEF Clock, WindowEnds, GraceEnds, StaffRefunds, RecoverRefund, HandlerDies, moneyVars
  <1>6. CASE Pay(s)
    <2>1. MoneyMove(s)
      BY <1>6 DEF Pay, MoneyMove
    <2> QED
      BY <2>1, MoneyMoveImplements
  <1> QED
    BY <1>1, <1>2, <1>3, <1>4, <1>5, <1>6 DEF Settlement

LEMMA JobsImplement ==
    ASSUME IInv, Custody, WindowPass \/ HeldPass
    PROVE  [D!Next]_(D!dvars)
  <1>1. CASE \E s \in Parcels : ExpireSearch(s) \/ ExpireUnpaid(s)
    <2>1. \E s \in Parcels : GoodsMove(s) \/ UNCHANGED <<status, client, revenue>>
      BY <1>1 DEF ExpireSearch, ExpireUnpaid, Searching, Withdraw, SetStatus, GoodsMove,
                  ShipmentStatus, ByParties
    <2> QED
      BY <2>1, GoodsMoveImplements, Unmoved
  <1>2. CASE \E s \in Parcels : ReleaseLate(s) \/ HoldLate(s)
    <2>1. PICK s \in Parcels : ReleaseLate(s) \/ HoldLate(s)
      BY <1>2
    <2>2. ReleaseLate(s) => status[s] \in Delivered
      BY <2>1, JobsAreWorkers DEF ReleaseLate, Takes, At, Custody, CallKnows
    <2>3. MoneyMove(s) \/ UNCHANGED <<status, client, revenue>>
      BY <2>1, <2>2 DEF ReleaseLate, HoldLate, SettleRevenue, Hold, MoneyMove, IInv, TypeOK
    <2> QED
      BY <2>3, MoneyMoveImplements, Unmoved
  <1>3. CASE UNCHANGED <<status, moneyVars>>
    BY <1>3, Unmoved DEF moneyVars
  <1> QED
    BY <1>1, <1>2, <1>3
       DEF WindowPass, HeldPass, ListEnded, ListUnextended, ListUnpaid, RequestExtension,
           ListUnreleased, ListUnheld

\* As long as the staff decides nothing, parcels and money follow Delivery.tla: the
\* driver earns for delivered parcels only, the client gets his money back for
\* withdrawn ones only, and no parcel does both.
THEOREM ShipmentsImplementDelivery == ~StaffDecides => (Spec => ImplementsDelivery)
  <1> SUFFICES ASSUME ~StaffDecides PROVE Spec => ImplementsDelivery
    OBVIOUS
  <1>1. Init => D!Init
    BY DEF Init, D!Init, Goods, Money, Carried, Delivered
  <1>2. IInv /\ Custody /\ [Next]_vars => [D!Next]_(D!dvars)
    <2> SUFFICES ASSUME IInv, Custody, [Next]_vars PROVE [D!Next]_(D!dvars)
      OBVIOUS
    <2>1. CASE UNCHANGED vars
      BY <2>1, Unmoved DEF vars, moneyVars
    <2>2. CASE \E c \in Workers : Die(c)
      BY <2>2, Unmoved DEF Die, moneyVars
    <2> QED
      BY <2>1, <2>2, ContinueImplements, StartImplements, ParcelsImplement, JobsImplement DEF Next
  <1>3. IInv /\ Custody /\ [Next]_vars => Custody'
    BY NextKeepsCustody
  <1> QED
    BY <1>1, <1>2, <1>3, InitCustody, Invariance, PTL DEF Spec, ImplementsDelivery, D!Spec
=============================================================================
