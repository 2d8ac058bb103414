----------------------------- MODULE MobileProofs -----------------------------
(***************************************************************************)
(* The safety half of KeepsPromise, for every number of orders and every   *)
(* number of calls in flight: each step of the page, of the service or of  *)
(* the network is a step of Purchase or changes nothing of it.  The        *)
(* invariant says what an old snapshot is still good for: a bill that was  *)
(* fixed when it was taken is the bill of the row now, and a payment that  *)
(* is in flight carries an agreement to it.                                *)
(***************************************************************************)
EXTENDS MobileOrder, WellFoundedInduction, TLAPS

Fixed == {"pending_payment", "completed"}

\* The rows of the service, and what the customer has agreed to.
RowsTyped ==
  /\ order \in [Orders -> [status : {"none", "cancelled"} \cup Unresolved \cup Fixed,
                           amount : Amounts \cup {0}]]
  /\ \A o \in Orders : order[o].status \in Fixed => order[o].amount \in Amounts

AgreedToBill ==
  /\ agreed \in [Orders -> Amounts \cup {None}]
  /\ \A o \in Orders : agreed[o] # None =>
       order[o].status \in Fixed /\ agreed[o] = order[o].amount

\* A snapshot, however old: a bill in it is the bill.
Truthful(x, rows) ==
  /\ x.id \in Orders
  /\ x.status \in Fixed => rows[x.id].status \in Fixed /\ rows[x.id].amount = x.amount

Snapshots == [id : Orders, status : {"none", "cancelled"} \cup Unresolved \cup Fixed,
              amount : Amounts \cup {0}]

CallRow == [op : {"none", "reserve", "start", "stop", "pay", "get", "list"},
            id : Orders \cup {None},
            by : {"nobody", "reserve", "stop", "row", "poll", "list"},
            own : BOOLEAN, stage : {"idle", "sent", "answered", "failed"},
            rows : SUBSET Snapshots]

\* What a call in flight carries: snapshots, and its customer's agreement.
CallTrue(x, rows, agreements) ==
  /\ \A y \in x.rows : Truthful(y, rows)
  /\ x.op \in {"start", "stop", "pay", "get"} => x.id \in Orders
  /\ x.op = "pay" => agreements[x.id] # None

MobileInv ==
  /\ RowsTyped /\ AgreedToBill
  /\ activeOrder # NoOrder => activeOrder \in Snapshots /\ Truthful(activeOrder, order)
  /\ billed \subseteq Orders
  /\ call \in [Calls -> CallRow]
  /\ \A c \in Calls : CallTrue(call[c], order, agreed)
-----------------------------------------------------------------------------
(* What the rows and the agreements of the customer may do in a step. *)

\* A bill that was fixed stays.
FixedKept ==
  \A o \in Orders : order[o].status \in Fixed =>
    order'[o].status \in Fixed /\ order'[o].amount = order[o].amount

\* An agreement that was made stays.
AgreementsKept == \A o \in Orders : agreed[o] # None => agreed'[o] # None

Facts == RowsTyped' /\ AgreedToBill' /\ FixedKept /\ AgreementsKept

\* Nothing of the order or of the agreements changes.
LEMMA Unmoved ==
  ASSUME MobileInv, UNCHANGED <<order, agreed>>
  PROVE  Facts /\ UNCHANGED Promise!vars
BY DEF MobileInv, RowsTyped, AgreedToBill, Facts, FixedKept, AgreementsKept, Promise!vars

\* The customer agrees to the bill that a snapshot shows.
LEMMA Agrees ==
  ASSUME MobileInv, UNCHANGED order, NEW x \in Snapshots, Truthful(x, order),
         x.status = "pending_payment", agreed' = [agreed EXCEPT ![x.id] = x.amount]
  PROVE  Facts /\ Promise!Next /\ agreed'[x.id] # None
<1>1. /\ x.id \in Orders /\ order[x.id].status \in Fixed /\ order[x.id].amount = x.amount
      /\ x.amount \in Amounts
  BY DEF Truthful, Fixed, MobileInv, RowsTyped
<1>2. /\ agreed \in [Orders -> Amounts \cup {None}]
      /\ agreed'[x.id] = x.amount /\ x.amount # None
      /\ \A o \in Orders : o # x.id => agreed'[o] = agreed[o]
  BY <1>1, MobileAssumption DEF MobileInv, AgreedToBill
<1>3. Facts
  <2>1. agreed' \in [Orders -> Amounts \cup {None}]
    BY <1>1, <1>2
  <2> QED
    BY <1>1, <1>2, <2>1 DEF MobileInv, RowsTyped, AgreedToBill, Facts, FixedKept, AgreementsKept
<1>4. Promise!Agree(x.id)
  BY <1>1, <1>2 DEF Promise!Agree, Fixed
<1> QED
  BY <1>1, <1>2, <1>3, <1>4 DEF Promise!Next

\* The moves of an order, as the service makes them.
Move(o, status, amount) ==
  /\ Set(o, status, amount) /\ UNCHANGED agreed
  /\ \/ /\ order[o].status = "none" /\ status = "reserved" /\ amount = 0
        /\ \A p \in Orders : order[p].status \notin Unresolved
     \/ order[o].status = "reserved" /\ status \in {"charging", "cancelled"} /\ amount = 0
     \/ order[o].status = "charging" /\ status = "pending_payment" /\ amount \in Amounts
     \/ /\ order[o].status = "pending_payment" /\ status = "completed"
        /\ amount = order[o].amount /\ agreed[o] # None

\* A move of the server is a step of the promise, and what was agreed stays agreed.
LEMMA Moves ==
  ASSUME MobileInv, NEW o \in Orders, NEW status, NEW amount, Move(o, status, amount)
  PROVE  Facts /\ Promise!Next
<1> DEFINE phase  == [p \in Orders |-> order[p].status]
           phase2 == [p \in Orders |-> order'[p].status]
           bill   == [p \in Orders |-> IF order[p].status \in {"pending_payment", "completed"}
                                       THEN order[p].amount ELSE None]
           bill2  == [p \in Orders |-> IF order'[p].status \in {"pending_payment", "completed"}
                                       THEN order'[p].amount ELSE None]
<1>1. /\ order'[o].status = status /\ order'[o].amount = amount
      /\ \A p \in Orders : p # o => order'[p] = order[p]
  BY DEF Move, Set, MobileInv, RowsTyped
<1>2. /\ phase2 = [phase EXCEPT ![o] = status] /\ phase[o] = order[o].status
      /\ \A p \in Orders : phase[p] = order[p].status
  BY <1>1
<1>3. status \notin Fixed => bill2 = bill
  <2> SUFFICES ASSUME status \notin Fixed, NEW p \in Orders PROVE bill2[p] = bill[p]
    OBVIOUS
  <2> QED
    BY <1>1 DEF Move, Fixed
<1>4. status = "pending_payment" => bill2 = [bill EXCEPT ![o] = amount]
  BY <1>1
<1>5. status = "completed" => bill2 = bill /\ agreed[o] = bill[o]
  BY <1>1 DEF Move, MobileInv, AgreedToBill
<1> HIDE DEF phase, phase2, bill, bill2
<1>6. Promise!Next
  <2>1. CASE order[o].status = "none"
    <3>1. Promise!Place(o)
      BY <1>2, <1>3, <2>1 DEF Move, Promise!Place, Promise!Open, Unresolved, Fixed,
                             phase, phase2, bill, bill2
    <3> QED
      BY <3>1 DEF Promise!Next
  <2>2. CASE order[o].status = "reserved"
    <3>1. Promise!Begin(o) \/ Promise!GiveUp(o)
      BY <1>2, <1>3, <2>2 DEF Move, Promise!Begin, Promise!GiveUp, Fixed,
                              phase, phase2, bill, bill2
    <3> QED
      BY <3>1 DEF Promise!Next
  <2>3. CASE order[o].status = "charging"
    <3>1. Promise!Invoice(o)
      BY <1>2, <1>4, <2>3 DEF Move, Promise!Invoice, phase, phase2, bill, bill2
    <3> QED
      BY <3>1 DEF Promise!Next
  <2>4. CASE order[o].status = "pending_payment"
    <3>1. Promise!Pay(o)
      BY <1>2, <1>5, <2>4 DEF Move, Promise!Pay, phase, phase2, bill, bill2
    <3> QED
      BY <3>1 DEF Promise!Next
  <2> QED
    BY <2>1, <2>2, <2>3, <2>4 DEF Move
<1>7. Facts
  <2>1. RowsTyped'
    <3>1. [status |-> status, amount |-> amount]
            \in [status : {"none", "cancelled"} \cup Unresolved \cup Fixed, amount : Amounts \cup {0}]
      BY DEF Move, MobileInv, RowsTyped, Unresolved, Fixed
    <3>2. status \in Fixed => amount \in Amounts
      BY DEF Move, MobileInv, RowsTyped, Fixed
    <3> QED
      BY <1>1, <3>1, <3>2 DEF Move, Set, MobileInv, RowsTyped
  <2>2. FixedKept
    BY <1>1 DEF Move, FixedKept, Fixed
  <2>3. AgreedToBill'
    BY <2>2 DEF Move, MobileInv, AgreedToBill, FixedKept
  <2> QED
    BY <2>1, <2>2, <2>3 DEF Facts, AgreementsKept, Move
<1> QED
  BY <1>6, <1>7

\* Snapshots and calls stay good.
LEMMA StaysTrue ==
  ASSUME Facts
  PROVE  /\ \A x : Truthful(x, order) => Truthful(x, order')
         /\ \A x : CallTrue(x, order, agreed) => CallTrue(x, order', agreed')
BY DEF Facts, FixedKept, AgreementsKept, Truthful, CallTrue

\* The page and the calls after a step that keeps the facts.
LEMMA Kept ==
  ASSUME MobileInv, Facts,
         \/ UNCHANGED activeOrder
         \/ activeOrder' = NoOrder
         \/ activeOrder' \in Snapshots /\ Truthful(activeOrder', order),
         billed' \subseteq Orders,
         call' \in [Calls -> CallRow],
         \A c \in Calls : \/ CallTrue(call'[c], order, agreed)
                          \/ CallTrue(call'[c], order', agreed')
  PROVE  MobileInv'
<1>1. \A c \in Calls : CallTrue(call'[c], order', agreed')
  BY StaysTrue
<1>2. activeOrder' # NoOrder => activeOrder' \in Snapshots /\ Truthful(activeOrder', order')
  BY StaysTrue DEF MobileInv
<1> QED
  BY <1>1, <1>2 DEF MobileInv, Facts
-----------------------------------------------------------------------------
(* The calls. *)

\* One call changes.
LEMMA OneCall ==
  ASSUME MobileInv, Facts,
         \/ UNCHANGED activeOrder
         \/ activeOrder' = NoOrder
         \/ activeOrder' \in Snapshots /\ Truthful(activeOrder', order),
         billed' \subseteq Orders,
         NEW c \in Calls, NEW y \in CallRow, call' = [call EXCEPT ![c] = y],
         CallTrue(y, order, agreed) \/ CallTrue(y, order', agreed')
  PROVE  MobileInv'
<1>1. /\ call \in [Calls -> CallRow] /\ \A d \in Calls : CallTrue(call[d], order, agreed)
  BY DEF MobileInv
<1>2. call' \in [Calls -> CallRow] /\ \A d \in Calls : call'[d] = IF d = c THEN y ELSE call[d]
  BY <1>1
<1> QED
  BY <1>1, <1>2, Kept

\* Of the free places one is the first.
LEMMA FirstFree ==
  ASSUME NEW S \in SUBSET Nat, S # {}
  PROVE  \E c \in S : \A d \in S : c <= d
<1> DEFINE R == OpToRel(<, Nat)
<1>1. PICK c \in S : \A d \in S : ~(<<d, c>> \in R)
  <2> HIDE DEF R
  <2>1. IsWellFoundedOn(R, Nat)
    BY NatLessThanWellFounded DEF R
  <2> QED
    BY <2>1, WFMin
<1>2. \A d \in S : d < c => <<d, c>> \in R
  BY DEF OpToRel
<1> HIDE DEF R
<1>3. \A d \in S : ~(d < c)
  BY <1>1, <1>2
<1>4. c \in Nat /\ \A d \in S : d \in Nat
  OBVIOUS
<1>5. \A d \in S : c <= d
  BY <1>3, <1>4
<1> QED
  BY <1>5

\* A call is put in flight in a free place.
LEMMA SendIs ==
  ASSUME NEW op, NEW id, NEW by, Send(op, id, by)
  PROVE  \E c \in Calls : call' = [call EXCEPT ![c] = Sent(op, id, by)]
<1> DEFINE first == CHOOSE c \in Free : \A d \in Free : c <= d
<1>1. Free # {} /\ Free \subseteq Calls /\ Free \subseteq Nat
  BY DEF Send, Free, Calls
<1>2. \E c \in Free : \A d \in Free : c <= d
  BY <1>1, FirstFree
<1>3. first \in Free
  BY <1>2
<1> QED
  BY <1>1, <1>3 DEF Send

\* What one step owes: the invariant, and no more than Purchase allows.
Owed == MobileInv' /\ [Promise!Next]_Promise!vars

\* A call that carries nothing but an order id.
LEMMA SentIsTrue ==
  ASSUME NEW op \in {"reserve", "start", "stop", "get", "list"},
         NEW by \in {"nobody", "reserve", "stop", "row", "poll", "list"},
         NEW id \in Orders \cup {None},
         op \in {"start", "stop", "get"} => id \in Orders
  PROVE  /\ Sent(op, id, by) \in CallRow
         /\ CallTrue(Sent(op, id, by), order, agreed)
BY DEF Sent, CallRow, CallTrue

\* A payment carries the agreement it was sent with.
LEMMA PaymentIsTrue ==
  ASSUME NEW by \in {"nobody", "reserve", "stop", "row", "poll", "list"},
         NEW id \in Orders, agreed'[id] # None
  PROVE  /\ Sent("pay", id, by) \in CallRow
         /\ CallTrue(Sent("pay", id, by), order', agreed')
BY DEF Sent, CallRow, CallTrue

\* A call that is not under way says nothing that could be untrue.
LEMMA IdleIsTrue == Idle \in CallRow /\ CallTrue(Idle, order, agreed)
BY DEF Idle, CallRow, CallTrue

\* The snapshots of an answer.
LEMMA AnswerIsTrue ==
  ASSUME MobileInv, NEW c \in Calls
  PROVE  /\ call[c] \in CallRow /\ CallTrue(call[c], order, agreed)
         /\ \A x \in call[c].rows : x \in Snapshots /\ Truthful(x, order)
         /\ call[c].op \in {"start", "stop", "pay", "get"} => call[c].id \in Orders
BY DEF MobileInv, CallRow, CallTrue
-----------------------------------------------------------------------------
(* The service answers. *)

\* A call that is answered with true rows remains true.
LEMMA AnsweredIsTrue ==
  ASSUME MobileInv, Facts, NEW c \in Calls, NEW rows \in SUBSET Snapshots,
         \A y \in rows : Truthful(y, order'),
         Reply(c, rows), UNCHANGED <<activeOrder, billed>>
  PROVE  MobileInv'
<1> DEFINE y == [call[c] EXCEPT !.stage = "answered", !.rows = rows]
<1>0. call[c] \in CallRow /\ CallTrue(call[c], order', agreed')
  BY AnswerIsTrue, StaysTrue
<1>1. y \in CallRow /\ CallTrue(y, order', agreed')
  BY <1>0 DEF CallRow, CallTrue
<1>2. call' = [call EXCEPT ![c] = y]
  BY DEF Reply
<1> HIDE DEF y
<1> QED
  BY <1>1, <1>2, OneCall DEF MobileInv

\* A call that fails keeps what it was asked to do.
LEMMA FailedIsTrue ==
  ASSUME MobileInv, Facts, NEW c \in Calls, NEW rows \in {{}, call[c].rows},
         call' = [call EXCEPT ![c] = [@ EXCEPT !.stage = "failed", !.rows = rows]],
         UNCHANGED <<activeOrder, billed>>
  PROVE  MobileInv'
<1> DEFINE y == [call[c] EXCEPT !.stage = "failed", !.rows = rows]
<1>0. call[c] \in CallRow /\ CallTrue(call[c], order, agreed)
  BY AnswerIsTrue
<1>1. y \in CallRow /\ CallTrue(y, order, agreed)
  BY <1>0 DEF CallRow, CallTrue
<1>2. call' = [call EXCEPT ![c] = y]
  OBVIOUS
<1> HIDE DEF y
<1> QED
  BY <1>1, <1>2, OneCall DEF MobileInv

\* A command the service refuses moves nothing.
LEMMA RefuseKeeps ==
  ASSUME MobileInv, NEW c \in Calls, Refuse(c), Unchanged
  PROVE  Owed
<1>1. Facts /\ UNCHANGED Promise!vars
  BY Unmoved DEF Refuse, Unchanged
<1>2. call' = [call EXCEPT ![c] = [@ EXCEPT !.stage = "failed", !.rows = call[c].rows]]
  BY AnswerIsTrue DEF Refuse, CallRow, MobileInv
<1> QED
  BY <1>1, <1>2, FailedIsTrue DEF Owed, Unchanged

\* A snapshot of a row as it is.
LEMMA SnapIsTrue ==
  ASSUME MobileInv, NEW o \in Orders
  PROVE  Snap(o) \in Snapshots /\ Truthful(Snap(o), order)
BY DEF MobileInv, RowsTyped, Snap, Snapshots, Truthful

\* A repeated command is answered with the rows as they are.
LEMMA RepeatKeeps ==
  ASSUME MobileInv, NEW c \in Calls, NEW S \in SUBSET Orders,
         Reply(c, {Snap(o) : o \in S}), UNCHANGED order, Unchanged
  PROVE  Owed
<1>1. Facts /\ UNCHANGED Promise!vars
  BY Unmoved DEF Unchanged
<1>2. \A y \in {Snap(o) : o \in S} : y \in Snapshots /\ Truthful(y, order')
  BY SnapIsTrue
<1> QED
  BY <1>1, <1>2, AnsweredIsTrue DEF Owed, Unchanged

\* A read is answered with the row as it is.
LEMMA ReadKeeps ==
  ASSUME MobileInv, NEW c \in Calls, NEW o \in Orders,
         Reply(c, {Snap(o)}), UNCHANGED order, Unchanged
  PROVE  Owed
<1> DEFINE S == {o}
<1>1. {Snap(p) : p \in S} = {Snap(o)}
  OBVIOUS
<1>2. Reply(c, {Snap(p) : p \in S})
  BY <1>1
<1>3. S \in SUBSET Orders
  OBVIOUS
<1> HIDE DEF S
<1> QED
  BY <1>2, <1>3, RepeatKeeps

\* A transition of an order, and the answer that tells of it.
LEMMA MoveKeeps ==
  ASSUME MobileInv, NEW c \in Calls, NEW o \in Orders, NEW status, NEW amount,
         Move(o, status, amount), Unchanged,
         Reply(c, {[id |-> o, status |-> status, amount |-> amount]})
  PROVE  Owed
<1> DEFINE y == [id |-> o, status |-> status, amount |-> amount]
<1>1. Facts /\ Promise!Next
  BY Moves
<1>2. order'[o] = [status |-> status, amount |-> amount]
  BY DEF Move, Set, MobileInv, RowsTyped
<1>3. y \in Snapshots /\ Truthful(y, order')
  BY <1>1, <1>2 DEF Facts, RowsTyped, Snapshots, Truthful
<1> HIDE DEF y
<1>4. Reply(c, {y})
  BY DEF y
<1> QED
  BY <1>1, <1>3, <1>4, AnsweredIsTrue DEF Owed, Unchanged

\* A command on an order is a move of the promise, a repetition or a refusal.
LEMMA CommandKeeps ==
  ASSUME MobileInv, NEW c \in Calls, Unchanged, call[c].id \in Orders,
         NEW from, NEW to, NEW amounts, NEW done, Command(c, from, to, amounts, done),
         \A a \in amounts :
           order[call[c].id].status = from /\ Set(call[c].id, to, a) => Move(call[c].id, to, a)
  PROVE  Owed
<1> DEFINE o == call[c].id
<1>0. o \in Orders
  OBVIOUS
<1> HIDE DEF o
<1>1. CASE order[o].status = from /\ \E a \in amounts :
              /\ Set(o, to, a)
              /\ Reply(c, {[id |-> o, status |-> to, amount |-> a]})
  <2>1. PICK a \in amounts : /\ Set(o, to, a)
                             /\ Reply(c, {[id |-> o, status |-> to, amount |-> a]})
    BY <1>1
  <2>2. Move(o, to, a)
    BY <1>1, <2>1 DEF o
  <2> QED
    BY <1>0, <2>1, <2>2, MoveKeeps
<1>2. CASE Reply(c, {Snap(o)}) /\ UNCHANGED order
  BY <1>0, <1>2, ReadKeeps
<1>3. CASE Refuse(c)
  BY <1>3, RefuseKeeps
<1> QED
  BY <1>1, <1>2, <1>3 DEF Command, o

\* The service opens at most one order for a reservation.
LEMMA ServeReserveKeeps ==
  ASSUME MobileInv, NEW c \in Calls, Unchanged, ServeReserve(c)
  PROVE  Owed
<1>1. CASE Refuse(c)
  BY <1>1, RefuseKeeps
<1>2. ASSUME NEW o \in Orders, \A p \in Orders : order[p].status \notin Unresolved,
             order[o].status = "none", Set(o, "reserved", 0),
             Reply(c, {[id |-> o, status |-> "reserved", amount |-> 0]})
      PROVE  Owed
  <2>1. Move(o, "reserved", 0)
    BY <1>2 DEF Move, Unchanged
  <2> QED
    BY <1>2, <2>1, MoveKeeps
<1> QED
  BY <1>1, <1>2 DEF ServeReserve

\* Whatever the service does with a call is a step of the promise or none.
LEMMA ServeKeeps ==
  ASSUME MobileInv, NEW c \in Calls, Serve(c)
  PROVE  Owed
<1>0. Unchanged /\ (call[c].op \in {"start", "stop", "pay", "get"} => call[c].id \in Orders)
  BY AnswerIsTrue DEF Serve
<1>1. CASE call[c].op = "reserve" /\ ServeReserve(c)
  BY <1>0, <1>1, ServeReserveKeeps
<1>2. CASE call[c].op = "start" /\ Command(c, "reserved", "charging", {0}, {"charging"})
  <2>1. \A a \in {0} : order[call[c].id].status = "reserved" /\ Set(call[c].id, "charging", a)
                         => Move(call[c].id, "charging", a)
    BY <1>0 DEF Move, Unchanged
  <2> QED
    BY <1>0, <1>2, <2>1, CommandKeeps
<1>3. CASE call[c].op = "stop" /\ Command(c, "charging", "pending_payment", Amounts,
                                          {"pending_payment", "completed"})
  <2>1. \A a \in Amounts :
          order[call[c].id].status = "charging" /\ Set(call[c].id, "pending_payment", a)
            => Move(call[c].id, "pending_payment", a)
    BY <1>0 DEF Move, Unchanged
  <2> QED
    BY <1>0, <1>3, <2>1, CommandKeeps
<1>4. CASE call[c].op = "pay" /\ Command(c, "pending_payment", "completed",
                                         {order[call[c].id].amount}, {"completed"})
  <2>1. agreed[call[c].id] # None
    BY <1>4, AnswerIsTrue DEF CallTrue
  <2>2. \A a \in {order[call[c].id].amount} :
          order[call[c].id].status = "pending_payment" /\ Set(call[c].id, "completed", a)
            => Move(call[c].id, "completed", a)
    BY <1>0, <2>1 DEF Move, Unchanged
  <2> QED
    BY <1>0, <1>4, <2>2, CommandKeeps
<1>5. CASE call[c].op = "get" /\ Reply(c, {Snap(call[c].id)}) /\ UNCHANGED order
  BY <1>0, <1>5, ReadKeeps
<1>6. CASE UNCHANGED order /\ Reply(c, {Snap(o) : o \in {o \in Orders : order[o].status # "none"}})
  <2> DEFINE S == {o \in Orders : order[o].status # "none"}
  <2>1. S \in SUBSET Orders /\ Reply(c, {Snap(o) : o \in S})
    BY <1>6
  <2> HIDE DEF S
  <2> QED
    BY <1>0, <1>6, <2>1, RepeatKeeps
<1> QED
  BY <1>1, <1>2, <1>3, <1>4, <1>5, <1>6 DEF Serve

\* The coordinator's own steps.
LEMMA CoordinatorMoves ==
  ASSUME MobileInv, NEW o \in Orders, CapStop(o) \/ Expire(o)
  PROVE  Owed
<1>1. \E status, amount : Move(o, status, amount)
  <2>1. CASE CapStop(o)
    <3>1. PICK a \in Amounts : Set(o, "pending_payment", a)
      BY <2>1 DEF CapStop
    <3>2. Move(o, "pending_payment", a)
      BY <2>1, <3>1 DEF CapStop, Move, Unchanged
    <3> QED
      BY <3>2
  <2>2. CASE Expire(o)
    <3>1. Move(o, "cancelled", 0)
      BY <2>2 DEF Expire, Move, Unchanged
    <3> QED
      BY <3>1
  <2> QED
    BY <2>1, <2>2
<1>2. Facts /\ Promise!Next
  BY <1>1, Moves
<1>3. UNCHANGED <<call, activeOrder, billed>>
  BY DEF CapStop, Expire, Unchanged
<1>4. MobileInv'
  BY <1>2, <1>3, Kept DEF MobileInv
<1> QED
  BY <1>2, <1>4 DEF Owed
-----------------------------------------------------------------------------
(* The page. *)

\* A call is sent, and the rows are left alone.
LEMMA SendKeeps ==
  ASSUME MobileInv, NEW op, NEW id, NEW by, Send(op, id, by),
         Facts, UNCHANGED <<activeOrder, billed>>,
         /\ Sent(op, id, by) \in CallRow
         /\ \/ CallTrue(Sent(op, id, by), order, agreed)
            \/ CallTrue(Sent(op, id, by), order', agreed')
  PROVE  MobileInv'
<1> DEFINE y == Sent(op, id, by)
<1>1. PICK c \in Calls : call' = [call EXCEPT ![c] = y]
  BY SendIs
<1>2. y \in CallRow /\ (CallTrue(y, order, agreed) \/ CallTrue(y, order', agreed'))
  OBVIOUS
<1> HIDE DEF y
<1> QED
  BY <1>1, <1>2, OneCall DEF MobileInv

\* A call that waits for an answer goes on to the next one, or its function ends.
LEMMA GoesOnKeeps ==
  ASSUME MobileInv, Facts, NEW c \in Calls, NEW y \in CallRow, call' = [call EXCEPT ![c] = y],
         CallTrue(y, order, agreed) \/ CallTrue(y, order', agreed'),
         UNCHANGED activeOrder \/ \E x \in call[c].rows : activeOrder' = x,
         billed' \subseteq Orders
  PROVE  MobileInv'
<1>1. UNCHANGED activeOrder \/ (activeOrder' \in Snapshots /\ Truthful(activeOrder', order))
  BY AnswerIsTrue
<1> QED
  BY <1>1, OneCall

\* To change the screen moves nothing.
LEMMA ShowKeeps ==
  ASSUME MobileInv, NEW s \in Screens, Show(s)
  PROVE  Owed
<1>1. Facts /\ UNCHANGED Promise!vars
  BY Unmoved DEF Show
<1>2. CASE s = "orders"
  <2>1. Send("list", None, "list") /\ UNCHANGED <<activeOrder, billed>>
    BY <1>2 DEF Show
  <2> QED
    BY <1>1, <2>1, SendKeeps, SentIsTrue DEF Owed
<1>3. CASE s # "orders"
  <2>1. MobileInv'
    BY <1>1, <1>3, Kept DEF Show, MobileInv
  <2> QED
    BY <1>1, <2>1 DEF Owed
<1> QED
  BY <1>2, <1>3

\* To press reserve sends a call and moves nothing.
LEMMA ReserveKeeps ==
  ASSUME MobileInv, Reserve
  PROVE  Owed
<1>1. Facts /\ UNCHANGED Promise!vars
  BY Unmoved DEF Reserve
<1> QED
  BY <1>1, SendKeeps, SentIsTrue DEF Owed, Reserve, pageVars

\* To press pay in the list sends a payment only of the amount that was confirmed.
LEMMA PressRowKeeps ==
  ASSUME MobileInv, PressRow
  PROVE  Owed
<1>1. Facts /\ UNCHANGED Promise!vars
  BY Unmoved DEF PressRow
<1>2. PICK o \in billed : Send("get", o, "row")
  BY DEF PressRow
<1>3. o \in Orders
  BY DEF MobileInv
<1> QED
  BY <1>1, <1>2, <1>3, SendKeeps, SentIsTrue DEF Owed, PressRow, pageVars

\* The interval only asks.
LEMMA PollKeeps ==
  ASSUME MobileInv, Poll
  PROVE  Owed
<1>1. Facts /\ UNCHANGED Promise!vars
  BY Unmoved DEF Poll
<1>2. activeOrder.id \in Orders
  BY DEF Poll, MobileInv, Truthful
<1> QED
  BY <1>1, <1>2, SendKeeps, SentIsTrue DEF Owed, Poll, pageVars

\* What confirm() asks, and what is sent after it.
LEMMA ConfirmIs ==
  ASSUME MobileInv, UNCHANGED order, NEW x \in Snapshots, Truthful(x, order),
         NEW yes \in BOOLEAN, Confirm(x, yes)
  PROVE  /\ Facts /\ [Promise!Next]_Promise!vars
         /\ \A by \in {"stop", "row"} : Pays(x) /\ yes =>
              /\ Sent(StopOperation(x), x.id, by) \in CallRow
              /\ CallTrue(Sent(StopOperation(x), x.id, by), order', agreed')
         /\ \A by \in {"stop", "row"} : ~Pays(x) =>
              /\ Sent(StopOperation(x), x.id, by) \in CallRow
              /\ CallTrue(Sent(StopOperation(x), x.id, by), order, agreed)
<1>0. x.id \in Orders
  BY DEF Truthful
<1>1. CASE Pays(x) /\ yes
  <2>1. Facts /\ Promise!Next /\ agreed'[x.id] # None
    BY <1>1, Agrees DEF Confirm, Pays
  <2> QED
    BY <1>0, <1>1, <2>1, PaymentIsTrue DEF StopOperation
<1>2. CASE ~(Pays(x) /\ yes)
  <2>1. Facts /\ UNCHANGED Promise!vars
    BY <1>2, Unmoved DEF Confirm
  <2> QED
    BY <1>0, <1>2, <2>1, SentIsTrue DEF StopOperation
<1> QED
  BY <1>1, <1>2

\* The button stops, or pays the amount that was confirmed.
LEMMA PressStopKeeps ==
  ASSUME MobileInv, PressStop
  PROVE  Owed
<1>1. CASE activeOrder = NoOrder /\ UNCHANGED <<agreed, call>>
  <2>1. Facts /\ UNCHANGED Promise!vars
    BY <1>1, Unmoved DEF PressStop
  <2>2. MobileInv'
    BY <1>1, <2>1, Kept DEF PressStop, MobileInv
  <2> QED
    BY <2>1, <2>2 DEF Owed
<1>2. CASE /\ activeOrder # NoOrder
           /\ Confirm(activeOrder, TRUE)
           /\ Send(StopOperation(activeOrder), activeOrder.id, "stop")
  <2>1. activeOrder \in Snapshots /\ Truthful(activeOrder, order)
    BY <1>2 DEF MobileInv
  <2>2. UNCHANGED <<order, activeOrder, billed>>
    BY DEF PressStop
  <2> DEFINE op == StopOperation(activeOrder)
             x == activeOrder
  <2>3. /\ Facts /\ [Promise!Next]_Promise!vars
        /\ Sent(op, x.id, "stop") \in CallRow
        /\ \/ CallTrue(Sent(op, x.id, "stop"), order, agreed)
           \/ CallTrue(Sent(op, x.id, "stop"), order', agreed')
    BY <1>2, <2>1, <2>2, ConfirmIs
  <2>4. Send(op, x.id, "stop")
    BY <1>2
  <2> HIDE DEF op, x
  <2>5. MobileInv'
    BY <2>2, <2>3, <2>4, SendKeeps
  <2> QED
    BY <2>3, <2>5 DEF Owed
<1> QED
  BY <1>1, <1>2 DEF PressStop
-----------------------------------------------------------------------------
(* The answers. *)

\* The answer to a reservation is shown as it was true when it was made.
LEMMA ReserveAnsweredKeeps ==
  ASSUME MobileInv, NEW c \in Calls, ReserveAnswered(c)
  PROVE  Owed
<1>1. Facts /\ UNCHANGED Promise!vars
  BY Unmoved DEF ReserveAnswered
<1>2. PICK x \in call[c].rows : activeOrder' = x /\ Await(c, "start", x.id)
  BY DEF ReserveAnswered
<1>3. x.id \in Orders /\ call[c].by \in {"nobody", "reserve", "stop", "row", "poll", "list"}
  BY AnswerIsTrue DEF Truthful, CallRow
<1> DEFINE y == Sent("start", x.id, call[c].by)
<1>4. y \in CallRow /\ CallTrue(y, order, agreed)
  BY <1>3, SentIsTrue
<1>5. call' = [call EXCEPT ![c] = y]
  BY <1>2 DEF Await
<1>6. billed' \subseteq Orders
  BY DEF ReserveAnswered, MobileInv
<1> HIDE DEF y
<1> QED
  BY <1>1, <1>2, <1>4, <1>5, <1>6, GoesOnKeeps DEF Owed

\* A call ends, and the page shows the snapshot it brought.
LEMMA EndKeeps ==
  ASSUME MobileInv, NEW c \in Calls, End(c), UNCHANGED <<order, agreed>>,
         UNCHANGED activeOrder \/ \E x \in call[c].rows : activeOrder' = x,
         billed' \subseteq Orders
  PROVE  Owed
<1>1. Facts /\ UNCHANGED Promise!vars
  BY Unmoved
<1>2. call' = [call EXCEPT ![c] = Idle]
  BY DEF End
<1> QED
  BY <1>1, <1>2, IdleIsTrue, GoesOnKeeps DEF Owed

\* A call goes on with the list.
LEMMA ListSentKeeps ==
  ASSUME MobileInv, NEW c \in Calls, call' = [call EXCEPT ![c] = Sent("list", None, "list")],
         UNCHANGED <<order, agreed>>,
         UNCHANGED activeOrder \/ \E x \in call[c].rows : activeOrder' = x,
         billed' \subseteq Orders
  PROVE  Owed
<1>1. Facts /\ UNCHANGED Promise!vars
  BY Unmoved
<1> DEFINE y == Sent("list", None, "list")
<1>2. y \in CallRow /\ CallTrue(y, order, agreed) /\ call' = [call EXCEPT ![c] = y]
  BY SentIsTrue
<1> HIDE DEF y
<1> QED
  BY <1>1, <1>2, GoesOnKeeps DEF Owed

\* An interval starts: the polls of the one before are no longer its own.
LEMMA StartAnsweredKeeps ==
  ASSUME MobileInv, NEW c \in Calls, StartAnswered(c)
  PROVE  Owed
<1>0. /\ UNCHANGED <<order, agreed, billed>> /\ billed' \subseteq Orders
      /\ \E x \in call[c].rows : activeOrder' = x
  BY DEF StartAnswered, MobileInv
<1>1. CASE End(c)
  BY <1>0, <1>1, EndKeeps
<1>2. CASE call' = [d \in Calls |-> IF d = c THEN Idle ELSE [call[d] EXCEPT !.own = FALSE]]
  <2>1. Facts /\ UNCHANGED Promise!vars
    BY <1>0, Unmoved
  <2>2. ASSUME NEW d \in Calls
        PROVE  [call[d] EXCEPT !.own = FALSE] \in CallRow
               /\ CallTrue([call[d] EXCEPT !.own = FALSE], order, agreed)
    <3>1. call[d] \in CallRow /\ CallTrue(call[d], order, agreed)
      BY AnswerIsTrue
    <3> QED
      BY <3>1 DEF CallRow, CallTrue
  <2>3. call' \in [Calls -> CallRow] /\ \A d \in Calls : CallTrue(call'[d], order, agreed)
    BY <1>2, <2>2, IdleIsTrue
  <2>4. activeOrder' \in Snapshots /\ Truthful(activeOrder', order)
    BY <1>0, AnswerIsTrue
  <2>5. MobileInv'
    BY <1>0, <2>1, <2>3, <2>4, Kept
  <2> QED
    BY <2>1, <2>5 DEF Owed
<1> QED
  BY <1>1, <1>2 DEF StartAnswered

\* The answer to a poll may be old, and is still one of the states the order has had.
LEMMA PollAnsweredKeeps ==
  ASSUME MobileInv, NEW c \in Calls, PollAnswered(c)
  PROVE  Owed
<1>1. /\ UNCHANGED <<order, agreed>> /\ billed' \subseteq Orders /\ End(c)
      /\ \E x \in call[c].rows : activeOrder' = x
  BY DEF PollAnswered, MobileInv
<1> QED
  BY <1>1, EndKeeps

\* So may the answer to a stop or a payment.
LEMMA StopAnsweredKeeps ==
  ASSUME MobileInv, NEW c \in Calls, StopAnswered(c)
  PROVE  Owed
<1>1. /\ UNCHANGED <<order, agreed>> /\ billed' \subseteq Orders
      /\ \E x \in call[c].rows : activeOrder' = x
  BY DEF StopAnswered, MobileInv
<1>2. CASE call' = [call EXCEPT ![c] = Sent("list", None, "list")]
  BY <1>1, <1>2, ListSentKeeps
<1>3. CASE End(c)
  BY <1>1, <1>3, EndKeeps
<1> QED
  BY <1>2, <1>3 DEF StopAnswered

\* A row of the list is shown, or paid when the customer says yes to its amount.
LEMMA RowAnsweredKeeps ==
  ASSUME MobileInv, NEW c \in Calls, NEW yes \in BOOLEAN, RowAnswered(c, yes)
  PROVE  Owed
<1>1. PICK x \in call[c].rows :
        /\ Answer(c, {"row"}, {"get"}) /\ activeOrder' = x /\ Confirm(x, yes)
        /\ IF Pays(x) /\ ~yes
           THEN call' = [call EXCEPT ![c] = Sent("list", None, "list")]
           ELSE Await(c, StopOperation(x), x.id)
  BY DEF RowAnswered
<1>2. x \in Snapshots /\ Truthful(x, order)
  BY AnswerIsTrue
<1>3. UNCHANGED order /\ billed' \subseteq Orders
  BY DEF RowAnswered, MobileInv
<1>4. CASE Pays(x) /\ ~yes
  <2>1. UNCHANGED agreed
    BY <1>1, <1>4 DEF Confirm
  <2> QED
    BY <1>1, <1>3, <1>4, <2>1, ListSentKeeps
<1>5. CASE ~(Pays(x) /\ ~yes)
  <2> DEFINE y == Sent(StopOperation(x), x.id, "row")
  <2>1. /\ Facts /\ [Promise!Next]_Promise!vars /\ y \in CallRow
        /\ CallTrue(y, order, agreed) \/ CallTrue(y, order', agreed')
    BY <1>1, <1>2, <1>3, <1>5, ConfirmIs
  <2>2. call' = [call EXCEPT ![c] = y]
    BY <1>1, <1>5 DEF Await, Answer
  <2> HIDE DEF y
  <2>3. MobileInv'
    BY <1>1, <1>3, <2>1, <2>2, GoesOnKeeps
  <2> QED
    BY <2>1, <2>3 DEF Owed
<1> QED
  BY <1>4, <1>5

\* The list is drawn from rows that were true.
LEMMA ListAnsweredKeeps ==
  ASSUME MobileInv, NEW c \in Calls, ListAnswered(c)
  PROVE  Owed
<1>1. Payable(call[c].rows) \subseteq Orders
  BY AnswerIsTrue DEF Payable, Truthful
<1>2. /\ UNCHANGED <<order, agreed>> /\ billed' \subseteq Orders /\ End(c)
      /\ UNCHANGED activeOrder \/ \E x \in call[c].rows : activeOrder' = x
  BY <1>1 DEF ListAnswered
<1> QED
  BY <1>2, EndKeeps

\* A call that failed enables the button again and moves nothing.
LEMMA FailedKeeps ==
  ASSUME MobileInv, NEW c \in Calls, Failed(c)
  PROVE  Owed
<1>1. UNCHANGED <<order, agreed, activeOrder>> /\ billed' \subseteq Orders
  BY DEF Failed, MobileInv
<1>2. CASE call' = [call EXCEPT ![c] = Sent("list", None, "list")]
  BY <1>1, <1>2, ListSentKeeps
<1>3. CASE End(c)
  BY <1>1, <1>3, EndKeeps
<1> QED
  BY <1>2, <1>3 DEF Failed

\* An answer for a page that is gone is dropped.
LEMMA UnheardKeeps ==
  ASSUME MobileInv, NEW c \in Calls, Unheard(c)
  PROVE  Owed
BY EndKeeps DEF Unheard, pageVars, MobileInv
-----------------------------------------------------------------------------
(* The faults. *)

\* A lost call, before or after it was served, moves nothing.
LEMMA LoseKeeps ==
  ASSUME MobileInv, NEW c \in Calls, Lose(c)
  PROVE  Owed
<1>1. Facts /\ UNCHANGED Promise!vars
  BY Unmoved DEF Lose
<1> QED
  BY <1>1, FailedIsTrue DEF Lose, pageVars, Owed

\* A reload forgets what the page knew and nothing of what it agreed to.
LEMMA ReloadKeeps ==
  ASSUME MobileInv, Reload
  PROVE  Owed
<1>1. Facts /\ UNCHANGED Promise!vars
  BY Unmoved DEF Reload
<1>2. ASSUME NEW d \in Calls
      PROVE  /\ [call[d] EXCEPT !.by = "nobody", !.own = FALSE] \in CallRow
             /\ CallTrue([call[d] EXCEPT !.by = "nobody", !.own = FALSE], order, agreed)
  <2>1. call[d] \in CallRow /\ CallTrue(call[d], order, agreed)
    BY AnswerIsTrue
  <2> QED
    BY <2>1 DEF CallRow, CallTrue
<1>3. call' \in [Calls -> CallRow] /\ \A d \in Calls : CallTrue(call'[d], order, agreed)
  BY <1>2, IdleIsTrue DEF Reload
<1>4. MobileInv'
  BY <1>1, <1>3, Kept DEF Reload
<1> QED
  BY <1>1, <1>4 DEF Owed
-----------------------------------------------------------------------------
(* The theorems. *)

\* At first no order is open and nothing is agreed.
LEMMA Started == Init => Promise!Init /\ MobileInv
<1> SUFFICES ASSUME Init PROVE Promise!Init /\ MobileInv
  OBVIOUS
<1>1. Promise!Init
  BY DEF Init, Promise!Init
<1>2. RowsTyped /\ AgreedToBill
  BY DEF Init, RowsTyped, AgreedToBill, Unresolved, Fixed
<1>3. call \in [Calls -> CallRow] /\ \A c \in Calls : CallTrue(call[c], order, agreed)
  BY IdleIsTrue DEF Init
<1> QED
  BY <1>1, <1>2, <1>3 DEF MobileInv, Init

\* Every step is one of the promise or none, and keeps the invariant.
LEMMA StepKeeps == MobileInv /\ [Next]_vars => Owed
<1> SUFFICES ASSUME MobileInv, [Next]_vars PROVE Owed
  OBVIOUS
<1>1. CASE UNCHANGED vars
  <2>1. Facts /\ UNCHANGED Promise!vars
    BY <1>1, Unmoved DEF vars
  <2>2. MobileInv'
    BY <1>1, <2>1, Kept DEF vars, MobileInv
  <2> QED
    BY <2>1, <2>2 DEF Owed
<1>2. ASSUME NEW c \in Calls, Serve(c) \/ Continue(c) \/ RowAnswered(c, FALSE) \/ Lose(c)
      PROVE  Owed
  BY <1>2, ServeKeeps, ReserveAnsweredKeeps, StartAnsweredKeeps, PollAnsweredKeeps,
     StopAnsweredKeeps, RowAnsweredKeeps, ListAnsweredKeeps, FailedKeeps, UnheardKeeps,
     LoseKeeps DEF Continue
<1> QED
  BY <1>1, <1>2, ShowKeeps, ReserveKeeps, PressStopKeeps, PressRowKeeps, PollKeeps,
     ReloadKeeps, CoordinatorMoves DEF Next

\* The snapshots the page goes by are good for what it does with them.
THEOREM MobileInvariant == Spec => []MobileInv
<1>1. MobileInv /\ [Next]_vars => MobileInv'
  BY StepKeeps DEF Owed
<1> QED
  BY <1>1, Started, PTL DEF Spec

\* However calls are lost, repeated, overtaken or cut off by a reload, a customer has
\* one order at a time, a bill is fixed once, and what is paid is the very amount that
\* was confirmed on the page (stopCharge, the row's listener, renderOrders).
THEOREM PageKeepsPromise == Spec => Promise!Safety
<1>1. MobileInv /\ [Next]_vars => [Promise!Next]_Promise!vars
  BY StepKeeps DEF Owed
<1> QED
  BY <1>1, Started, MobileInvariant, PTL DEF Spec, Promise!Safety

=============================================================================
