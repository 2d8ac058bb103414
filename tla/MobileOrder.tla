------------------------------ MODULE MobileOrder ------------------------------
(***************************************************************************)
(* The order of one customer on the mobile page (mobile.js), and the rows  *)
(* of the charging service it talks to.                                    *)
(*                                                                         *)
(* The page is one thread: what runs between two awaits is one action, and *)
(* an await is a call in flight, tagged with the function that waits for   *)
(* it.  Calls may be served and answered in any order, and may be lost     *)
(* before or after they were served.  Which charger is reserved is the     *)
(* business of module MobileBrowse.                                        *)
(***************************************************************************)
EXTENDS Null, Naturals, FiniteSets

CONSTANTS
  Orders,      \* order ids the service may give out
  Amounts,     \* what a bill may come to
  MaxCalls,    \* bound on the calls in flight at once
  MaxFaults    \* bound on lost calls and reloads of the page

ASSUME MobileAssumption ==
  /\ Amounts \subseteq Nat \ {0}
  /\ None \notin Orders \cup Amounts
  /\ MaxCalls \in Nat \ {0}
  /\ MaxFaults \in Nat

VARIABLES
  order,          \* the rows of charging_order, by id
  agreed,         \* history: the amount confirmed on the page, by order
  activeOrder,    \* a snapshot of an order, or NoOrder
  chargeTimer,    \* whether an interval runs
  stopDisabled,   \* the disabled property of #stop-button
  screen,         \* the active screen
  billed,         \* the orders listed with a button to pay
  call,           \* the calls in flight
  faults          \* how many calls were lost and pages reloaded

pageVars == <<activeOrder, chargeTimer, stopDisabled, screen, billed>>
vars == <<order, agreed, activeOrder, chargeTimer, stopDisabled, screen, billed,
          call, faults>>
-----------------------------------------------------------------------------
Calls == 1 .. MaxCalls

Unresolved == {"reserved", "charging", "pending_payment"}

NoOrder == [id |-> None, status |-> "none", amount |-> 0]

\* "browse" stands for every screen that holds nothing of an order.
Screens == {"browse", "charge", "orders"}

\* A call in flight.  op and id: what it asks; by: the function that waits; own:
\* of a poll, whether the interval that runs now sent it; stage: "idle" of a free
\* place, "sent", "answered" or "failed"; rows: the snapshots of the answer.
Idle == [op |-> "none", id |-> None, by |-> "nobody", own |-> FALSE,
         stage |-> "idle", rows |-> {}]

Sent(op, id, by) == [op |-> op, id |-> id, by |-> by, own |-> by = "poll",
                     stage |-> "sent", rows |-> {}]

Init ==
  /\ order = [o \in Orders |-> [status |-> "none", amount |-> 0]]
  /\ agreed = [o \in Orders |-> None]
  /\ activeOrder = NoOrder
  /\ chargeTimer = FALSE /\ stopDisabled = FALSE
  /\ screen = "browse" /\ billed = {}
  /\ call = [c \in Calls |-> Idle]
  /\ faults = 0

Free == {c \in Calls : call[c].stage = "idle"}

\* A call is put in flight; End: its function returns.
Send(op, id, by) ==
  LET c == CHOOSE c \in Free : \A d \in Free : c <= d
  IN  Free # {} /\ call' = [call EXCEPT ![c] = Sent(op, id, by)]

\* The bound MaxCalls never keeps the customer from the button of a bill.
Spare == Cardinality(Free) > 1

Await(c, op, id) == call' = [call EXCEPT ![c] = Sent(op, id, call[c].by)]
End(c) == call' = [call EXCEPT ![c] = Idle]

Answer(c, by, op) ==
  call[c].stage = "answered" /\ call[c].by \in by /\ call[c].op \in op
-----------------------------------------------------------------------------
(* The charging service: each call is one transaction. *)

Snap(o) == [id |-> o, status |-> order[o].status, amount |-> order[o].amount]

Unchanged == UNCHANGED <<agreed, activeOrder, chargeTimer, stopDisabled,
                         screen, billed, faults>>

Reply(c, rows) == call' = [call EXCEPT ![c] = [@ EXCEPT !.stage = "answered", !.rows = rows]]
Refuse(c) == call' = [call EXCEPT ![c].stage = "failed"] /\ UNCHANGED order

Set(o, status, amount) ==
  order' = [order EXCEPT ![o] = [status |-> status, amount |-> amount]]

\* A transition that o makes on its first command, and repeats as a reply.
Command(c, from, to, amounts, done) ==
  LET o == call[c].id
  IN  \/ /\ order[o].status = from
         /\ \E a \in amounts :
              /\ Set(o, to, a)
              /\ Reply(c, {[id |-> o, status |-> to, amount |-> a]})
      \/ order[o].status \in done /\ Reply(c, {Snap(o)}) /\ UNCHANGED order
      \/ order[o].status \notin done \cup {from} /\ Refuse(c)

\* Another order of the user is a reason to refuse, and so are too little money and a
\* charger taken or faulted by now.
ServeReserve(c) ==
  \/ Refuse(c)
  \/ /\ \A o \in Orders : order[o].status \notin Unresolved
     /\ \E o \in Orders :
          /\ order[o].status = "none"
          /\ Set(o, "reserved", 0)
          /\ Reply(c, {[id |-> o, status |-> "reserved", amount |-> 0]})

Serve(c) ==
  /\ call[c].stage = "sent"
  /\ Unchanged
  /\ \/ call[c].op = "reserve" /\ ServeReserve(c)
     \/ call[c].op = "start" /\ Command(c, "reserved", "charging", {0}, {"charging"})
     \/ call[c].op = "stop" /\ Command(c, "charging", "pending_payment", Amounts,
                                       {"pending_payment", "completed"})
     \/ call[c].op = "pay" /\ Command(c, "pending_payment", "completed",
                                      {order[call[c].id].amount}, {"completed"})
     \/ call[c].op = "get" /\ Reply(c, {Snap(call[c].id)}) /\ UNCHANGED order
     \/ call[c].op = "list" /\ UNCHANGED order
        /\ Reply(c, {Snap(o) : o \in {o \in Orders : order[o].status # "none"}})

\* The coordinator settles an order whose target or balance is reached, and
\* cancels a reservation that has lapsed.
CapStop(o) ==
  /\ order[o].status = "charging"
  /\ \E a \in Amounts : Set(o, "pending_payment", a)
  /\ UNCHANGED call /\ Unchanged

Expire(o) ==
  /\ order[o].status = "reserved"
  /\ Set(o, "cancelled", 0)
  /\ UNCHANGED call /\ Unchanged
-----------------------------------------------------------------------------
(* What the customer does. *)

\* Another screen, chosen or, after a payment, shown by a timeout; the list of
\* orders is read whenever it is opened.
Show(s) ==
  /\ screen' = s
  /\ IF s = "orders" THEN Spare /\ Send("list", None, "list")
                     ELSE UNCHANGED call
  /\ UNCHANGED <<order, agreed, activeOrder, chargeTimer, stopDisabled,
                 billed, faults>>

\* reserve(): every press makes up a key of its own, so none is a replay.
Reserve ==
  /\ screen = "browse"
  /\ Spare /\ Send("reserve", None, "reserve")
  /\ UNCHANGED order /\ UNCHANGED pageVars /\ UNCHANGED <<agreed, faults>>

\* Mutant: the button asks for payment as it is labelled, whatever the status.
PaysByLabel(snapshot) == snapshot.status \in {"charging", "pending_payment"}

\* action === "pay"
Pays(snapshot) == snapshot.status = "pending_payment"

\* stopCharge() up to its await, for the order shown; yes answers confirm().
Confirm(shown, yes) ==
  agreed' = IF Pays(shown) /\ yes THEN [agreed EXCEPT ![shown.id] = shown.amount]
                                  ELSE agreed

StopOperation(shown) == IF Pays(shown) THEN "pay" ELSE "stop"

PressStop ==
  /\ screen = "charge" /\ ~stopDisabled
  /\ \/ /\ activeOrder = NoOrder
        /\ screen' = "browse"
        /\ UNCHANGED <<agreed, call>>
     \/ /\ activeOrder # NoOrder
        /\ Confirm(activeOrder, TRUE)
        /\ Spare /\ Send(StopOperation(activeOrder), activeOrder.id, "stop")
        /\ UNCHANGED screen
  /\ UNCHANGED <<order, activeOrder, chargeTimer, stopDisabled,
                 billed, faults>>

\* The button of a row of the list.
PressRow ==
  /\ screen = "orders"
  /\ \E o \in billed : Send("get", o, "row")
  /\ UNCHANGED order /\ UNCHANGED pageVars /\ UNCHANGED <<agreed, faults>>
-----------------------------------------------------------------------------
(* The interval of startCharge. *)

\* polling: no second poll of the same interval before the first has ended.
Poll ==
  /\ chargeTimer /\ activeOrder # NoOrder
  /\ \A c \in Calls : ~(call[c].by = "poll" /\ call[c].own)
  /\ Spare /\ Send("get", activeOrder.id, "poll")
  /\ UNCHANGED order /\ UNCHANGED pageVars /\ UNCHANGED <<agreed, faults>>
-----------------------------------------------------------------------------
(* What the functions do when their calls are answered. *)

ReserveAnswered(c) ==
  \E x \in call[c].rows :
    /\ Answer(c, {"reserve"}, {"reserve"})
    /\ activeOrder' = x
    /\ Await(c, "start", x.id)
    /\ UNCHANGED <<order, agreed, chargeTimer, stopDisabled, screen,
                   billed, faults>>

\* The station may have been opened again since, and have no charger available:
\* then selectedCharger is null, the text of the next screen throws, and neither
\* the screen nor the interval starts, though the order runs.
StartAnswered(c) ==
  \E x \in call[c].rows :
    /\ Answer(c, {"reserve"}, {"start"})
    /\ activeOrder' = x
    /\ \/ /\ screen' = "charge" /\ chargeTimer' = TRUE /\ stopDisabled' = FALSE
          /\ call' = [d \in Calls |-> IF d = c THEN Idle
                                    ELSE [call[d] EXCEPT !.own = FALSE]]
       \/ End(c) /\ UNCHANGED <<screen, chargeTimer, stopDisabled>>
    /\ UNCHANGED <<order, agreed, billed, faults>>

\* clearInterval(chargeTimer) ends the interval that runs now, which need not
\* be the one that sent this poll.
PollAnswered(c) ==
  \E x \in call[c].rows :
    /\ Answer(c, {"poll"}, {"get"})
    /\ activeOrder' = x
    /\ chargeTimer' = (chargeTimer /\ x.status # "completed")
    /\ stopDisabled' = (stopDisabled \/ x.status = "completed")
    /\ End(c)
    /\ UNCHANGED <<order, agreed, screen, billed, faults>>

\* The rest of stopCharge, and of the row's listener, which reads the list.
StopAnswered(c) ==
  \E x \in call[c].rows :
    /\ Answer(c, {"stop", "row"}, {"stop", "pay"})
    /\ activeOrder' = x
    /\ chargeTimer' = FALSE
    /\ stopDisabled' = (x.status # "pending_payment")
    /\ IF call[c].by = "row"
       THEN call' = [call EXCEPT ![c] = Sent("list", None, "list")]
       ELSE End(c)
    /\ UNCHANGED <<order, agreed, screen, billed, faults>>

\* The row's order was read again: stopCharge goes on with what it is now.
RowAnswered(c, yes) ==
  \E x \in call[c].rows :
    /\ Answer(c, {"row"}, {"get"})
    /\ activeOrder' = x
    /\ Confirm(x, yes)
    /\ IF Pays(x) /\ ~yes
       THEN call' = [call EXCEPT ![c] = Sent("list", None, "list")]
       ELSE Await(c, StopOperation(x), x.id)
    /\ UNCHANGED <<order, chargeTimer, stopDisabled, screen,
                   billed, faults>>

Payable(rows) == {x.id : x \in {x \in rows : x.status = "pending_payment"}}

\* renderOrders: an unresolved order becomes the active one.
ListAnswered(c) ==
  /\ Answer(c, {"list"}, {"list"})
  /\ billed' = Payable(call[c].rows)
  /\ \/ \E x \in call[c].rows : x.status \in Unresolved /\ activeOrder' = x
     \/ /\ \A x \in call[c].rows : x.status \notin Unresolved
        /\ UNCHANGED activeOrder
  /\ End(c)
  /\ UNCHANGED <<order, agreed, chargeTimer, stopDisabled, screen,
                 faults>>

\* A toast; the list is shown empty; a row's payment that failed reads the list.
Failed(c) ==
  /\ call[c].stage = "failed"
  /\ billed' = IF call[c].by = "list" THEN {} ELSE billed
  /\ IF call[c].by = "row" /\ call[c].op # "get"
     THEN call' = [call EXCEPT ![c] = Sent("list", None, "list")]
     ELSE End(c)
  /\ UNCHANGED <<order, agreed, activeOrder, chargeTimer, stopDisabled,
                 screen, faults>>

\* The answer to a page that was reloaded since.
Unheard(c) ==
  /\ call[c].stage = "answered" /\ call[c].by = "nobody"
  /\ End(c)
  /\ UNCHANGED order /\ UNCHANGED pageVars /\ UNCHANGED <<agreed, faults>>
-----------------------------------------------------------------------------
(* Faults. *)

Lose(c) ==
  /\ faults < MaxFaults /\ faults' = faults + 1
  /\ call[c].stage \in {"sent", "answered"}
  /\ call' = [call EXCEPT ![c] = [@ EXCEPT !.stage = "failed", !.rows = {}]]
  /\ UNCHANGED order /\ UNCHANGED pageVars /\ UNCHANGED agreed

Reload ==
  /\ faults < MaxFaults /\ faults' = faults + 1
  /\ activeOrder' = NoOrder
  /\ chargeTimer' = FALSE /\ stopDisabled' = FALSE
  /\ screen' = "browse" /\ billed' = {}
  /\ call' = [c \in Calls |-> IF call[c].stage = "idle" THEN Idle
                              ELSE [call[c] EXCEPT !.by = "nobody", !.own = FALSE]]
  /\ UNCHANGED <<order, agreed>>
-----------------------------------------------------------------------------
Continue(c) ==
  \/ ReserveAnswered(c) \/ StartAnswered(c) \/ PollAnswered(c) \/ StopAnswered(c)
  \/ RowAnswered(c, TRUE) \/ ListAnswered(c) \/ Failed(c) \/ Unheard(c)

Next ==
  \/ \E s \in Screens : Show(s)
  \/ Reserve \/ PressStop \/ PressRow \/ Poll \/ Reload
  \/ \E c \in Calls : Serve(c) \/ Continue(c) \/ RowAnswered(c, FALSE) \/ Lose(c)
  \/ \E o \in Orders : CapStop(o) \/ Expire(o)

\* Calls end, the coordinator makes its rounds, and the customer now and then
\* looks at the list and pays the bill it shows.
Fairness ==
  /\ \A c \in Calls : WF_vars(Serve(c) \/ Continue(c))
  /\ \A o \in Orders : WF_vars(CapStop(o) \/ Expire(o))
  /\ SF_vars(Show("orders")) /\ SF_vars(PressRow)
  /\ \A c \in Calls : SF_vars(RowAnswered(c, TRUE))

Spec == Init /\ [][Next]_vars /\ Fairness
-----------------------------------------------------------------------------
\* However calls are lost, repeated, overtaken or cut off by a reload, the page
\* and the service give the customer what module Purchase promises.
Promise == INSTANCE Purchase WITH
  phase <- [o \in Orders |-> order[o].status],
  bill  <- [o \in Orders |-> IF order[o].status \in {"pending_payment", "completed"}
                             THEN order[o].amount ELSE None]

KeepsPromise == Promise!Spec
=============================================================================
