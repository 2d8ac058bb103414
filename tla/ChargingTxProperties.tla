------------------------ MODULE ChargingTxProperties ------------------------
(***************************************************************************)
(* What the locking of ChargingTx must achieve: commits that are commands, *)
(* no violated unique index, and every wait ends.                          *)
(***************************************************************************)
EXTENDS ChargingTx

\* Each commit, with decisions taken on rows read some statements earlier, is a
\* command of ChargingCore on the committed tables; everything else a
\* transaction does is invisible.  So what module ChargingProperties says of
\* commands executed one at a time holds of any interleaving of them.
RefinesCore == [][Next]_vars

\* No two orders carry the same request key of a user (a request sent twice at
\* the same time reserves once), and no two plugged or unfinished orders share
\* a charger or user: the inserts of reserve never meet a unique index, whose
\* error it would return as a server fault.
InsertsUnique ==
  \A o, p \in Orders : o # p /\ chargingOrder[o].status # "none" =>
    LET x == chargingOrder[o]
        y == chargingOrder[p]
    IN  /\ x.user = y.user => x.key # y.key
        /\ x.status \in Unfinished /\ y.status \in Unfinished => x.user # y.user
        /\ x.status \in Plugged /\ y.status \in Plugged => x.charger # y.charger

\* Every command that arrives is answered, although cancel and the coordinator
\* lock the order before the user and every other command the user before the
\* order.
Answered ==
  \A s \in Sessions : session[s].op # "none" ~> session[s].op = "none"

\* A reservation that has lapsed does not stay: the coordinator cancels it, in
\* a later pass if this one skipped the row or was aborted.
LapsedReleased ==
  \A o \in Orders :
    chargingOrder[o].status = "reserved" /\ chargingOrder[o].lapsed
      ~> chargingOrder[o].status # "reserved"

\* A session that has delivered its target ends without its user.
TargetSettled ==
  \A o \in Orders :
    chargingOrder[o].status = "charging" /\ delivered[o] >= chargingOrder[o].target
      ~> chargingOrder[o].status # "charging"

\* An order stopped for an exhausted balance has used up what its user had
\* available; user_window.cpp tells the user so.
ExhaustedMeansExhausted ==
  [][\A o \in Orders :
       LET u == chargingOrder[o].user
       IN  chargingOrder[o].reason # "balance_exhausted"
             /\ chargingOrder'[o].reason = "balance_exhausted"
             => Available(u)' = 0]_vars
=============================================================================
