----------------------------- MODULE MobileAccount -----------------------------
(***************************************************************************)
(* The account of a customer in the mobile page (mobile.js): the token     *)
(* kept in the browser, the balance shown, and the calls that answer late  *)
(* or fail.  The dialogs are left out: what one offers is an action with   *)
(* the guard the page opens it under.  How a code is asked for and checked *)
(* is SignIn's.                                                            *)
(***************************************************************************)
EXTENDS Null, Naturals

CONSTANTS
  MaxErrands,   \* bound on the calls in flight
  MaxPayments,  \* bound on recharges and charges of orders
  MaxFailures   \* bound on failures and expirations

ASSUME AccountAssumption ==
  MaxErrands \in Nat \ {0} /\ MaxPayments \in Nat /\ MaxFailures \in Nat

VARIABLES
  balance,   \* external: the balance of the account
  userToken, \* localStorage: None, or whether the token is good or old
  shown,     \* #balance, None before it is known
  errand,    \* the calls in flight
  payments, failures

accountVars == <<balance, userToken, shown, errand, payments, failures>>

Errands == 1 .. MaxErrands
NoErrand == [op |-> "none", token |-> None, stage |-> "idle", balance |-> None]

AccountInit ==
  /\ balance = MaxPayments /\ userToken \in {None, "good", "old"} /\ shown = None
  /\ errand = [e \in Errands |-> NoErrand]
  /\ payments = 0 /\ failures = 0

Sent(op, t) == [op |-> op, token |-> t, stage |-> "sent", balance |-> None]

NextErrand(e) == errand[e].stage = "idle" /\ \A d \in 1 .. e - 1 : errand[d].stage # "idle"

Ask(op) ==
  /\ \E e \in Errands : NextErrand(e) /\ errand' = [errand EXCEPT ![e] = Sent(op, userToken)]
  /\ UNCHANGED <<balance, userToken, shown, failures>>

\* loadProfile, when the page starts and whenever the profile is shown.
LoadProfile == userToken # None /\ Ask("profile") /\ UNCHANGED payments

VerifyCode == Ask("verify") /\ UNCHANGED payments

\* Each press sends a key of its own.
Recharge ==
  /\ userToken # None /\ payments < MaxPayments /\ payments' = payments + 1
  /\ Ask("recharge")

\* The server: an answer carries the balance of the moment it was made.
ServeErrand(e) ==
  /\ errand[e].stage = "sent"
  /\ IF errand[e].token # "good" /\ errand[e].op # "verify"
     THEN errand' = [errand EXCEPT ![e].stage = "failed"] /\ UNCHANGED balance
     ELSE /\ balance' = IF errand[e].op = "recharge" THEN balance + 1 ELSE balance
          /\ errand' = [errand EXCEPT ![e].stage = "answered", ![e].balance = balance']
  /\ UNCHANGED <<userToken, shown, payments, failures>>

\* The request or its answer is lost, or the answer is an error.
FailErrand(e) ==
  /\ failures < MaxFailures /\ failures' = failures + 1
  /\ errand[e].stage \in {"sent", "answered"}
  /\ errand' = [errand EXCEPT ![e].stage = "failed"]
  /\ UNCHANGED <<balance, userToken, shown, payments>>

\* External: the token's time is over, or the order of a charge is paid.
ExpireUser ==
  /\ failures < MaxFailures /\ failures' = failures + 1
  /\ userToken = "good" /\ userToken' = "old"
  /\ errand' = [e \in Errands |-> [errand[e] EXCEPT !.token =
                                     IF @ = "good" THEN "old" ELSE @]]
  /\ UNCHANGED <<balance, shown, payments>>

PayCharge ==
  /\ payments < MaxPayments /\ payments' = payments + 1
  /\ balance' = balance - 1
  /\ UNCHANGED <<userToken, shown, errand, failures>>

BalanceAnswered(e) ==
  /\ errand[e].op \in {"profile", "recharge"} /\ errand[e].stage = "answered"
  /\ shown' = errand[e].balance
  /\ errand' = [errand EXCEPT ![e] = NoErrand]
  /\ UNCHANGED userToken

\* verifyCode goes on with loadProfile, which finds the new token.
VerifyAnswered(e) ==
  /\ errand[e].op = "verify" /\ errand[e].stage = "answered"
  /\ userToken' = "good"
  /\ errand' = [errand EXCEPT ![e] = Sent("profile", "good")]
  /\ UNCHANGED shown

\* Mutant: a profile that cannot be read leaves the token.
KeptAfter(op) == userToken

\* The catch of loadProfile, which does not ask what failed, nor under which
\* token; the others only say so.
TokenAfter(op) == IF op = "profile" THEN None ELSE userToken

ErrandFailed(e) ==
  /\ errand[e].stage = "failed"
  /\ userToken' = TokenAfter(errand[e].op)
  /\ errand' = [errand EXCEPT ![e] = NoErrand]
  /\ UNCHANGED shown

Returned(e) == /\ BalanceAnswered(e) \/ VerifyAnswered(e) \/ ErrandFailed(e)
               /\ UNCHANGED <<balance, payments, failures>>

AccountStep ==
  \/ LoadProfile \/ VerifyCode \/ Recharge \/ ExpireUser \/ PayCharge
  \/ \E e \in Errands : ServeErrand(e) \/ FailErrand(e) \/ Returned(e)

\* A call in flight goes on.
ErrandSettles(e) == ServeErrand(e) \/ Returned(e)

BalanceShown == shown = balance
=============================================================================
