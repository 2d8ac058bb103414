-------------------------- MODULE SignInProperties --------------------------
(***************************************************************************)
(* What one-time codes promise, whatever requests, guesses and             *)
(* administrators' commands overlap.                                       *)
(***************************************************************************)
EXTENDS SignIn

\* A code signs in at most once, also when it is sent twice at the same time.
OneLoginPerCode == \A i \in Issues : redeemed[i] <= 1

\* The attempts of a challenge are exactly the wrong guesses made against the
\* code it holds, not those against the code before, and no code is ever
\* guessed at more than five times.
GuessesCounted ==
  /\ \A p \in Phones : challenge[p] # None =>
       challenge[p].attempts = wrong[challenge[p].issue]
  /\ \A i \in Issues : wrong[i] <= MaxAttempts

\* A code is good for one login and five guesses of its own.
CodesHonoured == OneLoginPerCode /\ GuessesCounted

\* A code is replaced by another one of its phone only when it is a minute old,
\* or by a request that was sent before anybody could see it.
CodesSpaced ==
  [][\A p \in Phones :
       LET c == challenge[p]
           d == challenge'[p]
       IN  c # None /\ d # None => d.issue = c.issue
             \/ d.since >= c.created + Resend \/ d.created <= c.since]_<<now, signInVars>>
=============================================================================
