--------------------------- MODULE ServicesProofs ---------------------------
(***************************************************************************)
(* Four services that serve many handlers at a time: the sign-in codes of  *)
(* the account service, the password of the console, the questions of the  *)
(* map service, and the maintenance of stations, chargers and users.       *)
(*                                                                         *)
(* A code is honoured once and limits its guesses because a transaction    *)
(* that has locked its row has found the row as it still is, and whoever   *)
(* found no row knows that the one it meets later has come meanwhile. A    *)
(* question is asked only when its answer was missing under the lock, and  *)
(* time does not make an old answer young.                                 *)
(*                                                                         *)
(* Wrong passwords come in rounds, each of which ends with a lock that the *)
(* next one has waited for.                                                *)
(*                                                                         *)
(* The foreign keys never stop a command of Maintenance: what a command    *)
(* found in its look is still true in its write, because every command     *)
(* that could change it needs a row that the first has locked; and a user  *)
(* without ledger entries has made no withdrawal, because withdrawals need *)
(* funds and funds come with an entry.                                     *)
(***************************************************************************)
EXTENDS SignInProperties, MapFetch, ConsoleLogin, Maintenance, WellFoundedInduction, TLAPS

\* A code as it is stored, and a transaction as it is under way.
CodeRow == [row : Nat, issue : Issues, code : Codes, created : Nat, since : Nat,
            expires : Nat, attempts : Nat]
Work == [op : {"none", "request", "verify"},
         at : {"none", "select", "upsert", "signin", "insert"},
         phone : Phones \cup {None}, row : Nat \cup {None}, began : Nat,
         guess : Codes \cup {None}, issue : Nat]

SignInTyped ==
  /\ now \in Nat /\ issues \in 0 .. MaxIssues
  /\ wrong \in [Issues -> Nat] /\ redeemed \in [Issues -> Nat]
  /\ challenge \in [Phones -> CodeRow \cup {None}]
  /\ holder \in [Phones -> Sessions \cup {None}]
  /\ login \in [Sessions -> Work]
  /\ \A s \in Sessions : login[s].began <= now
                         /\ (login[s].at # "none" => login[s].phone \in Phones)

\* A code that is stored has not been used, and its guesses are counted in its row.
CodesLive ==
  /\ \A p \in Phones : challenge[p] # None =>
       /\ challenge[p].issue <= issues /\ challenge[p].row <= issues
       /\ challenge[p].since <= now
       /\ challenge[p].attempts = wrong[challenge[p].issue]
       /\ redeemed[challenge[p].issue] = 0
  /\ \A p, q \in Phones : challenge[p] # None /\ challenge[q] # None /\ p # q =>
       challenge[p].issue # challenge[q].issue

\* The history of all codes; those not issued yet have none.
CodesSpent ==
  \A i \in Issues :
    /\ wrong[i] <= MaxAttempts /\ redeemed[i] <= 1
    /\ i > issues => wrong[i] = 0 /\ redeemed[i] = 0

\* Who has locked a row has found it and works on it; a request has found it old.
RowsLocked ==
  \A p \in Phones : holder[p] # None =>
    LET x == login[holder[p]]
    IN  /\ x.phone = p /\ x.at \in {"upsert", "signin", "insert"}
        /\ challenge[p] # None /\ challenge[p].issue = x.issue
        /\ x.at = "upsert" => challenge[p].created + Resend <= now

\* Who signs in has the row locked.
SignInsLock ==
  \A s \in Sessions : login[s].at \in {"signin", "insert"} => holder[login[s].phone] = s

\* A row that was not there when a transaction looked has come after it began.
RowsLater ==
  \A s \in Sessions : login[s].at \in {"select", "upsert"} =>
    LET x == login[s]
        c == challenge[x.phone]
    IN  /\ x.row # None => x.row <= issues
        /\ c # None /\ c.row # x.row => x.began <= c.since
        /\ x.at = "upsert" /\ holder[x.phone] # s => c = None \/ c.row # x.row

SignInInv == SignInTyped /\ CodesLive /\ CodesSpent /\ RowsLocked /\ SignInsLock /\ RowsLater
-----------------------------------------------------------------------------
\* Before the first sign-in nothing is stored or locked.
LEMMA SignInStarts == ClockInit /\ SignInInit => SignInInv
<1> SUFFICES ASSUME ClockInit, SignInInit
             PROVE  SignInInv
  OBVIOUS
<1>1. Idle \in Work
  BY DEF Idle, Work
<1>2. SignInTyped
  BY <1>1, SignInAssumption DEF ClockInit, SignInInit, SignInTyped, Idle
<1>3. CodesLive /\ CodesSpent /\ RowsLocked
  BY SignInAssumption DEF SignInInit, CodesLive, CodesSpent, RowsLocked
<1>4. SignInsLock /\ RowsLater
  BY DEF SignInInit, SignInsLock, RowsLater, Idle
<1> QED
  BY <1>2, <1>3, <1>4 DEF SignInInv

\* What is no step of a session leaves codes, locks and logins alone, and time
\* only makes codes older.
LEMMA OthersKeep ==
  ASSUME SignInInv, UNCHANGED <<challenge, holder, login, issues, wrong, redeemed>>,
         now' = now \/ now' = now + 1
  PROVE  SignInInv'
<1>1. SignInTyped'
  BY DEF SignInInv, SignInTyped, Work
<1>2. CodesSpent' /\ SignInsLock' /\ RowsLater'
  BY DEF SignInInv, CodesSpent, SignInsLock, RowsLater
<1>3. CodesLive'
  BY DEF SignInInv, SignInTyped, CodeRow, CodesLive
<1>4. RowsLocked'
  BY SignInAssumption DEF SignInInv, SignInTyped, CodeRow, RowsLocked
<1> QED
  BY <1>1, <1>2, <1>3, <1>4 DEF SignInInv

\* The end of a transaction.
LEMMA Ended ==
  ASSUME SignInInv, NEW s \in Sessions, End(s)
  PROVE  /\ login' \in [Sessions -> Work] /\ holder' \in [Phones -> Sessions \cup {None}]
         /\ login'[s] = Idle /\ \A t \in Sessions \ {s} : login'[t] = login[t]
         /\ \A p \in Phones : holder'[p] = IF holder[p] = s THEN None ELSE holder[p]
<1>1. Idle \in Work
  BY DEF Idle, Work
<1> QED
  BY <1>1 DEF End, SignInInv, SignInTyped

\* It keeps what is known of the others when it has written no row that one of
\* them has locked.
LEMMA EndKeeps ==
  ASSUME SignInInv, NEW s \in Sessions, End(s), now' = now,
         issues' \in Nat, issues <= issues',
         \A p \in Phones : holder'[p] # None => challenge'[p] = challenge[p],
         \A p \in Phones : challenge'[p] # None =>
           \/ /\ challenge[p] # None /\ challenge'[p].row = challenge[p].row
              /\ challenge[p].since <= challenge'[p].since
           \/ issues < challenge'[p].row /\ challenge'[p].since = now,
         \A p \in Phones : challenge'[p] # None =>
           challenge'[p].row \in Nat /\ challenge'[p].since \in Nat
  PROVE  RowsLocked' /\ SignInsLock' /\ RowsLater'
<1>1. /\ login'[s] = Idle /\ \A t \in Sessions \ {s} : login'[t] = login[t]
      /\ \A p \in Phones : holder'[p] = IF holder[p] = s THEN None ELSE holder[p]
      /\ holder \in [Phones -> Sessions \cup {None}]
  BY Ended DEF SignInInv, SignInTyped
<1>2. Idle.at = "none"
  BY DEF Idle
<1>3. RowsLocked'
  <2> SUFFICES ASSUME NEW p \in Phones, holder'[p] # None
               PROVE  LET x == login[holder[p]]
                      IN  /\ holder'[p] = holder[p] /\ login'[holder[p]] = x
                          /\ challenge'[p] = challenge[p]
                          /\ x.phone = p /\ x.at \in {"upsert", "signin", "insert"}
                          /\ challenge[p] # None /\ challenge[p].issue = x.issue
                          /\ x.at = "upsert" => challenge[p].created + Resend <= now
    BY DEF RowsLocked
  <2>1. holder'[p] = holder[p] /\ holder[p] \in Sessions \ {s}
    BY <1>1
  <2> QED
    BY <1>1, <2>1 DEF SignInInv, RowsLocked
<1>4. SignInsLock'
  <2> SUFFICES ASSUME NEW t \in Sessions, login'[t].at \in {"signin", "insert"}
               PROVE  holder'[login'[t].phone] = t
    BY DEF SignInsLock
  <2>1. t # s /\ login'[t] = login[t]
    BY <1>1, <1>2
  <2>2. holder[login[t].phone] = t /\ login[t].phone \in Phones
    BY <2>1 DEF SignInInv, SignInsLock, SignInTyped
  <2> QED
    BY <1>1, <2>1, <2>2
<1>5. RowsLater'
  <2> SUFFICES ASSUME NEW t \in Sessions, login'[t].at \in {"select", "upsert"}
               PROVE  LET x == login'[t]
                          c == challenge'[x.phone]
                      IN  /\ x.row # None => x.row <= issues'
                          /\ c # None /\ c.row # x.row => x.began <= c.since
                          /\ x.at = "upsert" /\ holder'[x.phone] # t =>
                               c = None \/ c.row # x.row
    BY DEF RowsLater
  <2> DEFINE x == login[t]
             c == challenge[x.phone]
             d == challenge'[x.phone]
  <2>1. t # s /\ login'[t] = x
    BY <1>1, <1>2
  <2>2. /\ x \in Work /\ x.phone \in Phones /\ x.began <= now /\ now \in Nat
        /\ issues \in Nat /\ challenge[x.phone] \in CodeRow \cup {None}
    BY <2>1, SignInAssumption DEF SignInInv, SignInTyped
  <2>3. /\ x.row # None => x.row <= issues
        /\ c # None /\ c.row # x.row => x.began <= c.since
        /\ x.at = "upsert" /\ holder[x.phone] # t => c = None \/ c.row # x.row
    BY <2>1 DEF SignInInv, RowsLater
  <2>4. x.row \in Nat \cup {None} /\ x.began \in Nat
    BY <2>2 DEF Work
  <2>5. holder'[x.phone] # t => holder[x.phone] # t
    BY <1>1, <2>1, <2>2
  <2>6. x.row # None => x.row <= issues'
    BY <2>2, <2>3, <2>4
  <2>7. CASE d = None
    BY <2>1, <2>6, <2>7
  <2>8. CASE d # None /\ c # None /\ d.row = c.row /\ c.since <= d.since
    <3>1. c.since \in Nat /\ d.since \in Nat
      BY <2>2, <2>8 DEF CodeRow
    <3> QED
      BY <2>1, <2>3, <2>4, <2>5, <2>6, <2>8, <3>1
  <2>9. CASE d # None /\ issues < d.row /\ d.since = now
    <3>1. d.row # x.row
      BY <2>2, <2>3, <2>4, <2>9, SignInAssumption
    <3> QED
      BY <2>1, <2>2, <2>6, <2>9, <3>1
  <2> QED
    BY <2>2, <2>7, <2>8, <2>9
<1> QED
  BY <1>3, <1>4, <1>5

\* A transaction that writes nothing, or one that deletes a row it may write.
LEMMA RefuseKeeps ==
  ASSUME SignInInv, NEW s \in Sessions, Refuse(s), now' = now
  PROVE  SignInInv'
<1>1. UNCHANGED <<challenge, issues, wrong, redeemed>> /\ End(s)
  BY DEF Refuse, accounts, history
<1>2. SignInTyped'
  BY <1>1, Ended DEF SignInInv, SignInTyped, Idle
<1>3. CodesLive' /\ CodesSpent'
  BY <1>1 DEF SignInInv, CodesLive, CodesSpent
<1>4. RowsLocked' /\ SignInsLock' /\ RowsLater'
  BY <1>1, EndKeeps, SignInAssumption DEF SignInInv, SignInTyped, CodeRow
<1> QED
  BY <1>2, <1>3, <1>4 DEF SignInInv

\* A row that is deleted takes its code along: it cannot be used again.
LEMMA DeletedKeeps ==
  ASSUME SignInInv, NEW s \in Sessions, NEW p \in Phones, End(s), now' = now,
         challenge' = [challenge EXCEPT ![p] = None], holder[p] \in {None, s},
         UNCHANGED <<issues, wrong>>, redeemed' \in [Issues -> Nat],
         \A i \in Issues : redeemed'[i] = redeemed[i]
                             \/ /\ challenge[p] # None /\ i = challenge[p].issue
                                /\ redeemed'[i] = redeemed[i] + 1
  PROVE  SignInInv'
<1>1. /\ challenge \in [Phones -> CodeRow \cup {None}] /\ challenge'[p] = None
      /\ \A q \in Phones \ {p} : challenge'[q] = challenge[q]
  BY DEF SignInInv, SignInTyped
<1>2. SignInTyped'
  BY <1>1, Ended DEF SignInInv, SignInTyped, Idle
<1>3. \A q \in Phones : challenge'[q] # None => q # p /\ challenge'[q] = challenge[q]
  BY <1>1
<1>4. CodesLive'
  <2>1. ASSUME NEW q \in Phones, challenge'[q] # None
        PROVE  /\ challenge'[q].issue <= issues' /\ challenge'[q].row <= issues'
               /\ challenge'[q].since <= now'
               /\ challenge'[q].attempts = wrong'[challenge'[q].issue]
               /\ redeemed'[challenge'[q].issue] = 0
    <3>1. challenge[q].issue \in Issues /\ challenge[q] # None
      BY <1>1, <1>3, <2>1 DEF CodeRow
    <3>2. challenge[p] # None => challenge[p].issue # challenge[q].issue
      BY <1>3, <2>1, <3>1 DEF SignInInv, CodesLive
    <3>3. redeemed'[challenge[q].issue] = redeemed[challenge[q].issue]
      BY <3>1, <3>2
    <3> QED
      BY <1>3, <2>1, <3>1, <3>3 DEF SignInInv, CodesLive
  <2>2. \A q, r \in Phones : challenge'[q] # None /\ challenge'[r] # None /\ q # r =>
          challenge'[q].issue # challenge'[r].issue
    BY <1>3 DEF SignInInv, CodesLive
  <2> QED
    BY <2>1, <2>2 DEF CodesLive
<1>5. CodesSpent'
  <2> SUFFICES ASSUME NEW i \in Issues
               PROVE  /\ wrong'[i] <= MaxAttempts /\ redeemed'[i] <= 1
                      /\ i > issues' => wrong'[i] = 0 /\ redeemed'[i] = 0
    BY DEF CodesSpent
  <2>1. /\ wrong'[i] <= MaxAttempts /\ redeemed[i] <= 1 /\ issues' = issues
        /\ i > issues' => wrong'[i] = 0 /\ redeemed[i] = 0
    BY DEF SignInInv, CodesSpent
  <2>2. CASE redeemed'[i] = redeemed[i]
    BY <2>1, <2>2
  <2>3. CASE challenge[p] # None /\ i = challenge[p].issue /\ redeemed'[i] = redeemed[i] + 1
    <3>1. redeemed[i] = 0 /\ i <= issues
      BY <2>3 DEF SignInInv, CodesLive
    <3>2. i \in Nat /\ issues \in Nat
      BY SignInAssumption DEF SignInInv, SignInTyped, Issues
    <3> QED
      BY <2>1, <2>3, <3>1, <3>2
  <2> QED
    BY <2>2, <2>3
<1>6. RowsLocked' /\ SignInsLock' /\ RowsLater'
  <2>1. \A q \in Phones : holder'[q] # None => q # p
    BY Ended
  <2>2. \A q \in Phones : challenge'[q] # None =>
          challenge'[q].row \in Nat /\ challenge'[q].since \in Nat
    BY <1>1, <1>3 DEF CodeRow
  <2>3. \A q \in Phones : challenge'[q] # None =>
          /\ challenge[q] # None /\ challenge'[q].row = challenge[q].row
          /\ challenge[q].since <= challenge'[q].since
    BY <1>3, <2>2
  <2>4. issues' \in Nat /\ issues <= issues'
    BY SignInAssumption DEF SignInInv, SignInTyped
  <2>5. \A q \in Phones : holder'[q] # None => challenge'[q] = challenge[q]
    BY <1>1, <2>1
  <2> QED
    BY <2>2, <2>3, <2>4, <2>5, EndKeeps
<1> QED
  BY <1>2, <1>4, <1>5, <1>6 DEF SignInInv

\* A transaction begins: it has the row of the moment in mind.
LEMMA BeginKeeps ==
  ASSUME SignInInv, NEW s \in Sessions, NEW p \in Phones, NEW x \in Work, now' = now,
         Begin(s, x), x.at = "select", x.phone = p, x.row = RowOf(p), x.began = now
  PROVE  SignInInv'
<1>1. /\ login[s] = Idle /\ UNCHANGED <<challenge, holder, issues, wrong, redeemed>>
      /\ login' \in [Sessions -> Work] /\ login'[s] = x
      /\ \A t \in Sessions \ {s} : login'[t] = login[t]
  BY DEF Begin, accounts, history, SignInInv, SignInTyped
<1>2. Idle.at = "none"
  BY DEF Idle
<1>3. SignInTyped'
  BY <1>1 DEF SignInInv, SignInTyped
<1>4. CodesLive' /\ CodesSpent'
  BY <1>1 DEF SignInInv, CodesLive, CodesSpent
<1>5. RowsLocked'
  <2> SUFFICES ASSUME NEW q \in Phones, holder[q] # None
               PROVE  login'[holder[q]] = login[holder[q]]
    BY <1>1 DEF SignInInv, RowsLocked
  <2>1. holder[q] \in Sessions /\ login[holder[q]].at # "none"
    BY DEF SignInInv, SignInTyped, RowsLocked
  <2> QED
    BY <1>1, <1>2, <2>1
<1>6. SignInsLock'
  BY <1>1 DEF SignInInv, SignInsLock
<1>7. RowsLater'
  <2>1. /\ x.row # None => x.row <= issues
        /\ challenge[p] # None => challenge[p].row = x.row
    BY DEF RowOf, SignInInv, CodesLive
  <2> QED
    BY <1>1, <2>1 DEF SignInInv, RowsLater
<1> QED
  BY <1>3, <1>4, <1>5, <1>6, <1>7 DEF SignInInv

\* A transaction goes on, with the row it found locked; if it found none, another
\* may have come since.
LEMMA LockingKeeps ==
  ASSUME SignInInv, NEW s \in Sessions, NEW place \in {"upsert", "signin", "insert"},
         Granted(s), Locking(s, place), now' = now,
         UNCHANGED <<challenge, issues, wrong, redeemed>>,
         place # "upsert" => Found(login[s]) # None,
         place = "upsert" => ~TooSoon(Found(login[s]))
  PROVE  SignInInv'
<1> DEFINE x == login[s]
           p == x.phone
           c == Found(x)
<1>1. /\ x \in Work /\ x.at = "select" /\ p \in Phones /\ x.began <= now
      /\ challenge \in [Phones -> CodeRow \cup {None}]
      /\ holder \in [Phones -> Sessions \cup {None}] /\ login \in [Sessions -> Work]
      /\ now \in Nat
  BY DEF Granted, SignInInv, SignInTyped
<1>2. /\ x.row # None => x.row <= issues
      /\ challenge[p] # None /\ challenge[p].row # x.row => x.began <= challenge[p].since
  BY <1>1 DEF SignInInv, RowsLater
<1>3. \A q \in Phones : holder[q] # s
  BY <1>1, SignInAssumption DEF SignInInv, RowsLocked
<1>4. CodesLive' /\ CodesSpent'
  BY DEF SignInInv, CodesLive, CodesSpent
<1>5. CASE c = None
  <2>1. /\ holder' = holder /\ login' = [login EXCEPT ![s].at = place] /\ place = "upsert"
    BY <1>5 DEF Locking
  <2>2. /\ login' \in [Sessions -> Work] /\ \A t \in Sessions \ {s} : login'[t] = login[t]
        /\ login'[s] = [x EXCEPT !.at = place]
    BY <1>1, <2>1 DEF Work
  <2>3. /\ login'[s].phone = p /\ login'[s].row = x.row /\ login'[s].began = x.began
        /\ login'[s].at = place
    BY <1>1, <2>2 DEF Work
  <2>4. SignInTyped'
    BY <1>1, <2>1, <2>2, <2>3 DEF SignInInv, SignInTyped
  <2>5. RowsLocked'
    BY <1>1, <1>3, <2>1, <2>2 DEF SignInInv, RowsLocked
  <2>6. SignInsLock'
    BY <2>1, <2>2, <2>3 DEF SignInInv, SignInsLock
  <2>7. challenge[p] = None \/ challenge[p].row # x.row
    BY <1>5 DEF Found, RowOf
  <2>8. RowsLater'
    BY <1>2, <2>1, <2>2, <2>3, <2>7 DEF SignInInv, RowsLater
  <2> QED
    BY <1>4, <2>4, <2>5, <2>6, <2>8 DEF SignInInv
<1>6. CASE c # None
  <2>1. /\ login' = [login EXCEPT ![s].at = place, ![s].issue = c.issue]
        /\ holder' = [holder EXCEPT ![p] = s]
    BY <1>6 DEF Locking
  <2>2. c = challenge[p] /\ c \in CodeRow /\ holder[p] = None
    BY <1>1, <1>6 DEF Found, Granted
  <2>3. c.issue \in Nat
    BY <2>2, SignInAssumption DEF CodeRow, Issues
  <2>4. /\ login'[s] = [x EXCEPT !.at = place, !.issue = c.issue]
        /\ \A t \in Sessions \ {s} : login'[t] = login[t]
    BY <1>1, <2>1 DEF Work
  <2>5. /\ login'[s] \in Work
        /\ login'[s].phone = p /\ login'[s].row = x.row /\ login'[s].began = x.began
        /\ login'[s].at = place /\ login'[s].issue = c.issue
    BY <1>1, <2>3, <2>4 DEF Work
  <2>6. login' \in [Sessions -> Work]
    BY <1>1, <2>1, <2>4, <2>5
  <2>7. /\ holder' \in [Phones -> Sessions \cup {None}] /\ holder'[p] = s
        /\ \A q \in Phones \ {p} : holder'[q] = holder[q]
    BY <1>1, <2>1
  <2>8. SignInTyped'
    BY <1>1, <2>4, <2>5, <2>6, <2>7 DEF SignInInv, SignInTyped
  <2>9. place = "upsert" => c.created + Resend <= now
    <3> SUFFICES ASSUME place = "upsert"
                 PROVE  c.created + Resend <= now
      OBVIOUS
    <3>1. ~(c.created > now - Resend)
      BY <1>6 DEF TooSoon
    <3>2. c.created \in Nat /\ Resend \in Nat
      BY <2>2, SignInAssumption DEF CodeRow
    <3> QED
      BY <1>1, <3>1, <3>2
  <2>10. RowsLocked'
    <3> SUFFICES ASSUME NEW q \in Phones, holder'[q] # None
                 PROVE  LET y == login'[holder'[q]]
                        IN  /\ y.phone = q /\ y.at \in {"upsert", "signin", "insert"}
                            /\ challenge[q] # None /\ challenge[q].issue = y.issue
                            /\ y.at = "upsert" => challenge[q].created + Resend <= now
      BY DEF RowsLocked
    <3>1. CASE q = p
      BY <1>6, <2>2, <2>5, <2>7, <2>9, <3>1
    <3>2. CASE q # p
      <4>1. holder'[q] = holder[q] /\ holder[q] \in Sessions \ {s}
        BY <1>1, <1>3, <2>7, <3>2
      <4> QED
        BY <2>4, <4>1 DEF SignInInv, RowsLocked
    <3> QED
      BY <3>1, <3>2
  <2>11. SignInsLock'
    <3> SUFFICES ASSUME NEW t \in Sessions, login'[t].at \in {"signin", "insert"}
                 PROVE  holder'[login'[t].phone] = t
      BY DEF SignInsLock
    <3>1. CASE t = s
      BY <2>5, <2>7, <3>1
    <3>2. CASE t # s
      <4>1. holder[login[t].phone] = t /\ login[t].phone \in Phones
        BY <2>4, <3>2 DEF SignInInv, SignInsLock, SignInTyped
      <4>2. login[t].phone # p
        BY <2>2, <4>1, SignInAssumption
      <4> QED
        BY <2>4, <2>7, <3>2, <4>1, <4>2
    <3> QED
      BY <3>1, <3>2
  <2>12. RowsLater'
    <3> SUFFICES ASSUME NEW t \in Sessions, login'[t].at \in {"select", "upsert"}
                 PROVE  LET y == login'[t]
                            d == challenge[y.phone]
                        IN  /\ y.row # None => y.row <= issues
                            /\ d # None /\ d.row # y.row => y.began <= d.since
                            /\ y.at = "upsert" /\ holder'[y.phone] # t =>
                                 d = None \/ d.row # y.row
      BY DEF RowsLater
    <3>1. CASE t = s
      BY <1>2, <2>5, <2>7, <3>1
    <3>2. CASE t # s
      <4>1. login'[t] = login[t] /\ login[t].phone \in Phones
        BY <2>4, <3>2 DEF SignInInv, SignInTyped
      <4>2. holder'[login[t].phone] # t => holder[login[t].phone] # t
        BY <2>2, <2>7, <3>2, <4>1, SignInAssumption
      <4> QED
        BY <4>1, <4>2 DEF SignInInv, RowsLater
    <3> QED
      BY <3>1, <3>2
  <2> QED
    BY <1>4, <2>8, <2>10, <2>11, <2>12 DEF SignInInv
<1> QED
  BY <1>5, <1>6

\* A wrong guess, counted in the row and in the history.
LEMMA GuessKeeps ==
  ASSUME SignInInv, NEW s \in Sessions, NEW p \in Phones, End(s), now' = now,
         challenge[p] # None, holder[p] = None, challenge[p].attempts < MaxAttempts,
         challenge' = [challenge EXCEPT ![p].attempts = @ + 1],
         wrong' = [wrong EXCEPT ![challenge[p].issue] = @ + 1],
         UNCHANGED <<issues, redeemed>>
  PROVE  SignInInv'
<1> DEFINE c == challenge[p]
           d == [c EXCEPT !.attempts = c.attempts + 1]
           i == c.issue
<1>1. /\ c \in CodeRow /\ i \in Issues /\ i <= issues /\ c.attempts = wrong[i]
      /\ c.attempts \in Nat /\ c.row \in Nat /\ c.since \in Nat
      /\ challenge \in [Phones -> CodeRow \cup {None}] /\ wrong \in [Issues -> Nat]
  BY DEF SignInInv, SignInTyped, CodesLive, CodeRow
<1>2. /\ d \in CodeRow /\ d.issue = i /\ d.row = c.row /\ d.since = c.since
      /\ d.attempts = c.attempts + 1
  BY <1>1 DEF CodeRow
<1>3. /\ challenge'[p] = d /\ \A q \in Phones \ {p} : challenge'[q] = challenge[q]
      /\ challenge' \in [Phones -> CodeRow \cup {None}]
  BY <1>1, <1>2
<1>4. /\ wrong'[i] = wrong[i] + 1 /\ \A j \in Issues \ {i} : wrong'[j] = wrong[j]
      /\ wrong' \in [Issues -> Nat]
  BY <1>1
<1> HIDE DEF d
<1>5. SignInTyped'
  BY <1>3, <1>4, Ended DEF SignInInv, SignInTyped, Idle
<1>6. CodesLive'
  <2>1. ASSUME NEW q \in Phones, challenge'[q] # None
        PROVE  /\ challenge'[q].issue <= issues' /\ challenge'[q].row <= issues'
               /\ challenge'[q].since <= now'
               /\ challenge'[q].attempts = wrong'[challenge'[q].issue]
               /\ redeemed'[challenge'[q].issue] = 0
    <3>1. CASE q = p
      BY <1>1, <1>2, <1>3, <1>4, <3>1 DEF SignInInv, CodesLive
    <3>2. CASE q # p
      <4>1. challenge[q] \in CodeRow /\ challenge[q] # None /\ challenge'[q] = challenge[q]
        BY <1>1, <1>3, <2>1, <3>2
      <4>2. challenge[q].issue \in Issues /\ challenge[q].issue # i
        BY <3>2, <4>1 DEF CodeRow, SignInInv, CodesLive
      <4> QED
        BY <1>4, <4>1, <4>2 DEF SignInInv, CodesLive
    <3> QED
      BY <3>1, <3>2
  <2>2. \A q \in Phones : challenge'[q] # None =>
          challenge[q] # None /\ challenge'[q].issue = challenge[q].issue
    BY <1>2, <1>3
  <2>3. \A q, r \in Phones : challenge'[q] # None /\ challenge'[r] # None /\ q # r =>
          challenge'[q].issue # challenge'[r].issue
    BY <2>2 DEF SignInInv, CodesLive
  <2> QED
    BY <2>1, <2>3 DEF CodesLive
<1>7. CodesSpent'
  <2> SUFFICES ASSUME NEW j \in Issues
               PROVE  /\ wrong'[j] <= MaxAttempts /\ redeemed[j] <= 1
                      /\ j > issues => wrong'[j] = 0 /\ redeemed[j] = 0
    BY DEF CodesSpent
  <2>1. /\ wrong[j] <= MaxAttempts /\ redeemed[j] <= 1
        /\ j > issues => wrong[j] = 0 /\ redeemed[j] = 0
    BY DEF SignInInv, CodesSpent
  <2>2. CASE j # i
    BY <1>4, <2>1, <2>2
  <2>3. CASE j = i
    <3>1. MaxAttempts \in Nat /\ j \in Nat /\ issues \in Nat
      BY SignInAssumption DEF Issues, SignInInv, SignInTyped
    <3> QED
      BY <1>1, <1>4, <2>1, <2>3, <3>1
  <2> QED
    BY <2>2, <2>3
<1>8. RowsLocked' /\ SignInsLock' /\ RowsLater'
  <2>1. \A q \in Phones : holder'[q] # None => q # p
    BY Ended
  <2>2. \A q \in Phones : holder'[q] # None => challenge'[q] = challenge[q]
    BY <1>3, <2>1
  <2>3. \A q \in Phones : challenge'[q] # None =>
          /\ challenge[q] # None /\ challenge'[q].row = challenge[q].row
          /\ challenge'[q].since = challenge[q].since
          /\ challenge'[q].row \in Nat /\ challenge'[q].since \in Nat
    BY <1>1, <1>2, <1>3 DEF CodeRow
  <2>4. \A q \in Phones : challenge'[q] # None => challenge[q].since <= challenge'[q].since
    BY <2>3
  <2>5. issues' \in Nat /\ issues <= issues'
    BY SignInAssumption DEF SignInInv, SignInTyped
  <2> QED
    BY <2>2, <2>3, <2>4, <2>5, EndKeeps
<1> QED
  BY <1>5, <1>6, <1>7, <1>8 DEF SignInInv

\* A code is issued: its number is new, and it has no history.
LEMMA UpsertKeeps ==
  ASSUME SignInInv, NEW s \in Sessions, Upsert(s), now' = now
  PROVE  SignInInv'
<1> DEFINE p == login[s].phone
<1>1. PICK code \in Codes :
        challenge' = [challenge EXCEPT ![p] = Issued(p, login[s].began, code)]
  BY DEF Upsert
<1> DEFINE d == Issued(p, login[s].began, code)
<1>2. /\ login[s].at = "upsert" /\ p \in Phones /\ login[s].began \in Nat /\ now \in Nat
      /\ challenge \in [Phones -> CodeRow \cup {None}]
      /\ holder[p] \in {None, s} /\ End(s)
      /\ issues \in Nat /\ issues < MaxIssues /\ issues' = issues + 1 /\ MaxIssues \in Nat
      /\ wrong' = wrong /\ redeemed' = redeemed
  BY SignInAssumption DEF Upsert, SignInInv, SignInTyped, Work
<1>3. issues' \in Issues /\ issues' \in 0 .. MaxIssues
  BY <1>2 DEF Issues
<1>4. /\ d \in CodeRow /\ d.issue = issues' /\ d.attempts = 0 /\ d.since = now
      /\ d.row \in Nat /\ d.row <= issues'
      /\ IF challenge[p] = None THEN d.row = issues + 1 ELSE d.row = challenge[p].row
  <2>1. challenge[p] # None => challenge[p].row \in Nat /\ challenge[p].row <= issues
    BY <1>2 DEF CodeRow, SignInInv, CodesLive
  <2>2. ValidFor \in Nat
    BY SignInAssumption
  <2> QED
    BY <1>2, <1>3, <2>1, <2>2 DEF Issued, CodeRow
<1> HIDE DEF d
<1>5. /\ challenge'[p] = d /\ \A q \in Phones \ {p} : challenge'[q] = challenge[q]
      /\ challenge' \in [Phones -> CodeRow \cup {None}]
  BY <1>1, <1>2, <1>4 DEF d
<1>6. SignInTyped'
  BY <1>2, <1>3, <1>5, Ended DEF SignInInv, SignInTyped, Idle
<1>7. wrong[issues'] = 0 /\ redeemed[issues'] = 0
  BY <1>2, <1>3 DEF SignInInv, CodesSpent
<1>8. ASSUME NEW q \in Phones \ {p}, challenge'[q] # None
      PROVE  /\ challenge[q] # None /\ challenge'[q] = challenge[q]
             /\ challenge[q].issue \in Nat /\ challenge[q].row \in Nat
             /\ challenge[q].since \in Nat
             /\ challenge[q].issue <= issues /\ challenge[q].row <= issues
  BY <1>2, <1>5, <1>8, SignInAssumption DEF SignInInv, CodesLive, CodeRow, Issues
<1>9. CodesLive'
  <2>1. ASSUME NEW q \in Phones, challenge'[q] # None
        PROVE  /\ challenge'[q].issue <= issues' /\ challenge'[q].row <= issues'
               /\ challenge'[q].since <= now'
               /\ challenge'[q].attempts = wrong'[challenge'[q].issue]
               /\ redeemed'[challenge'[q].issue] = 0
    <3>1. CASE q = p
      BY <1>2, <1>3, <1>4, <1>5, <1>7, <3>1
    <3>2. CASE q # p
      BY <1>2, <1>8, <2>1, <3>2 DEF SignInInv, CodesLive
    <3> QED
      BY <3>1, <3>2
  <2>2. ASSUME NEW q \in Phones, NEW r \in Phones, challenge'[q] # None,
               challenge'[r] # None, q # r
        PROVE  challenge'[q].issue # challenge'[r].issue
    <3>1. CASE q = p
      BY <1>2, <1>4, <1>5, <1>8, <2>2, <3>1
    <3>2. CASE r = p
      BY <1>2, <1>4, <1>5, <1>8, <2>2, <3>2
    <3>3. CASE q # p /\ r # p
      BY <1>8, <2>2, <3>3 DEF SignInInv, CodesLive
    <3> QED
      BY <3>1, <3>2, <3>3
  <2> QED
    BY <2>1, <2>2 DEF CodesLive
<1>10. CodesSpent'
  BY <1>2, SignInAssumption DEF SignInInv, CodesSpent, Issues
<1>11. RowsLocked' /\ SignInsLock' /\ RowsLater'
  <2>1. \A q \in Phones : holder'[q] # None => challenge'[q] = challenge[q]
    BY <1>2, <1>5, Ended
  <2>2. ASSUME NEW q \in Phones, challenge'[q] # None
        PROVE  /\ challenge'[q].row \in Nat /\ challenge'[q].since \in Nat
               /\ \/ /\ challenge[q] # None /\ challenge'[q].row = challenge[q].row
                     /\ challenge[q].since <= challenge'[q].since
                  \/ issues < challenge'[q].row /\ challenge'[q].since = now
    <3>1. CASE q # p
      BY <1>8, <2>2, <3>1
    <3>2. CASE q = p /\ challenge[p] = None
      BY <1>2, <1>4, <1>5, <3>2
    <3>3. CASE q = p /\ challenge[p] # None
      <4>1. challenge[p].since <= now
        BY <1>2, <3>3 DEF SignInInv, CodesLive
      <4> QED
        BY <1>2, <1>4, <1>5, <3>3, <4>1
    <3> QED
      BY <3>1, <3>2, <3>3
  <2>3. issues' \in Nat /\ issues <= issues'
    BY <1>2
  <2> QED
    BY <1>2, <2>1, <2>2, <2>3, EndKeeps
<1> QED
  BY <1>6, <1>9, <1>10, <1>11 DEF SignInInv
-----------------------------------------------------------------------------
(* The steps. *)

\* A transaction that begins notes the row it has seen, or that it has seen none.
LEMMA RequestKeeps ==
  ASSUME SignInInv, NEW s \in Sessions, NEW p \in Phones, now' = now,
         BeginRequest(s, p) \/ \E g \in Codes : BeginVerify(s, p, g)
  PROVE  SignInInv'
<1>1. Idle \in Work /\ RowOf(p) \in Nat \cup {None} /\ now \in Nat
  BY DEF Idle, Work, RowOf, SignInInv, SignInTyped, CodeRow
<1>2. CASE BeginRequest(s, p)
  <2> DEFINE x == [Idle EXCEPT !.op = "request", !.at = "select", !.phone = p,
                               !.row = RowOf(p), !.began = now]
  <2>1. /\ x \in Work /\ x.at = "select" /\ x.phone = p /\ x.row = RowOf(p)
        /\ x.began = now
    BY <1>1 DEF Idle, Work
  <2>2. Begin(s, x)
    BY <1>2 DEF BeginRequest
  <2> HIDE DEF x
  <2> QED
    BY <2>1, <2>2, BeginKeeps
<1>3. ASSUME NEW g \in Codes, BeginVerify(s, p, g)
      PROVE  SignInInv'
  <2> DEFINE x == [Idle EXCEPT !.op = "verify", !.at = "select", !.phone = p,
                               !.row = RowOf(p), !.began = now, !.guess = g]
  <2>1. /\ x \in Work /\ x.at = "select" /\ x.phone = p /\ x.row = RowOf(p)
        /\ x.began = now
    BY <1>1 DEF Idle, Work
  <2>2. Begin(s, x)
    BY <1>3 DEF BeginVerify
  <2> HIDE DEF x
  <2> QED
    BY <2>1, <2>2, BeginKeeps
<1> QED
  BY <1>2, <1>3

\* What a request finds decides how it goes on.
LEMMA SelectRequestKeeps ==
  ASSUME SignInInv, NEW s \in Sessions, SelectRequest(s), now' = now
  PROVE  SignInInv'
<1>1. CASE Refuse(s)
  BY <1>1, RefuseKeeps
<1>2. CASE ~TooSoon(Found(login[s])) /\ Locking(s, "upsert")
           /\ UNCHANGED <<accounts, history>>
  BY <1>2, LockingKeeps DEF SelectRequest, accounts, history
<1> QED
  BY <1>1, <1>2 DEF SelectRequest

\* A verification counts a wrong guess, deletes a spent code or locks the row.
LEMMA SelectVerifyKeeps ==
  ASSUME SignInInv, NEW s \in Sessions, SelectVerify(s), now' = now
  PROVE  SignInInv'
<1> DEFINE p == login[s].phone
           c == Found(login[s])
<1>1. /\ Granted(s) /\ p \in Phones /\ redeemed \in [Issues -> Nat]
      /\ c # None => c = challenge[p] /\ holder[p] = None
  BY DEF SelectVerify, Granted, Found, SignInInv, SignInTyped
<1>2. CASE Refuse(s)
  BY <1>2, RefuseKeeps
<1>3. CASE /\ c # None /\ challenge' = [challenge EXCEPT ![p] = None]
           /\ End(s) /\ UNCHANGED <<appUser, history>>
  BY <1>1, <1>3, DeletedKeeps DEF history
<1>4. CASE /\ c # None /\ c.attempts < MaxAttempts
           /\ challenge' = [challenge EXCEPT ![p].attempts = @ + 1]
           /\ wrong' = [wrong EXCEPT ![c.issue] = @ + 1]
           /\ End(s) /\ UNCHANGED <<appUser, issues, redeemed>>
  BY <1>1, <1>4, GuessKeeps
<1>5. CASE /\ c # None
           /\ Locking(s, IF Registered(p) = {} THEN "insert" ELSE "signin")
           /\ UNCHANGED <<accounts, history>>
  <2> DEFINE place == IF Registered(p) = {} THEN "insert" ELSE "signin"
  <2>1. place \in {"upsert", "signin", "insert"} /\ place # "upsert"
    OBVIOUS
  <2>2. Locking(s, place) /\ UNCHANGED <<challenge, issues, wrong, redeemed>>
    BY <1>5 DEF accounts, history
  <2> HIDE DEF place
  <2> QED
    BY <1>1, <1>5, <2>1, <2>2, LockingKeeps
<1> QED
  BY <1>2, <1>3, <1>4, <1>5 DEF SelectVerify

\* The code that signs a user in is the one of the row that is locked and deleted.
LEMMA RedeemKeeps ==
  ASSUME SignInInv, NEW s \in Sessions, login[s].at \in {"signin", "insert"},
         Redeem(s), now' = now
  PROVE  SignInInv'
<1> DEFINE p == login[s].phone
           i == login[s].issue
<1>1. p \in Phones /\ holder[p] = s /\ s # None
  BY SignInAssumption DEF SignInInv, SignInTyped, SignInsLock
<1>2. challenge[p] # None /\ challenge[p].issue = i /\ i \in Issues
  BY <1>1 DEF SignInInv, SignInTyped, CodeRow, RowsLocked
<1>3. /\ redeemed \in [Issues -> Nat] /\ redeemed' = [redeemed EXCEPT ![i] = @ + 1]
      /\ challenge' = [challenge EXCEPT ![p] = None]
      /\ End(s) /\ UNCHANGED <<issues, wrong>>
  BY DEF Redeem, SignInInv, SignInTyped
<1>4. /\ redeemed' \in [Issues -> Nat] /\ redeemed'[i] = redeemed[i] + 1
      /\ \A j \in Issues \ {i} : redeemed'[j] = redeemed[j]
  BY <1>2, <1>3
<1>5. \A j \in Issues : redeemed'[j] = redeemed[j]
                          \/ (j = challenge[p].issue /\ redeemed'[j] = redeemed[j] + 1)
  BY <1>2, <1>4
<1> QED
  BY <1>1, <1>2, <1>3, <1>4, <1>5, DeletedKeeps

\* The first sign-in of a phone, which may meet another one.
LEMMA RegisterKeeps ==
  ASSUME SignInInv, NEW s \in Sessions, Register(s), now' = now
  PROVE  SignInInv'
<1>1. Refuse(s) \/ Redeem(s)
  BY DEF Register
<1> QED
  BY <1>1, RefuseKeeps, RedeemKeeps DEF Register

\* Sign-in by codes, beside the clock.
SignInNext ==
  \/ Tick /\ UNCHANGED signInVars
  \/ SignInStep /\ UNCHANGED now

\* One step per operation of the account service, and the clock.
LEMMA SignInKeeps == SignInInv /\ [SignInNext]_<<now, signInVars>> => SignInInv'
<1> SUFFICES ASSUME SignInInv, [SignInNext]_<<now, signInVars>>
             PROVE  SignInInv'
  OBVIOUS
<1>1. CASE UNCHANGED signInVars /\ (now' = now \/ now' = now + 1)
  BY <1>1, OthersKeep DEF signInVars, accounts, history
<1>2. ASSUME NEW s \in Sessions, now' = now,
             \/ \E p \in Phones : BeginRequest(s, p) \/ \E g \in Codes : BeginVerify(s, p, g)
             \/ SelectRequest(s) \/ Upsert(s) \/ SelectVerify(s) \/ SignIn(s) \/ Register(s)
      PROVE  SignInInv'
  BY <1>2, RequestKeeps, SelectRequestKeeps, UpsertKeeps, SelectVerifyKeeps, RedeemKeeps,
     RegisterKeeps DEF SignIn
<1>3. ASSUME NEW a \in Accounts, now' = now,
             \/ \E phone \in Phones \cup {None} : UserSave(a, phone)
             \/ UserDelete(a) \/ Use(a)
             \/ \E status \in {"active", "frozen"} : SetUserStatus(a, status)
      PROVE  SignInInv'
  BY <1>3, OthersKeep DEF UserSave, UserDelete, Use, SetUserStatus, Unchanged, history
<1> QED
  BY <1>1, <1>2, <1>3 DEF SignInNext, Tick, SignInStep

\* For any number of connections, phones and codes: a code signs in at most once, and
\* the attempts of a challenge are the wrong guesses made against its own code, five
\* at most (verify_otp, account_service.py).
THEOREM CodesStayHonoured ==
  ClockInit /\ SignInInit /\ [][SignInNext]_<<now, signInVars>> => []CodesHonoured
<1>1. SignInInv => CodesHonoured
  BY DEF SignInInv, CodesLive, CodesSpent, CodesHonoured, OneLoginPerCode, GuessesCounted
<1> QED
  BY <1>1, SignInStarts, SignInKeeps, PTL

\* Only an upsert replaces a code: under the lock of a row that was old enough, or
\* after a look that did not find the row.
LEMMA UpsertSpaced ==
  ASSUME SignInInv, NEW s \in Sessions, Upsert(s), now' = now, NEW p \in Phones,
         challenge[p] # None, challenge'[p] # None
  PROVE  \/ challenge'[p].issue = challenge[p].issue
         \/ challenge'[p].since >= challenge[p].created + Resend
         \/ challenge'[p].created <= challenge[p].since
<1> DEFINE x == login[s]
           c == challenge[p]
<1>1. CASE p # x.phone
  <2>1. challenge'[p] = challenge[p]
    BY <1>1 DEF Upsert
  <2> QED
    BY <2>1
<1>2. CASE p = x.phone
  <2>1. PICK code \in Codes : challenge' = [challenge EXCEPT ![p] = Issued(p, x.began, code)]
    BY <1>2 DEF Upsert
  <2>2. /\ challenge'[p].created = x.began /\ challenge'[p].since = now
        /\ x.at = "upsert" /\ holder[p] \in {None, s}
        /\ c \in CodeRow /\ now \in Nat
    BY <1>2, <2>1 DEF Upsert, Issued, SignInInv, SignInTyped
  <2>3. CASE holder[p] = s
    <3>1. c.created + Resend <= now
      BY <2>2, <2>3, SignInAssumption DEF SignInInv, RowsLocked
    <3>2. c.created \in Nat /\ Resend \in Nat
      BY <2>2, SignInAssumption DEF CodeRow
    <3> QED
      BY <2>2, <3>1, <3>2
  <2>4. CASE holder[p] # s
    BY <1>2, <2>2, <2>4 DEF SignInInv, RowsLater
  <2> QED
    BY <2>3, <2>4
<1> QED
  BY <1>1, <1>2

\* The other steps leave the numbers of the codes.
LEMMA NumbersKept ==
  ASSUME SignInInv, [SignInNext]_<<now, signInVars>>, NEW p \in Phones,
         challenge[p] # None, challenge'[p] # None
  PROVE  \/ challenge'[p].issue = challenge[p].issue
         \/ \E s \in Sessions : Upsert(s) /\ now' = now
<1>0. challenge \in [Phones -> CodeRow \cup {None}] /\ challenge[p] \in CodeRow
  BY DEF SignInInv, SignInTyped
<1>1. CASE challenge' = challenge
  BY <1>1
<1>2. ASSUME NEW q, challenge' = [challenge EXCEPT ![q] = None]
      PROVE  challenge'[p].issue = challenge[p].issue
  BY <1>0, <1>2
<1>3. ASSUME NEW q, challenge' = [challenge EXCEPT ![q].attempts = @ + 1]
      PROVE  challenge'[p].issue = challenge[p].issue
  BY <1>0, <1>3 DEF CodeRow
<1>4. ASSUME NEW s \in Sessions,
             \/ \E q \in Phones : BeginRequest(s, q) \/ \E g \in Codes : BeginVerify(s, q, g)
             \/ SelectRequest(s) \/ SelectVerify(s) \/ SignIn(s) \/ Register(s)
      PROVE  challenge'[p].issue = challenge[p].issue
  BY <1>1, <1>2, <1>3, <1>4 DEF BeginRequest, BeginVerify, Begin, SelectRequest, Refuse,
     SelectVerify, SignIn, Register, Redeem, accounts
<1>5. ASSUME NEW a \in Accounts,
             \/ \E phone \in Phones \cup {None} : UserSave(a, phone)
             \/ UserDelete(a) \/ Use(a)
             \/ \E status \in {"active", "frozen"} : SetUserStatus(a, status)
      PROVE  challenge'[p].issue = challenge[p].issue
  BY <1>1, <1>5 DEF UserSave, UserDelete, Use, SetUserStatus, Unchanged
<1>6. CASE UNCHANGED signInVars
  BY <1>1, <1>6 DEF signInVars, accounts
<1> QED
  BY <1>4, <1>5, <1>6 DEF SignInNext, SignInStep

\* A code is replaced only when it is a minute old, or by a request that was sent
\* before anybody could see it (request_otp, account_service.py).
THEOREM CodesStaySpaced ==
  ClockInit /\ SignInInit /\ [][SignInNext]_<<now, signInVars>> => CodesSpaced
<1> DEFINE Spaced == \A p \in Phones :
             LET c == challenge[p]
                 d == challenge'[p]
             IN  c # None /\ d # None => d.issue = c.issue
                   \/ d.since >= c.created + Resend \/ d.created <= c.since
<1>1. SignInInv /\ [SignInNext]_<<now, signInVars>> => Spaced
  BY NumbersKept, UpsertSpaced
<1>2. CodesSpaced <=> [][Spaced]_<<now, signInVars>>
  BY DEF CodesSpaced
<1> HIDE DEF Spaced
<1> QED
  BY <1>1, <1>2, SignInStarts, SignInKeeps, PTL
-----------------------------------------------------------------------------
\* Answers and requests are dated as integers, and the tasks in the queue have a
\* question each.
MapTyped ==
  /\ now \in Int
  /\ cache \in [Urls -> Int \cup {None}]
  /\ lock \in Seq(Tasks) /\ task \in [Tasks -> Urls \cup {None}]
  /\ \A i \in 1 .. Len(lock) : task[lock[i]] # None
  /\ \A i, j \in 1 .. Len(lock) : i # j => lock[i] # lock[j]

\* A request is dated when it ends, and what the first task is about to ask was not
\* in the cache when it looked under the lock; it only grows older meanwhile.
MapInv ==
  /\ MapTyped
  /\ lastRequest = ended
  /\ at \in {"enter", "wait", "ask"}
  /\ at = "wait" => lock # <<>> /\ ~IsFresh(task[Head(lock)])

MapNext ==
  \/ Tick /\ UNCHANGED mapVars
  \/ MapStep /\ UNCHANGED now

\* An empty cache, and nobody in the queue.
LEMMA MapStarts == ClockInit /\ MapInit => MapInv
  BY DEF ClockInit, MapInit, MapInv, MapTyped

\* Every question stays in front of the queue until it is answered.
LEMMA HeadStays ==
  ASSUME NEW t \in Tasks, lock \in Seq(Tasks), lock # <<>>
  PROVE  Append(lock, t) # <<>> /\ Head(Append(lock, t)) = Head(lock)
  OBVIOUS

\* The next task in the queue takes over, when the cache may have changed.
LEMMA ReleaseKeeps ==
  ASSUME MapInv, lock # <<>>, Release, now' = now, lastRequest' = ended',
         cache' \in [Urls -> Int \cup {None}]
  PROVE  MapInv'
<1>1. /\ lock' = Tail(lock) /\ task' = [task EXCEPT ![Head(lock)] = None] /\ at' = "enter"
      /\ lock \in Seq(Tasks) /\ task \in [Tasks -> Urls \cup {None}]
  BY DEF Release, MapInv, MapTyped
<1>2. /\ Tail(lock) \in Seq(Tasks) /\ Len(lock) \in Nat /\ Len(lock) > 0
      /\ Len(Tail(lock)) = Len(lock) - 1
      /\ \A i \in 1 .. Len(Tail(lock)) : Tail(lock)[i] = lock[i + 1]
      /\ Head(lock) = lock[1] /\ Head(lock) \in Tasks
  BY <1>1
<1>3. \A i \in 1 .. Len(lock') : task'[lock'[i]] # None
  <2> TAKE i \in 1 .. Len(lock')
  <2>1. i + 1 \in 1 .. Len(lock) /\ 1 \in 1 .. Len(lock) /\ i + 1 # 1
    BY <1>1, <1>2
  <2>2. lock'[i] = lock[i + 1] /\ lock[i + 1] # lock[1] /\ lock[i + 1] \in Tasks
    BY <1>1, <1>2, <2>1 DEF MapInv, MapTyped
  <2> QED
    BY <1>1, <1>2, <2>1, <2>2 DEF MapInv, MapTyped
<1>4. \A i, j \in 1 .. Len(lock') : i # j => lock'[i] # lock'[j]
  <2> TAKE i, j \in 1 .. Len(lock')
  <2>1. i + 1 \in 1 .. Len(lock) /\ j + 1 \in 1 .. Len(lock) /\ (i # j => i + 1 # j + 1)
    BY <1>1, <1>2
  <2> QED
    BY <1>1, <1>2, <2>1 DEF MapInv, MapTyped
<1>5. task' \in [Tasks -> Urls \cup {None}] /\ lock' \in Seq(Tasks)
  BY <1>1, <1>2
<1> QED
  BY <1>1, <1>3, <1>4, <1>5 DEF MapInv, MapTyped

\* A task that is already in the queue does not ask a second question.
LEMMA FetchKeeps ==
  ASSUME MapInv, NEW t \in Tasks, NEW u \in Urls, Fetch(t, u), now' = now
  PROVE  MapInv'
<1>1. /\ task[t] = None /\ task' = [task EXCEPT ![t] = u] /\ lock' = Append(lock, t)
      /\ cache' = cache /\ lastRequest' = lastRequest /\ at' = at /\ ended' = ended
      /\ lock \in Seq(Tasks) /\ task \in [Tasks -> Urls \cup {None}]
  BY DEF Fetch, MapInv, MapTyped
<1>2. /\ lock' \in Seq(Tasks) /\ Len(lock) \in Nat /\ Len(lock') = Len(lock) + 1
      /\ \A i \in 1 .. Len(lock) : lock'[i] = lock[i] /\ lock[i] \in Tasks
      /\ lock'[Len(lock) + 1] = t
  BY <1>1
<1>3. \A i \in 1 .. Len(lock) : lock[i] # t
  BY <1>1 DEF MapInv, MapTyped
<1>4. u # None /\ task' \in [Tasks -> Urls \cup {None}] /\ task'[t] = u
      /\ \A s \in Tasks : s # t => task'[s] = task[s]
  BY <1>1, MapFetchAssumption
<1>5. \A i \in 1 .. Len(lock') : task'[lock'[i]] # None
  <2> TAKE i \in 1 .. Len(lock')
  <2>1. i \in 1 .. Len(lock) \/ i = Len(lock) + 1
    BY <1>2
  <2> QED
    BY <1>2, <1>3, <1>4, <2>1 DEF MapInv, MapTyped
<1>6. \A i, j \in 1 .. Len(lock') : i # j => lock'[i] # lock'[j]
  <2> TAKE i, j \in 1 .. Len(lock')
  <2>1. (i \in 1 .. Len(lock) \/ i = Len(lock) + 1) /\ (j \in 1 .. Len(lock) \/ j = Len(lock) + 1)
    BY <1>2
  <2> QED
    BY <1>2, <1>3, <2>1 DEF MapInv, MapTyped
<1>7. at' = "wait" => lock' # <<>> /\ ~IsFresh(task[Head(lock)])'
  <2> SUFFICES ASSUME at = "wait"
               PROVE  lock' # <<>> /\ ~IsFresh(task[Head(lock)])'
    BY <1>1
  <2>1. lock # <<>> /\ ~IsFresh(task[Head(lock)])
    BY DEF MapInv
  <2>2. lock' # <<>> /\ Head(lock') = Head(lock)
    BY <1>1, <2>1, HeadStays
  <2>3. 1 \in 1 .. Len(lock) /\ Head(lock) = lock[1]
    BY <1>1, <2>1
  <2>4. task'[Head(lock')] = task[Head(lock)]
    BY <1>2, <1>3, <1>4, <2>2, <2>3
  <2> QED
    BY <1>1, <2>1, <2>2, <2>4 DEF IsFresh
<1> QED
  BY <1>1, <1>2, <1>4, <1>5, <1>6, <1>7 DEF MapInv, MapTyped

\* The holder of the lock found no answer, and does not let go of the lock.
LEMMA EnterKeeps ==
  ASSUME MapInv, Enter, now' = now
  PROVE  MapInv'
<1>1. CASE Answered
  BY <1>1, ReleaseKeeps DEF Enter, MapInv, MapTyped
<1>2. CASE ~Answered
  <2>1. /\ at' = "wait" /\ lock' = lock /\ task' = task /\ cache' = cache
        /\ lastRequest' = lastRequest /\ ended' = ended /\ lock # <<>>
    BY <1>2 DEF Enter
  <2>2. ~IsFresh(task[Head(lock)])'
    BY <1>2, <2>1 DEF Answered, IsFresh
  <2> QED
    BY <2>1, <2>2 DEF MapInv, MapTyped
<1> QED
  BY <1>1, <1>2

\* An answer that is stored is dated with the clock.
LEMMA ReplyKeeps ==
  ASSUME MapInv, NEW ok \in BOOLEAN, Reply(ok), now' = now
  PROVE  MapInv'
<1>1. Stored(task[Head(lock)]) \in [Urls -> Int \cup {None}]
  BY DEF Stored, MapInv, MapTyped
<1>2. cache' \in [Urls -> Int \cup {None}]
  BY <1>1 DEF Reply, MapInv, MapTyped
<1>3. lastRequest' = ended' /\ lock # <<>> /\ Release
  BY DEF Reply, Paced
<1> QED
  BY <1>2, <1>3, ReleaseKeeps

\* An answer that was too old is not young again later.
LEMMA TickKeeps ==
  ASSUME MapInv, Tick, UNCHANGED mapVars
  PROVE  MapInv'
<1>1. now' = now + 1 /\ now \in Int /\ FreshFor \in Nat
      /\ cache \in [Urls -> Int \cup {None}]
      /\ task \in [Tasks -> Urls \cup {None}] /\ lock \in Seq(Tasks)
  BY MapFetchAssumption DEF Tick, MapInv, MapTyped
<1>2. cache' = cache /\ lastRequest' = lastRequest /\ lock' = lock /\ task' = task
      /\ at' = at /\ ended' = ended
  BY DEF mapVars
<1>3. at = "wait" => ~IsFresh(task[Head(lock)])'
  <2> SUFFICES ASSUME at = "wait"
               PROVE  ~IsFresh(task[Head(lock)])'
    OBVIOUS
  <2>1. lock # <<>> /\ ~IsFresh(task[Head(lock)])
    BY DEF MapInv
  <2>2. 1 \in 1 .. Len(lock) /\ Head(lock) = lock[1] /\ Head(lock) \in Tasks
    BY <1>1, <2>1
  <2>3. task[Head(lock)] \in Urls
    BY <1>1, <2>2 DEF MapInv, MapTyped
  <2> QED
    BY <1>1, <1>2, <2>1, <2>3 DEF IsFresh
<1> QED
  BY <1>1, <1>2, <1>3 DEF MapInv, MapTyped

\* One step per operation of the map service, and the clock.
LEMMA MapKeeps ==
  ASSUME MapInv, [MapNext]_<<now, mapVars>>
  PROVE  MapInv'
<1>1. CASE UNCHANGED <<now, mapVars>>
  BY <1>1 DEF MapInv, MapTyped, mapVars, IsFresh
<1>2. CASE Tick /\ UNCHANGED mapVars
  BY <1>2, TickKeeps
<1>3. CASE Ask /\ UNCHANGED now
  BY <1>3 DEF Ask, MapInv, MapTyped
<1> QED
  BY <1>1, <1>2, <1>3, FetchKeeps, EnterKeeps, ReplyKeeps DEF MapNext, MapStep

\* The step that asks finds the question stale and the last request over for long
\* enough, by what the task saw when it got the lock.
LEMMA AskIsSparing ==
  ASSUME MapInv, [MapNext]_<<now, mapVars>>, at # "ask", at' = "ask"
  PROVE  /\ ~IsFresh(task[Head(lock)])
         /\ ended # None => now >= ended + Distance
<1>1. Ask
  BY DEF MapNext, MapStep, mapVars, Fetch, Enter, Release, Reply, Tick
<1> QED
  BY <1>1 DEF Ask, MapInv

\* However many handlers queue for the lock, however long the services take to
\* answer or fail: MapService asks for nothing it has a fresh answer to, and keeps
\* the distance to the request before.
THEOREM AsksStaySparing ==
  ClockInit /\ MapInit /\ [][MapNext]_<<now, mapVars>> => AskedSparingly
<1>1. MapInv /\ [MapNext]_<<now, mapVars>> =>
        [at # "ask" /\ at' = "ask" =>
           /\ ~IsFresh(task[Head(lock)])
           /\ ended # None => now >= ended + Distance]_<<now, mapVars>>
  BY AskIsSparing
<1> QED
  BY <1>1, MapStarts, MapKeeps, PTL DEF AskedSparingly
-----------------------------------------------------------------------------
(* The password of the console. *)

\* The row of the account, the wrong passwords, and the logins under way.
ConsoleTyped ==
  /\ now \in Nat /\ began \in [Consoles -> Nat \cup {None}]
  /\ admin \in [attempts : 0 .. MaxFailures, lockedUntil : Nat \cup {None}]
  /\ tries \in Seq([began : Nat, at : Nat])

\* The wrong passwords are whole rounds of MaxFailures and those that count now.
AttemptsCounted ==
  /\ admin.attempts <= Len(tries)
  /\ \E rounds \in Nat : Len(tries) = rounds * MaxFailures + admin.attempts
  /\ admin.attempts = 0 => Len(tries) = 0

\* The last one of a round has locked the account, and the first one of the next
\* round has waited until that lock had passed.
LocksLast ==
  /\ admin.lockedUntil # None <=> admin.attempts = MaxFailures
  /\ admin.lockedUntil # None => admin.lockedUntil = LockFor + tries[Len(tries)].began
  /\ admin.attempts < MaxFailures /\ admin.attempts < Len(tries) =>
       now >= LockFor + tries[Len(tries) - admin.attempts].began

\* Of the MaxFailures wrong passwords before a later one, one has set a lock that had
\* passed when that later one was tried.
Waited ==
  \A k \in 1 .. Len(tries) : k > MaxFailures =>
    \E m \in 1 .. Len(tries) :
      m < k /\ k <= m + MaxFailures /\ tries[k].at >= LockFor + tries[m].began

ConsoleInv == ConsoleTyped /\ AttemptsCounted /\ LocksLast /\ Waited

ConsoleNext ==
  \/ Tick /\ UNCHANGED consoleVars
  \/ ConsoleStep /\ UNCHANGED now

\* The assumptions, as numbers.
LEMMA ConsoleNumbers ==
  /\ MaxFailures \in Nat /\ MaxFailures > 0 /\ LockFor \in Nat /\ LockFor > 0
  /\ None \notin Nat
BY ConsoleLoginAssumption

\* What a step finds.
LEMMA ConsoleFacts ==
  ASSUME ConsoleInv
  PROVE  /\ now \in Nat /\ Len(tries) \in Nat
         /\ admin.attempts \in Nat /\ admin.attempts <= MaxFailures
         /\ admin.attempts <= Len(tries) /\ admin.lockedUntil \in Nat \cup {None}
         /\ \A k \in 1 .. Len(tries) : tries[k].began \in Nat /\ tries[k].at \in Nat
<1> DEFINE Try == [began : Nat, at : Nat]
<1>1. /\ now \in Nat /\ tries \in Seq(Try) /\ admin.attempts <= Len(tries)
      /\ admin \in [attempts : 0 .. MaxFailures, lockedUntil : Nat \cup {None}]
  BY DEF ConsoleInv, ConsoleTyped, AttemptsCounted
<1>2. \A try \in Try : try.began \in Nat /\ try.at \in Nat
  OBVIOUS
<1> HIDE DEF Try
<1>3. \A k \in 1 .. Len(tries) : tries[k] \in Try
  BY <1>1
<1>4. Len(tries) \in Nat
  BY <1>1
<1>5. admin.attempts \in 0 .. MaxFailures /\ admin.lockedUntil \in Nat \cup {None}
  BY <1>1
<1>6. admin.attempts \in Nat /\ admin.attempts <= MaxFailures
  BY <1>5, ConsoleNumbers
<1> QED
  BY <1>1, <1>2, <1>3, <1>4, <1>5, <1>6

\* Before the first login nothing has been tried.
LEMMA ConsoleStarts == ClockInit /\ ConsoleInit => ConsoleInv
<1> SUFFICES ASSUME ClockInit, ConsoleInit PROVE ConsoleInv
  OBVIOUS
<1>1. /\ now = 0 /\ tries = <<>> /\ Len(tries) = 0
      /\ admin = [attempts |-> 0, lockedUntil |-> None]
      /\ began = [c \in Consoles |-> None]
  BY DEF ClockInit, ConsoleInit
<1>2. ConsoleTyped
  BY <1>1, ConsoleNumbers DEF ConsoleTyped
<1>3. AttemptsCounted
  <2>1. 0 \in Nat /\ 0 = 0 * MaxFailures + 0
    BY ConsoleNumbers
  <2> QED
    BY <1>1, <2>1 DEF AttemptsCounted
<1> QED
  BY <1>1, <1>2, <1>3, ConsoleNumbers DEF ConsoleInv, LocksLast, Waited

\* A wrong password is counted, and has waited.
LEMMA WrongKeeps ==
  ASSUME ConsoleInv, NEW c \in Consoles, WrongPassword(c), now' = now
  PROVE  ConsoleInv'
<1> DEFINE L == Len(tries)
           a == admin.attempts
           new == [began |-> began[c], at |-> now]
<1>0. /\ now \in Nat /\ began[c] \in Nat /\ L \in Nat
      /\ a \in Nat /\ a <= MaxFailures /\ a <= L
      /\ began \in [Consoles -> Nat \cup {None}] /\ tries \in Seq([began : Nat, at : Nat])
      /\ admin.lockedUntil \in Nat \cup {None}
      /\ began' = [began EXCEPT ![c] = None]
      /\ \A k \in 1 .. L : tries[k].began \in Nat /\ tries[k].at \in Nat
  <2>1. /\ began[c] # None /\ began' = [began EXCEPT ![c] = None]
        /\ began \in [Consoles -> Nat \cup {None}] /\ tries \in Seq([began : Nat, at : Nat])
    BY DEF ConsoleInv, ConsoleTyped, WrongPassword, Done
  <2> QED
    BY <2>1, ConsoleFacts
<1>1. /\ tries' = Append(tries, new) /\ new \in [began : Nat, at : Nat]
      /\ Len(tries') = L + 1 /\ tries'[L + 1] = new
      /\ \A k \in 1 .. L : tries'[k] = tries[k]
      /\ tries' \in Seq([began : Nat, at : Nat])
  <2>1. tries' = Append(tries, new) /\ new \in [began : Nat, at : Nat]
    BY <1>0 DEF WrongPassword
  <2> HIDE DEF new
  <2> QED
    BY <1>0, <2>1
<1>2. new.began = began[c] /\ new.at = now
  OBVIOUS
<1> DEFINE b == IF admin.lockedUntil # None THEN 1 ELSE a + 1
<1>3. /\ b \in 1 .. MaxFailures /\ admin'.attempts = b
      /\ admin' \in [attempts : 0 .. MaxFailures, lockedUntil : Nat \cup {None}]
      /\ admin'.lockedUntil = IF b = MaxFailures THEN LockFor + began[c] ELSE None
  <2>1. Attempts = b
    <3>1. admin.lockedUntil = None => a + 1 <= MaxFailures
      <4>1. admin.lockedUntil = None => a # MaxFailures
        BY DEF ConsoleInv, LocksLast
      <4> QED
        BY <1>0, <4>1, ConsoleNumbers
    <3>2. admin.lockedUntil = None => Min({a + 1, MaxFailures}) = a + 1
      BY <1>0, <3>1, ConsoleNumbers DEF Min
    <3> QED
      BY <3>2 DEF Attempts
  <2>2. b \in 1 .. MaxFailures
    BY <1>0, ConsoleNumbers DEF ConsoleInv, LocksLast
  <2>3. admin' = [attempts |-> b,
                  lockedUntil |-> IF b >= MaxFailures THEN began[c] + LockFor ELSE None]
    BY <2>1 DEF WrongPassword, Failed
  <2> HIDE DEF b
  <2> QED
    BY <1>0, <2>2, <2>3, ConsoleNumbers
<1>9. /\ L \in Nat /\ a \in Nat /\ a <= L /\ a <= MaxFailures
      /\ b \in Nat /\ 1 <= b /\ b <= MaxFailures
      /\ (admin.lockedUntil # None => b = 1) /\ (admin.lockedUntil = None => b = a + 1)
  <2> HIDE DEF a
  <2>1. b \in Nat /\ 1 <= b /\ b <= MaxFailures
    <3> HIDE DEF b
    <3> QED
      BY <1>3, ConsoleNumbers
  <2> QED
    BY <1>0, <2>1
<1> HIDE DEF new, a, L, b
<1>4. ConsoleTyped'
  BY <1>0, <1>1, <1>3 DEF ConsoleTyped
\* Where the last lock is, and that it has passed.
<1> DEFINE last == L + 1 - b
<1>5. /\ last \in 0 .. L /\ (last = 0 => L < MaxFailures)
      /\ last > 0 => now >= LockFor + tries[last].began
  <2>1. CASE admin.lockedUntil # None
    <3>0. a = MaxFailures /\ admin.lockedUntil = LockFor + tries[L].began
      BY <2>1 DEF ConsoleInv, LocksLast, a, L
    <3>1. last = L /\ (last = 0 => L < MaxFailures)
      BY <1>9, <2>1, ConsoleNumbers
    <3>2. now >= admin.lockedUntil
      <4>1. ~Locked
        BY DEF WrongPassword
      <4> QED
        BY <1>0, <2>1, <4>1 DEF Locked
    <3>3. last \in 0 .. L
      BY <1>9, <3>1
    <3> HIDE DEF last
    <3> QED
      BY <3>0, <3>1, <3>2, <3>3
  <2>2. CASE admin.lockedUntil = None
    <3>0. a # MaxFailures /\ b = a + 1
      BY <1>9, <2>2 DEF ConsoleInv, LocksLast, a
    <3>1. a < MaxFailures /\ last = L - a
      BY <1>9, <3>0, ConsoleNumbers
    <3>2. a < L => now >= LockFor + tries[L - a].began
      BY <3>1 DEF ConsoleInv, LocksLast, a, L
    <3>3. last \in 0 .. L /\ (last = 0 => L < MaxFailures)
      BY <1>9, <3>1, ConsoleNumbers
    <3>4. last > 0 => a < L
      BY <1>9, <3>1
    <3> HIDE DEF last
    <3> QED
      BY <3>1, <3>2, <3>3, <3>4
  <2> QED
    BY <2>1, <2>2
<1>6. AttemptsCounted'
  <2>1. PICK rounds \in Nat : L = rounds * MaxFailures + a
    BY DEF ConsoleInv, AttemptsCounted, a, L
  <2>2. \E more \in Nat : L + 1 = more * MaxFailures + b
    <3>1. CASE admin.lockedUntil = None
      BY <1>9, <2>1, <3>1, ConsoleNumbers
    <3>2. CASE admin.lockedUntil # None
      <4>1. a = MaxFailures /\ b = 1
        BY <1>9, <3>2 DEF ConsoleInv, LocksLast, a
      <4>2. (rounds + 1) * MaxFailures = rounds * MaxFailures + MaxFailures
        BY ConsoleNumbers
      <4>3. L + 1 = (rounds + 1) * MaxFailures + b
        BY <1>9, <2>1, <4>1, <4>2, ConsoleNumbers
      <4> QED
        BY <4>3
    <3> QED
      BY <3>1, <3>2
  <2>3. b <= L + 1 /\ b # 0
    BY <1>9
  <2> QED
    BY <1>1, <1>3, <2>2, <2>3 DEF AttemptsCounted
<1>7. LocksLast'
  <2>1. admin'.lockedUntil # None <=> admin'.attempts = MaxFailures
    BY <1>0, <1>3, ConsoleNumbers
  <2>2. admin'.lockedUntil # None => admin'.lockedUntil = LockFor + tries'[Len(tries')].began
    BY <1>1, <1>2, <1>3
  <2>3. last > 0 => tries'[last] = tries[last]
    <3>1. last > 0 => last \in 1 .. L
      BY <1>5, <1>9
    <3> HIDE DEF last
    <3> QED
      BY <1>1, <3>1
  <2>4. last > 0 => now' >= LockFor + tries'[last].began
    BY <1>5, <2>3
  <2>5. Len(tries') - admin'.attempts = last
    BY <1>1, <1>3, <1>9
  <2>6. admin'.attempts < Len(tries') => last > 0
    BY <1>1, <1>3, <1>9
  <2> HIDE DEF last
  <2> QED
    BY <2>1, <2>2, <2>4, <2>5, <2>6 DEF LocksLast
<1>8. Waited'
  <2> SUFFICES ASSUME NEW k \in 1 .. Len(tries'), k > MaxFailures
               PROVE  \E m \in 1 .. Len(tries') :
                        /\ m < k /\ k <= m + MaxFailures
                        /\ tries'[k].at >= LockFor + tries'[m].began
    BY DEF Waited
  <2>1. CASE k = L + 1
    <3>1. last \in 1 .. L /\ last < k /\ k <= last + MaxFailures
      <4>1. L >= MaxFailures /\ b >= 1 /\ b <= MaxFailures /\ b \in Nat
        BY <1>0, <1>3, <2>1, ConsoleNumbers
      <4>2. last \in 1 .. L
        BY <1>0, <1>5, <4>1, ConsoleNumbers
      <4> HIDE DEF b
      <4> QED
        BY <1>9, <2>1, <4>1, <4>2, ConsoleNumbers
    <3>2. tries'[k].at >= LockFor + tries'[last].began
      BY <1>1, <1>2, <1>5, <2>1, <3>1
    <3>3. last \in 1 .. Len(tries')
      BY <1>1, <1>9, <3>1
    <3> HIDE DEF last
    <3> QED
      BY <3>1, <3>2, <3>3
  <2>2. CASE k # L + 1
    <3>1. k \in 1 .. L
      BY <1>1, <1>9, <2>2
    <3>2. PICK m \in 1 .. L :
            m < k /\ k <= m + MaxFailures /\ tries[k].at >= LockFor + tries[m].began
      BY <3>1 DEF ConsoleInv, Waited, L
    <3>3. m \in 1 .. Len(tries')
      BY <1>1, <1>9
    <3> QED
      BY <1>1, <3>1, <3>2, <3>3
  <2> QED
    BY <2>1, <2>2
<1> QED
  BY <1>4, <1>6, <1>7, <1>8 DEF ConsoleInv

\* Every attempt preserves the invariant.
LEMMA ConsoleKeeps == ConsoleInv /\ [ConsoleNext]_<<now, consoleVars>> => ConsoleInv'
<1> SUFFICES ASSUME ConsoleInv, [ConsoleNext]_<<now, consoleVars>> PROVE ConsoleInv'
  OBVIOUS
<1>1. CASE UNCHANGED <<admin, tries>> /\ now' \in Nat /\ now' >= now
           /\ began' \in [Consoles -> Nat \cup {None}]
  <2>1. ConsoleTyped' /\ AttemptsCounted' /\ Waited'
    BY <1>1 DEF ConsoleInv, ConsoleTyped, AttemptsCounted, Waited
  <2>2. LocksLast'
    <3>1. admin.attempts < MaxFailures /\ admin.attempts < Len(tries) =>
            LockFor + tries[Len(tries) - admin.attempts].began \in Nat
      <4>1. admin.attempts \in Nat /\ Len(tries) \in Nat
        BY ConsoleFacts
      <4>2. admin.attempts < Len(tries) => Len(tries) - admin.attempts \in 1 .. Len(tries)
        BY <4>1
      <4>3. \A k \in 1 .. Len(tries) : tries[k].began \in Nat
        BY ConsoleFacts
      <4> QED
        BY <4>2, <4>3, ConsoleNumbers
    <3> QED
      BY <1>1, <3>1 DEF ConsoleInv, ConsoleTyped, LocksLast
  <2> QED
    BY <2>1, <2>2 DEF ConsoleInv
<1>2. CASE UNCHANGED <<now, consoleVars>>
  BY <1>1, <1>2 DEF consoleVars, ConsoleInv, ConsoleTyped
<1>3. CASE Tick /\ UNCHANGED consoleVars
  BY <1>1, <1>3 DEF Tick, consoleVars, ConsoleInv, ConsoleTyped
<1>4. ASSUME NEW c \in Consoles, BeginLogin(c) \/ RefuseLocked(c), now' = now
      PROVE  ConsoleInv'
  BY <1>1, <1>4 DEF BeginLogin, RefuseLocked, Done, ConsoleInv, ConsoleTyped
<1>5. ASSUME NEW c \in Consoles, RightPassword(c), now' = now
      PROVE  ConsoleInv'
  <2>1. /\ tries' = <<>> /\ Len(tries') = 0
        /\ admin' = [attempts |-> 0, lockedUntil |-> None]
        /\ began' \in [Consoles -> Nat \cup {None}] /\ now' \in Nat
    BY <1>5 DEF RightPassword, Done, ConsoleInv, ConsoleTyped
  <2>2. 0 \in Nat /\ 0 = 0 * MaxFailures + 0
    BY ConsoleNumbers
  <2>3. AttemptsCounted'
    BY <2>1, <2>2 DEF AttemptsCounted
  <2>4. ConsoleTyped'
    BY <2>1, ConsoleNumbers DEF ConsoleTyped
  <2> QED
    BY <2>1, <2>3, <2>4, ConsoleNumbers DEF ConsoleInv, LocksLast, Waited
<1> QED
  BY <1>2, <1>3, <1>4, <1>5, WrongKeeps DEF ConsoleNext, ConsoleStep

\* The least of some numbers is none of the greater ones.
LEMMA MinIsLeast ==
  ASSUME NEW S \in SUBSET Nat, NEW x \in S
  PROVE  Min(S) \in Nat /\ Min(S) <= x
<1> DEFINE R == OpToRel(<, Nat)
<1>1. PICK y \in S : \A z \in S : ~(<<z, y>> \in R)
  <2> HIDE DEF R
  <2>1. IsWellFoundedOn(R, Nat)
    BY NatLessThanWellFounded DEF R
  <2> QED
    BY <2>1, WFMin
<1>2. \A z \in S : z < y => <<z, y>> \in R
  BY DEF OpToRel
<1> HIDE DEF R
<1>3. \A z \in S : ~(z < y)
  BY <1>1, <1>2
<1>4. y \in Nat /\ \A z \in S : z \in Nat
  OBVIOUS
<1>5. \A z \in S : y <= z
  BY <1>3, <1>4
<1>6. Min(S) \in S /\ \A z \in S : Min(S) <= z
  BY <1>5 DEF Min
<1> QED
  BY <1>4, <1>6

\* Whole rounds leave nothing over.
LEMMA RoundsDivide ==
  ASSUME NEW rounds \in Nat, NEW n \in Nat, n > 0
  PROVE  (rounds * n + n) % n = 0
<1>1. rounds * n \in Nat
  OBVIOUS
<1>2. (rounds + 1) * n = rounds * n + n
  OBVIOUS
<1>3. ((rounds + 1) * n) % n = 0
  OBVIOUS
<1> QED
  BY <1>2, <1>3

\* For any number of connections, and whatever the lock time and the number of wrong
\* passwords allowed: so many are tried before the lock that one of them set, counted
\* from when it was sent, has passed; and only as many of its own lock the account
\* (admin_login, auth.py).
THEOREM GuessesStaySpaced ==
  ClockInit /\ ConsoleInit /\ [][ConsoleNext]_<<now, consoleVars>> => []GuessesSpaced
<1>1. ConsoleInv => GuessesSpaced
  <2> SUFFICES ASSUME ConsoleInv PROVE GuessesSpaced
    OBVIOUS
  <2>0. /\ Len(tries) \in Nat
        /\ \A k \in 1 .. Len(tries) : tries[k].began \in Nat /\ tries[k].at \in Nat
    BY ConsoleFacts
  <2>1. ASSUME NEW i \in 1 .. Len(tries) - MaxFailures
        PROVE  tries[i + MaxFailures].at
                 >= LockFor + Min({tries[j].began : j \in i .. i + MaxFailures - 1})
    <3> DEFINE S == {tries[j].began : j \in i .. i + MaxFailures - 1}
               k == i + MaxFailures
    <3>1. k \in 1 .. Len(tries) /\ k > MaxFailures /\ i \in Nat
      BY <2>0, ConsoleNumbers
    <3>2. PICK m \in 1 .. Len(tries) :
            m < k /\ k <= m + MaxFailures /\ tries[k].at >= LockFor + tries[m].began
      BY <3>1 DEF ConsoleInv, Waited
    <3>3. m \in i .. i + MaxFailures - 1
      BY <3>1, <3>2, ConsoleNumbers
    <3>4. \A j \in i .. i + MaxFailures - 1 : j \in 1 .. Len(tries)
      BY <2>0, <3>1, ConsoleNumbers
    <3>5. S \in SUBSET Nat /\ tries[m].began \in S
      BY <2>0, <3>3, <3>4
    <3> HIDE DEF S
    <3>6. Min(S) \in Nat /\ Min(S) <= tries[m].began
      BY <3>5, MinIsLeast
    <3>7. tries[k].at \in Nat /\ tries[m].began \in Nat
      BY <2>0, <3>1
    <3>8. tries[k].at >= LockFor + Min(S)
      BY <3>2, <3>6, <3>7, ConsoleNumbers
    <3> QED
      BY <3>8 DEF S
  <2>2. ASSUME admin.lockedUntil # None
        PROVE  tries # <<>> /\ Len(tries) % MaxFailures = 0
    <3>1. admin.attempts = MaxFailures
      BY <2>2 DEF ConsoleInv, LocksLast
    <3>2. PICK rounds \in Nat : Len(tries) = rounds * MaxFailures + MaxFailures
      BY <3>1 DEF ConsoleInv, AttemptsCounted
    <3>3. Len(tries) >= MaxFailures
      BY <3>1 DEF ConsoleInv, AttemptsCounted
    <3>4. tries # <<>>
      BY <2>0, <3>3, ConsoleNumbers
    <3> QED
      BY <3>2, <3>4, RoundsDivide, ConsoleNumbers
  <2> QED
    BY <2>1, <2>2 DEF GuessesSpaced
<1> QED
  BY <1>1, ConsoleStarts, ConsoleKeeps, PTL
-----------------------------------------------------------------------------
(* Maintenance. *)

StationOps == {"delete_station", "create_charger"}
UserOps == {"user_delete", "recharge", "spend", "withdraw"}
Ops == StationOps \cup UserOps \cup {"delete_charger", "reserve"}

Jobs == [op : Ops \cup {"none"}, names : Seq(Rows), rows : Seq(Rows),
         at : {"none", "lock", "look", "write"}]

TypeInv ==
  /\ stations \subseteq Stations /\ users \subseteq Users
  /\ home \in [Chargers -> Stations \cup {None}]
  /\ orders \subseteq [user : Users, charger : Chargers]
  /\ requests \subseteq Users
  /\ locked \in [Rows -> Workers \cup {None}]
  /\ job \in [Workers -> Jobs]

\* A command names rows of the kinds it is about, and locks them in order.
Shape(x) ==
  \/ x = NoJob
  \/ /\ x.at \in {"lock", "look", "write"}
     /\ \/ \E st \in Stations : x.op \in StationOps /\ x.names = <<st>>
        \/ \E c \in Chargers : x.op = "delete_charger" /\ x.names = <<c>>
        \/ \E u \in Users : x.op \in UserOps /\ x.names = <<u>>
        \/ \E u \in Users, c \in Chargers : x.op = "reserve" /\ x.names = <<u, c>>
     /\ x.at = "lock" => \/ x.rows = x.names
                         \/ x.op = "reserve" /\ x.rows = <<x.names[2]>>

\* The rows that a worker has locked so far.
Held(x) ==
  IF x.at \in {"look", "write"} THEN {x.names[i] : i \in DOMAIN x.names}
  ELSE IF x.at = "lock" /\ x.rows # x.names THEN {x.names[1]} ELSE {}

LockInv ==
  \A w \in Workers :
    Shape(job[w]) /\ \A r \in Held(job[w]) : locked[r] = w

\* Locked rows exist, and so do all that have been found.
RowInv ==
  /\ \A r \in Rows : locked[r] # None => Exists(r)
  /\ stations \subseteq spent
  /\ \A c \in Chargers : home[c] # None => c \in spent

\* What a command found is still true when it writes.
LookInv ==
  \A w \in Workers : job[w].at = "write" => Allowed(job[w].op, Head(job[w].names))

\* Withdrawals and funds come with an entry in the ledger.
Backed == funded \cup requests \subseteq entries

RefInv ==
  /\ TypeInv /\ LockInv /\ RowInv /\ LookInv /\ Backed
  /\ ReferencesHold
-----------------------------------------------------------------------------
\* What is known of a worker past its locks: it holds the rows it names, which
\* exist and are of the kind its command is about.
Named(v, x) ==
  LET r == Head(x.names)
  IN  /\ r \in Rows /\ r = x.names[1] /\ locked[r] = v
      /\ \/ x.op \in StationOps /\ r \in stations
         \/ x.op = "delete_charger" /\ r \in Chargers /\ home[r] # None
         \/ x.op \in UserOps /\ r \in users
         \/ /\ x.op = "reserve" /\ r \in users
            /\ x.names[2] \in Chargers /\ locked[x.names[2]] = v /\ home[x.names[2]] # None

\* A worker past its locks holds the rows it names.
LEMMA NamedRows ==
  ASSUME MaintenanceAssumption, TypeInv, LockInv, RowInv, NEW v \in Workers,
         job[v].at \in {"look", "write"}
  PROVE  Named(v, job[v])
<1> DEFINE x == job[v]
<1>1. Shape(x) /\ x # NoJob /\ \A r \in Held(x) : locked[r] = v
  BY DEF LockInv, NoJob
<1>2. Held(x) = {x.names[i] : i \in DOMAIN x.names}
  BY DEF Held
<1>3. \A r \in Rows : r \in Held(x) => Exists(r)
  BY <1>1 DEF RowInv, MaintenanceAssumption
<1>4. stations \subseteq Stations /\ users \subseteq Users
  BY DEF TypeInv
<1>a. CASE \E st \in Stations : x.op \in StationOps /\ x.names = <<st>>
  <2>1. PICK st \in Stations : x.op \in StationOps /\ x.names = <<st>>
    BY <1>a
  <2>2. Held(x) = {st} /\ Head(x.names) = st /\ x.names[1] = st
    BY <1>2, <2>1
  <2>3. locked[st] = v /\ Exists(st) /\ st \in Rows
    BY <1>1, <1>3, <2>2 DEF Rows
  <2>4. st \in stations
    BY <1>4, <2>3 DEF Exists, MaintenanceAssumption
  <2> QED BY <2>1, <2>2, <2>3, <2>4 DEF Named
<1>b. CASE \E c \in Chargers : x.op = "delete_charger" /\ x.names = <<c>>
  <2>1. PICK c \in Chargers : x.op = "delete_charger" /\ x.names = <<c>>
    BY <1>b
  <2>2. Held(x) = {c} /\ Head(x.names) = c /\ x.names[1] = c
    BY <1>2, <2>1
  <2>3. locked[c] = v /\ Exists(c) /\ c \in Rows
    BY <1>1, <1>3, <2>2 DEF Rows
  <2>4. home[c] # None
    BY <1>4, <2>3 DEF Exists, MaintenanceAssumption
  <2> QED BY <2>1, <2>2, <2>3, <2>4 DEF Named
<1>c. CASE \E u \in Users : x.op \in UserOps /\ x.names = <<u>>
  <2>1. PICK u \in Users : x.op \in UserOps /\ x.names = <<u>>
    BY <1>c
  <2>2. Held(x) = {u} /\ Head(x.names) = u /\ x.names[1] = u
    BY <1>2, <2>1
  <2>3. locked[u] = v /\ Exists(u) /\ u \in Rows
    BY <1>1, <1>3, <2>2 DEF Rows
  <2>4. u \in users
    BY <1>4, <2>3 DEF Exists, MaintenanceAssumption
  <2> QED BY <2>1, <2>2, <2>3, <2>4 DEF Named
<1>d. CASE \E u \in Users, c \in Chargers : x.op = "reserve" /\ x.names = <<u, c>>
  <2>1. PICK u \in Users, c \in Chargers : x.op = "reserve" /\ x.names = <<u, c>>
    BY <1>d
  <2>2. /\ x.names[1] \in Held(x) /\ x.names[2] \in Held(x)
        /\ Head(x.names) = u /\ x.names[1] = u /\ x.names[2] = c
    BY <1>2, <2>1
  <2>3. /\ locked[u] = v /\ Exists(u) /\ u \in Rows
        /\ locked[c] = v /\ Exists(c) /\ c \in Rows
    BY <1>1, <1>3, <2>2 DEF Rows
  <2>4. u \in users /\ home[c] # None
    BY <1>4, <2>3 DEF Exists, MaintenanceAssumption
  <2> QED BY <2>1, <2>2, <2>3, <2>4 DEF Named
<1> QED BY <1>1, <1>a, <1>b, <1>c, <1>d DEF Shape

\* Only rows are held.
LEMMA HeldRows ==
  ASSUME NEW x, Shape(x)
  PROVE  Held(x) \subseteq Rows
<1>1. CASE x = NoJob
  BY <1>1 DEF Held, NoJob
<1>2. ASSUME NEW r \in Rows, x.names = <<r>> PROVE Held(x) \subseteq Rows
  BY <1>2 DEF Held
<1>3. ASSUME NEW u \in Users, NEW c \in Chargers, x.names = <<u, c>> PROVE Held(x) \subseteq Rows
  BY <1>3 DEF Held, Rows
<1> QED BY <1>1, <1>2, <1>3 DEF Shape, Rows

\* The end of a transaction: its worker is idle and holds nothing, and nobody
\* else notices.
LEMMA Finished ==
  ASSUME MaintenanceAssumption, TypeInv, LockInv, NEW w \in Workers, Finish(w)
  PROVE  /\ job' \in [Workers -> Jobs] /\ locked' \in [Rows -> Workers \cup {None}]
         /\ job'[w] = NoJob /\ \A v \in Workers \ {w} : job'[v] = job[v]
         /\ \A r \in Rows : locked'[r] # None => locked'[r] = locked[r] /\ locked[r] # w
         /\ LockInv'
<1>1. NoJob \in Jobs
  <2>1. <<>> \in Seq(Rows)
    OBVIOUS
  <2>2. \A s \in Seq(Rows) : [op |-> "none", names |-> s, rows |-> s, at |-> "none"] \in Jobs
    BY DEF Jobs
  <2> QED BY <2>1, <2>2 DEF NoJob
<1>2. job' \in [Workers -> Jobs] /\ job'[w] = NoJob /\ \A v \in Workers \ {w} : job'[v] = job[v]
  BY <1>1 DEF Finish, TypeInv
<1>3. locked' = [r \in Rows |-> IF locked[r] = w THEN None ELSE locked[r]]
  BY DEF Finish
<1>4. \A v \in Workers \ {w}, r \in Rows : locked[r] = v => locked'[r] = v
  BY <1>3 DEF MaintenanceAssumption
<1>5. LockInv'
  <2> SUFFICES ASSUME NEW v \in Workers
               PROVE  Shape(job'[v]) /\ \A r \in Held(job'[v]) : locked'[r] = v
    BY DEF LockInv, Shape, Held
  <2>1. CASE v = w
    BY <1>2, <2>1 DEF Shape, Held, NoJob
  <2>2. CASE v # w
    <3>1. Shape(job[v]) /\ \A r \in Held(job[v]) : locked[r] = v
      BY DEF LockInv
    <3>2. \A r \in Held(job[v]) : r \in Rows
      BY <3>1, HeldRows
    <3> QED BY <1>2, <1>4, <2>2, <3>1, <3>2
  <2> QED BY <2>1, <2>2
<1> QED BY <1>2, <1>3, <1>5 DEF TypeInv
-----------------------------------------------------------------------------
\* Every step preserves RefInv.

\* To create stations or users leaves every reference alone.
LEMMA Created ==
  ASSUME MaintenanceAssumption, RefInv, UNCHANGED <<locked, job>>,
         \/ \E st \in Stations, initial \in SUBSET Chargers : CreateStation(st, initial)
         \/ \E u \in Users : CreateUser(u)
  PROVE  RefInv'
<1>1. TypeInv'
  BY DEF RefInv, TypeInv, CreateStation, CreateUser
<1>2. LockInv'
  BY DEF RefInv, LockInv
<1>3. /\ stations \subseteq stations' /\ users \subseteq users'
      /\ \A c \in Chargers : home[c] # None => home'[c] = home[c]
      /\ UNCHANGED <<orders, funded, entries, requests>>
  BY DEF RefInv, TypeInv, RowInv, CreateStation, CreateUser
<1>4. \A r \in Rows : Exists(r) => Exists(r)'
  BY <1>3 DEF Exists
<1>5. RowInv'
  <2>1. \A r \in Rows : locked'[r] # None => Exists(r)'
    BY <1>4 DEF RefInv, RowInv
  <2>2. stations' \subseteq spent' /\ \A c \in Chargers : home'[c] # None => c \in spent'
    BY DEF RefInv, TypeInv, RowInv, CreateStation, CreateUser
  <2> QED BY <2>1, <2>2 DEF RowInv
<1>6. ReferencesHold' /\ Backed'
  <2>1. \A c \in Chargers : home'[c] \in stations' \cup {None}
    BY DEF RefInv, TypeInv, ReferencesHold, CreateStation, CreateUser
  <2> QED BY <1>3, <2>1 DEF RefInv, TypeInv, ReferencesHold, Backed
<1>7. LookInv'
  <2> SUFFICES ASSUME NEW v \in Workers, job[v].at = "write"
               PROVE  Allowed(job[v].op, Head(job[v].names))'
    BY DEF LookInv
  <2>1. Allowed(job[v].op, Head(job[v].names)) /\ Named(v, job[v])
    BY NamedRows DEF RefInv, LookInv
  <2>2. \A st \in stations : (\A c \in Chargers : home[c] # st) => \A c \in Chargers : home'[c] # st
    BY DEF RefInv, TypeInv, RowInv, CreateStation, CreateUser
  <2> DEFINE r == Head(job[v].names)
  <2>3. CASE job[v].op = "delete_station"
    BY <2>1, <2>2, <2>3 DEF Allowed, Named, StationOps, UserOps
  <2>4. CASE job[v].op # "delete_station"
    BY <1>3, <2>1, <2>4 DEF Allowed, Unused
  <2> QED BY <2>3, <2>4
<1> QED BY <1>1, <1>2, <1>5, <1>6, <1>7 DEF RefInv

\* A step that writes to no table: a submission, a lock, a look, a refusal.
LEMMA Unwritten ==
  ASSUME MaintenanceAssumption, RefInv, UNCHANGED tables, LockInv',
         job' \in [Workers -> Jobs], locked' \in [Rows -> Workers \cup {None}],
         \A r \in Rows : locked'[r] # None => Exists(r),
         \A v \in Workers : job'[v].at = "write" =>
           \/ job'[v] = job[v]
           \/ Allowed(job'[v].op, Head(job'[v].names))
  PROVE  RefInv'
<1>1. TypeInv' /\ RowInv' /\ Backed' /\ ReferencesHold'
  BY DEF RefInv, TypeInv, RowInv, Backed, ReferencesHold, tables, Exists
<1>2. LookInv'
  BY DEF RefInv, LookInv, tables, Allowed, Unused
<1> QED BY <1>1, <1>2 DEF RefInv

\* A command that is refused releases its locks and changes nothing.
LEMMA Rejected ==
  ASSUME MaintenanceAssumption, RefInv, NEW w \in Workers, Reject(w)
  PROVE  RefInv'
<1>1. UNCHANGED tables /\ Finish(w)
  BY DEF Reject
<1>2. TypeInv /\ LockInv /\ RowInv
  BY DEF RefInv
<1>3. /\ job' \in [Workers -> Jobs] /\ locked' \in [Rows -> Workers \cup {None}]
      /\ job'[w] = NoJob /\ \A v \in Workers \ {w} : job'[v] = job[v]
      /\ \A r \in Rows : locked'[r] # None => locked'[r] = locked[r] /\ locked[r] # w
      /\ LockInv'
  BY <1>1, <1>2, Finished
<1>4. \A r \in Rows : locked'[r] # None => Exists(r)
  BY <1>2, <1>3 DEF RowInv
<1>5. \A v \in Workers : job'[v].at = "write" => job'[v] = job[v]
  BY <1>3 DEF NoJob
<1> QED BY <1>1, <1>3, <1>4, <1>5, Unwritten

\* A command begins without locks,
LEMMA SubmittedOne ==
  ASSUME MaintenanceAssumption, RefInv, NEW w \in Workers,
         NEW op \in Ops, NEW names \in Seq(Rows), Submit(w, op, names),
         \/ \E st \in Stations : op \in StationOps /\ names = <<st>>
         \/ \E c \in Chargers : op = "delete_charger" /\ names = <<c>>
         \/ \E u \in Users : op \in UserOps /\ names = <<u>>
         \/ \E u \in Users, c \in Chargers : op = "reserve" /\ names = <<u, c>>
  PROVE  RefInv'
<1> DEFINE x == [op |-> op, names |-> names, rows |-> names, at |-> "lock"]
<1>2. x \in Jobs
  BY DEF Jobs
<1>3. /\ job' \in [Workers -> Jobs] /\ job'[w] = x
      /\ \A v \in Workers \ {w} : job'[v] = job[v]
  BY <1>2 DEF Submit, RefInv, TypeInv
<1>4. UNCHANGED <<tables, locked>>
  BY DEF Submit
<1>5. Shape(x) /\ Held(x) = {}
  BY DEF Shape, Held
<1>6. LockInv'
  <2> SUFFICES ASSUME NEW v \in Workers
               PROVE  Shape(job'[v]) /\ \A r \in Held(job'[v]) : locked'[r] = v
    BY DEF LockInv
  <2> QED BY <1>3, <1>4, <1>5 DEF RefInv, LockInv
<1>7. locked' \in [Rows -> Workers \cup {None}] /\ \A r \in Rows : locked'[r] # None => Exists(r)
  BY <1>4 DEF RefInv, TypeInv, RowInv
<1> QED BY <1>3, <1>4, <1>6, <1>7, Unwritten DEF tables

\* whichever it is.
LEMMA Submitted ==
  ASSUME MaintenanceAssumption, RefInv, NEW w \in Workers, SubmitAny(w)
  PROVE  RefInv'
<1>1. ASSUME NEW st \in Stations, NEW op \in StationOps, Submit(w, op, <<st>>) PROVE RefInv'
  <2>1. <<st>> \in Seq(Rows) /\ op \in Ops
    BY DEF Rows, Ops
  <2> QED BY <1>1, <2>1, SubmittedOne
<1>2. ASSUME NEW c \in Chargers, Submit(w, "delete_charger", <<c>>) PROVE RefInv'
  <2>1. <<c>> \in Seq(Rows) /\ "delete_charger" \in Ops
    BY DEF Rows, Ops
  <2> QED BY <1>2, <2>1, SubmittedOne
<1>3. ASSUME NEW u \in Users, NEW op \in UserOps, Submit(w, op, <<u>>) PROVE RefInv'
  <2>1. <<u>> \in Seq(Rows) /\ op \in Ops
    BY DEF Rows, Ops
  <2> QED BY <1>3, <2>1, SubmittedOne
<1>4. ASSUME NEW u \in Users, NEW c \in Chargers, Submit(w, "reserve", <<u, c>>) PROVE RefInv'
  <2>1. <<u, c>> \in Seq(Rows) /\ "reserve" \in Ops
    BY DEF Rows, Ops
  <2> QED BY <1>4, <2>1, SubmittedOne
<1> QED BY <1>1, <1>2, <1>3, <1>4 DEF SubmitAny, StationOps, UserOps

\* A look writes nothing, and what it finds is true of rows that are locked.
LEMMA Looked ==
  ASSUME MaintenanceAssumption, RefInv, NEW w \in Workers, Look(w)
  PROVE  RefInv'
<1>1. CASE ~Allowed(job[w].op, Head(job[w].names))
  BY <1>1, Rejected DEF Look
<1>2. CASE Allowed(job[w].op, Head(job[w].names))
  <2>1. /\ job' = [job EXCEPT ![w].at = "write"] /\ UNCHANGED <<tables, locked>>
        /\ job[w].at = "look" /\ job \in [Workers -> Jobs]
    BY <1>2 DEF Look, RefInv, TypeInv
  <2> DEFINE x == [job[w] EXCEPT !.at = "write"]
  <2>2. /\ x \in Jobs /\ x.at = "write"
        /\ x.op = job[w].op /\ x.names = job[w].names
    BY <2>1 DEF Jobs
  <2>3. /\ job' \in [Workers -> Jobs] /\ job'[w] = x
        /\ \A v \in Workers \ {w} : job'[v] = job[v]
    BY <2>1, <2>2
  <2>4. Shape(job[w]) /\ \A r \in Held(job[w]) : locked[r] = w
    BY DEF RefInv, LockInv
  <2>5. Shape(x) /\ Held(x) = Held(job[w])
    BY <2>1, <2>2, <2>4 DEF Shape, Held, NoJob
  <2> HIDE DEF x
  <2>6. LockInv'
    <3> SUFFICES ASSUME NEW v \in Workers
                 PROVE  Shape(job'[v]) /\ \A r \in Held(job'[v]) : locked'[r] = v
      BY DEF LockInv
    <3> QED BY <2>1, <2>3, <2>4, <2>5 DEF RefInv, LockInv
  <2>7. locked' \in [Rows -> Workers \cup {None}] /\ \A r \in Rows : locked'[r] # None => Exists(r)
    BY <2>1 DEF RefInv, TypeInv, RowInv
  <2>8. UNCHANGED tables
    BY <2>1 DEF tables
  <2> QED BY <1>2, <2>2, <2>3, <2>6, <2>7, <2>8, Unwritten
<1> QED BY <1>1, <1>2

\* The command of a worker that has found and locked its next row.
Advanced(y) ==
  [y EXCEPT !.rows = Tail(y.rows), !.at = IF Tail(y.rows) = <<>> THEN "look" ELSE "lock"]

\* A worker with one more lock.
LEMMA AdvancedShape ==
  ASSUME NEW y \in Jobs, Shape(y), y.at = "lock"
  PROVE  /\ Head(y.rows) \in Rows /\ Advanced(y) \in Jobs /\ Shape(Advanced(y))
         /\ Advanced(y).at # "write"
         /\ Held(Advanced(y)) \subseteq Held(y) \cup {Head(y.rows)}
<1> DEFINE x == Advanced(y)
<1>1. y # NoJob
  BY DEF NoJob
<1>2. Advanced(y).op = y.op /\ Advanced(y).names = y.names
  BY DEF Advanced, Jobs
<1>3. ASSUME NEW q \in Rows, y.names = <<q>>, y.rows = <<q>>
      PROVE  /\ Head(y.rows) = q /\ x.at = "look" /\ x \in Jobs /\ Held(x) = {q}
  <2>1. Head(y.rows) = q /\ Tail(y.rows) = <<>> /\ Tail(y.rows) \in Seq(Rows)
    BY <1>3
  <2>2. x \in Jobs /\ x.at = "look"
    BY <2>1 DEF Advanced, Jobs
  <2> QED BY <1>2, <1>3, <2>1, <2>2 DEF Held
<1>4. ASSUME NEW u \in Users, NEW c \in Chargers, y.names = <<u, c>>, y.rows = <<u, c>>
      PROVE  /\ Head(y.rows) = u /\ x.at = "lock" /\ x.rows = <<c>> /\ x \in Jobs
             /\ Held(x) = {u}
  <2>1. /\ Head(y.rows) = u /\ Tail(y.rows) = <<c>> /\ <<c>> \in Seq(Rows)
        /\ <<c>> # <<>> /\ <<c>> # <<u, c>>
    BY <1>4 DEF Rows
  <2>2. x \in Jobs /\ x.at = "lock" /\ x.rows = <<c>>
    BY <2>1 DEF Advanced, Jobs
  <2> QED BY <1>2, <1>4, <2>1, <2>2 DEF Held
<1>5. ASSUME NEW u \in Users, NEW c \in Chargers, y.names = <<u, c>>, y.rows = <<c>>
      PROVE  /\ Head(y.rows) = c /\ x.at = "look" /\ x \in Jobs
             /\ Held(x) \subseteq {u, c} /\ Held(y) = {u}
  <2>1. /\ Head(y.rows) = c /\ Tail(y.rows) = <<>> /\ Tail(y.rows) \in Seq(Rows)
        /\ <<c>> # <<u, c>>
    BY <1>5
  <2>2. x \in Jobs /\ x.at = "look"
    BY <2>1 DEF Advanced, Jobs
  <2> QED BY <1>2, <1>5, <2>1, <2>2 DEF Held
<1> HIDE DEF x
<1>6. CASE \E q \in Rows : y.op # "reserve" /\ y.names = <<q>>
  <2>1. PICK q \in Rows : y.op # "reserve" /\ y.names = <<q>>
    BY <1>6
  <2>2. y.rows = <<q>>
    BY <1>1, <2>1 DEF Shape
  <2>3. /\ Head(y.rows) = q /\ x.at = "look" /\ x \in Jobs /\ Held(x) = {q}
    BY <1>3, <2>1, <2>2
  <2>4. Shape(x)
    BY <1>1, <1>2, <2>3 DEF Shape, x
  <2> QED BY <2>1, <2>3, <2>4 DEF x
<1>7. CASE \E u \in Users, c \in Chargers : y.op = "reserve" /\ y.names = <<u, c>>
  <2>1. PICK u \in Users, c \in Chargers : y.op = "reserve" /\ y.names = <<u, c>>
    BY <1>7
  <2>2. y.rows = <<u, c>> \/ y.rows = <<c>>
    BY <1>1, <2>1 DEF Shape
  <2>3. u \in Rows /\ c \in Rows
    BY DEF Rows
  <2>4. CASE y.rows = <<u, c>>
    <3>1. /\ Head(y.rows) = u /\ x.at = "lock" /\ x.rows = <<c>> /\ x \in Jobs /\ Held(x) = {u}
      BY <1>4, <2>1, <2>4
    <3>2. x.op = "reserve" /\ x.names = <<u, c>>
      BY <1>2, <2>1 DEF x
    <3>3. Shape(x)
      BY <3>1, <3>2 DEF Shape
    <3> QED BY <2>3, <3>1, <3>3 DEF x
  <2>5. CASE y.rows = <<c>>
    <3>1. /\ Head(y.rows) = c /\ x.at = "look" /\ x \in Jobs
          /\ Held(x) \subseteq {u, c} /\ Held(y) = {u}
      BY <1>5, <2>1, <2>5
    <3>2. x.op = "reserve" /\ x.names = <<u, c>>
      BY <1>2, <2>1 DEF x
    <3>3. Shape(x)
      BY <3>1, <3>2 DEF Shape
    <3> QED BY <2>3, <3>1, <3>3 DEF x
  <2> QED BY <2>2, <2>4, <2>5
<1> QED BY <1>1, <1>6, <1>7 DEF Shape, Rows, StationOps, UserOps

\* To take a lock keeps what the others hold.
LEMMA LockTaken ==
  ASSUME MaintenanceAssumption, RefInv, NEW w \in Workers, Lock(w)
  PROVE  RefInv'
<1> DEFINE y == job[w]
           r == Head(y.rows)
<1>1. CASE ~Exists(r)
  BY <1>1, Rejected DEF Lock
<1>2. CASE Exists(r)
  <2>1. /\ y.at = "lock" /\ locked[r] = None
        /\ locked' = [locked EXCEPT ![r] = w] /\ UNCHANGED tables
        /\ job' = [job EXCEPT ![w] = Advanced(y)]
        /\ job \in [Workers -> Jobs] /\ locked \in [Rows -> Workers \cup {None}]
    BY <1>2 DEF Lock, Takes, RefInv, TypeInv, Advanced
  <2>2. Shape(y) /\ \A q \in Held(y) : locked[q] = w
    BY DEF RefInv, LockInv
  <2>3. /\ r \in Rows /\ Advanced(y) \in Jobs /\ Shape(Advanced(y)) /\ Advanced(y).at # "write"
        /\ Held(Advanced(y)) \subseteq Held(y) \cup {r}
    BY <2>1, <2>2, AdvancedShape
  <2>4. /\ job' \in [Workers -> Jobs] /\ job'[w] = Advanced(y)
        /\ \A v \in Workers \ {w} : job'[v] = job[v]
        /\ locked' \in [Rows -> Workers \cup {None}]
    BY <2>1, <2>3
  <2>5. \A q \in Rows : q # r => locked'[q] = locked[q]
    BY <2>1
  <2>6. locked'[r] = w
    BY <2>1, <2>3
  <2>7. LockInv'
    <3> SUFFICES ASSUME NEW v \in Workers
                 PROVE  Shape(job'[v]) /\ \A q \in Held(job'[v]) : locked'[q] = v
      BY DEF LockInv
    <3>1. CASE v = w
      <4>1. \A q \in Held(y) : q \in Rows
        BY <2>2, HeldRows
      <4> QED BY <2>2, <2>3, <2>4, <2>5, <2>6, <3>1, <4>1
    <3>2. CASE v # w
      <4>1. Shape(job[v]) /\ \A q \in Held(job[v]) : locked[q] = v
        BY DEF RefInv, LockInv
      <4>2. \A q \in Held(job[v]) : q \in Rows /\ q # r
        BY <2>1, <4>1, HeldRows DEF MaintenanceAssumption
      <4> QED BY <2>4, <2>5, <3>2, <4>1, <4>2
    <3> QED BY <3>1, <3>2
  <2>8. \A q \in Rows : locked'[q] # None => Exists(q)
    BY <1>2, <2>5 DEF RefInv, RowInv
  <2>9. \A v \in Workers : job'[v].at = "write" => job'[v] = job[v]
    BY <2>3, <2>4
  <2> QED BY <2>1, <2>4, <2>7, <2>8, <2>9, Unwritten
<1> QED BY <1>1, <1>2
-----------------------------------------------------------------------------
\* The writes.  A worker that writes disturbs what no other worker has locked.

TablesTyped ==
  /\ stations \subseteq Stations /\ users \subseteq Users
  /\ home \in [Chargers -> Stations \cup {None}]
  /\ orders \subseteq [user : Users, charger : Chargers]
  /\ requests \subseteq Users

RowsSpent == stations \subseteq spent /\ \A c \in Chargers : home[c] # None => c \in spent

\* Worker v is about to act on row r.
ActsOn(v, op, r) == op = job[v].op /\ r = Head(job[v].names)

\* A write that keeps the references, the rows that are locked and what others have
\* found preserves the invariant.
LEMMA Written ==
  ASSUME MaintenanceAssumption, RefInv, NEW w \in Workers, Finish(w),
         TablesTyped', RowsSpent', Backed', ReferencesHold',
         \A r \in Rows : locked[r] \notin {None, w} /\ Exists(r) => Exists(r)',
         \A v \in Workers \ {w}, op \in Ops, r \in Rows :
           Named(v, job[v]) /\ ActsOn(v, op, r) /\ Allowed(op, r) => Allowed(op, r)'
  PROVE  RefInv'
<1>1. TypeInv /\ LockInv /\ RowInv
  BY DEF RefInv
<1>2. /\ job' \in [Workers -> Jobs] /\ locked' \in [Rows -> Workers \cup {None}]
      /\ job'[w] = NoJob /\ \A v \in Workers \ {w} : job'[v] = job[v]
      /\ \A r \in Rows : locked'[r] # None => locked'[r] = locked[r] /\ locked[r] # w
      /\ LockInv'
  BY <1>1, Finished
<1>3. TypeInv'
  BY <1>2 DEF TypeInv, TablesTyped
<1>4. RowInv'
  <2>1. \A r \in Rows : locked'[r] # None => Exists(r)'
    BY <1>1, <1>2 DEF RowInv
  <2> QED BY <2>1 DEF RowInv, RowsSpent
<1>5. LookInv'
  <2> SUFFICES ASSUME NEW v \in Workers, job'[v].at = "write",
                      NEW op, NEW r, op = job'[v].op, r = Head(job'[v].names)
               PROVE  Allowed(op, r)'
    BY DEF LookInv
  <2>1. v # w /\ job'[v] = job[v]
    BY <1>2 DEF NoJob
  <2>2. Named(v, job[v]) /\ Allowed(job[v].op, Head(job[v].names))
    BY <1>1, <2>1, NamedRows DEF RefInv, LookInv
  <2>3. op \in Ops /\ r \in Rows /\ ActsOn(v, op, r)
    BY <2>1, <2>2 DEF Named, Ops, ActsOn
  <2> QED BY <2>1, <2>2, <2>3 DEF ActsOn
<1> QED BY <1>2, <1>3, <1>4, <1>5 DEF RefInv

\* Before a write: what the worker has locked and found, and that the others
\* have locked other rows.
LEMMA Writing ==
  ASSUME MaintenanceAssumption, RefInv, NEW w \in Workers, job[w].at = "write"
  PROVE  /\ Named(w, job[w]) /\ Allowed(job[w].op, Head(job[w].names))
         /\ TablesTyped /\ RowsSpent /\ Backed /\ ReferencesHold
         /\ \A v \in Workers \ {w} : Named(v, job[v]) =>
              Head(job[v].names) # Head(job[w].names)
<1>1. Named(w, job[w])
  BY NamedRows DEF RefInv
<1>2. Allowed(job[w].op, Head(job[w].names))
  BY DEF RefInv, LookInv
<1> QED BY <1>1, <1>2 DEF RefInv, TypeInv, RowInv, TablesTyped, RowsSpent, Named

\* A station is deleted when it has no chargers,
LEMMA StationDeleted ==
  ASSUME MaintenanceAssumption, RefInv, NEW w \in Workers, DeleteStation(w)
  PROVE  RefInv'
<1> DEFINE st == Head(job[w].names)
<1>1. /\ Named(w, job[w]) /\ Allowed("delete_station", st) /\ job[w].op = "delete_station"
      /\ TablesTyped /\ RowsSpent /\ Backed /\ ReferencesHold
      /\ stations' = stations \ {st} /\ Finish(w)
      /\ UNCHANGED <<home, users, spent, orders, funded, entries, requests>>
  BY Writing DEF DeleteStation
<1>2. st \in stations /\ locked[st] = w /\ \A c \in Chargers : home[c] # st
  BY <1>1 DEF Named, Allowed, StationOps, UserOps
<1>3. TablesTyped' /\ RowsSpent' /\ Backed'
  BY <1>1 DEF TablesTyped, RowsSpent, Backed
<1>4. ReferencesHold'
  BY <1>1, <1>2 DEF ReferencesHold
<1>5. \A r \in Rows : locked[r] \notin {None, w} /\ Exists(r) => Exists(r)'
  BY <1>1, <1>2 DEF Exists
<1>6. \A v \in Workers \ {w}, op \in Ops, r \in Rows :
        Named(v, job[v]) /\ ActsOn(v, op, r) /\ Allowed(op, r) => Allowed(op, r)'
  BY <1>1 DEF Allowed, Unused
<1> QED BY <1>1, <1>3, <1>4, <1>5, <1>6, Written

\* and a charger created at one that exists.
LEMMA ChargerCreated ==
  ASSUME MaintenanceAssumption, RefInv, NEW w \in Workers, CreateCharger(w)
  PROVE  RefInv'
<1> DEFINE st == Head(job[w].names)
<1>1. /\ Named(w, job[w]) /\ job[w].op = "create_charger"
      /\ TablesTyped /\ RowsSpent /\ Backed /\ ReferencesHold /\ Finish(w)
      /\ UNCHANGED <<stations, users, orders, funded, entries, requests>>
      /\ \A v \in Workers \ {w} : Named(v, job[v]) => Head(job[v].names) # st
  BY Writing DEF CreateCharger
<1>2. PICK c \in Chargers \ spent :
        home' = [home EXCEPT ![c] = st] /\ spent' = spent \cup {c}
  BY DEF CreateCharger
<1>3. st \in stations /\ st # None /\ home[c] = None
  BY <1>1, <1>2 DEF Named, StationOps, UserOps, TablesTyped, RowsSpent, MaintenanceAssumption
<1>4. home' \in [Chargers -> Stations \cup {None}]
      /\ \A d \in Chargers : home'[d] = IF d = c THEN st ELSE home[d]
  BY <1>1, <1>2, <1>3 DEF TablesTyped
<1>5. TablesTyped' /\ RowsSpent' /\ Backed'
  BY <1>1, <1>2, <1>4 DEF TablesTyped, RowsSpent, Backed
<1>6. ReferencesHold'
  BY <1>1, <1>3, <1>4 DEF ReferencesHold, TablesTyped
<1>7. \A r \in Rows : Exists(r) => Exists(r)'
  BY <1>1, <1>3, <1>4 DEF Exists
<1>8. \A v \in Workers \ {w}, op \in Ops, r \in Rows :
        Named(v, job[v]) /\ ActsOn(v, op, r) /\ Allowed(op, r) => Allowed(op, r)'
  BY <1>1, <1>4 DEF Allowed, Unused, ActsOn
<1> QED BY <1>1, <1>5, <1>6, <1>7, <1>8, Written

\* A charger is deleted when no order is on it,
LEMMA ChargerDeleted ==
  ASSUME MaintenanceAssumption, RefInv, NEW w \in Workers, DeleteCharger(w)
  PROVE  RefInv'
<1> DEFINE c == Head(job[w].names)
<1>1. /\ Named(w, job[w]) /\ Allowed("delete_charger", c) /\ job[w].op = "delete_charger"
      /\ TablesTyped /\ RowsSpent /\ Backed /\ ReferencesHold
      /\ home' = [home EXCEPT ![c] = None] /\ Finish(w)
      /\ UNCHANGED <<stations, users, spent, orders, funded, entries, requests>>
  BY Writing DEF DeleteCharger
<1>2. c \in Chargers /\ locked[c] = w /\ \A o \in orders : o.charger # c
  BY <1>1 DEF Named, Allowed, StationOps, UserOps
<1>3. /\ home' \in [Chargers -> Stations \cup {None}]
      /\ \A d \in Chargers : home'[d] = IF d = c THEN None ELSE home[d]
  BY <1>1, <1>2 DEF TablesTyped
<1>4. TablesTyped' /\ RowsSpent' /\ Backed'
  BY <1>1, <1>3 DEF TablesTyped, RowsSpent, Backed
<1>5. ReferencesHold'
  BY <1>1, <1>2, <1>3 DEF ReferencesHold, TablesTyped
<1>6. \A r \in Rows : locked[r] \notin {None, w} /\ Exists(r) => Exists(r)'
  BY <1>1, <1>2, <1>3 DEF Exists
<1>7. \A v \in Workers \ {w}, op \in Ops, r \in Rows :
        Named(v, job[v]) /\ ActsOn(v, op, r) /\ Allowed(op, r) => Allowed(op, r)'
  BY <1>1, <1>3 DEF Allowed, Unused, ActsOn, Named, TablesTyped, MaintenanceAssumption
<1> QED BY <1>1, <1>4, <1>5, <1>6, <1>7, Written

\* a user when there are no orders and no entries.
LEMMA UserDeleted ==
  ASSUME MaintenanceAssumption, RefInv, NEW w \in Workers, DeleteUser(w)
  PROVE  RefInv'
<1> DEFINE u == Head(job[w].names)
<1>1. /\ Named(w, job[w]) /\ Allowed("user_delete", u) /\ job[w].op = "user_delete"
      /\ TablesTyped /\ RowsSpent /\ Backed /\ ReferencesHold
      /\ users' = users \ {u} /\ Finish(w)
      /\ UNCHANGED <<stations, home, spent, orders, funded, entries, requests>>
  BY Writing DEF DeleteUser
<1>2. u \in users /\ locked[u] = w /\ Unused(u)
  BY <1>1 DEF Named, Allowed, StationOps, UserOps
<1>3. TablesTyped' /\ RowsSpent' /\ Backed'
  BY <1>1 DEF TablesTyped, RowsSpent, Backed
<1>4. ReferencesHold'
  <2>1. u \notin entries \cup requests
    BY <1>1, <1>2 DEF Unused, Backed
  <2>2. \A o \in orders : o.user # u
    BY <1>2 DEF Unused
  <2> QED BY <1>1, <2>1, <2>2 DEF ReferencesHold
<1>5. \A r \in Rows : locked[r] \notin {None, w} /\ Exists(r) => Exists(r)'
  BY <1>1, <1>2 DEF Exists
<1>6. \A v \in Workers \ {w}, op \in Ops, r \in Rows :
        Named(v, job[v]) /\ ActsOn(v, op, r) /\ Allowed(op, r) => Allowed(op, r)'
  BY <1>1 DEF Allowed, Unused
<1> QED BY <1>1, <1>3, <1>4, <1>5, <1>6, Written

\* Money comes with an entry,
LEMMA Moved ==
  ASSUME MaintenanceAssumption, RefInv, NEW w \in Workers, Move(w)
  PROVE  RefInv'
<1> DEFINE u == Head(job[w].names)
<1>1. /\ Named(w, job[w]) /\ job[w].op \in {"recharge", "spend"}
      /\ TablesTyped /\ RowsSpent /\ Backed /\ ReferencesHold
      /\ entries' = entries \cup {u} /\ Finish(w)
      /\ funded' \in {funded, funded \cup {u}, funded \ {u}}
      /\ UNCHANGED <<stations, home, users, spent, orders, requests>>
      /\ \A v \in Workers \ {w} : Named(v, job[v]) => Head(job[v].names) # u
  BY Writing DEF Move
<1>2. u \in users
  BY <1>1 DEF Named, StationOps, UserOps
<1>3. TablesTyped' /\ RowsSpent' /\ Backed'
  BY <1>1 DEF TablesTyped, RowsSpent, Backed
<1>4. ReferencesHold'
  BY <1>1, <1>2 DEF ReferencesHold
<1>5. \A r \in Rows : Exists(r) => Exists(r)'
  BY <1>1 DEF Exists
<1>6. \A v \in Workers \ {w}, op \in Ops, r \in Rows :
        Named(v, job[v]) /\ ActsOn(v, op, r) /\ Allowed(op, r) => Allowed(op, r)'
  BY <1>1 DEF Allowed, Unused, ActsOn
<1> QED BY <1>1, <1>3, <1>4, <1>5, <1>6, Written

\* a withdrawal needs money,
LEMMA Withdrawn ==
  ASSUME MaintenanceAssumption, RefInv, NEW w \in Workers, Withdraw(w)
  PROVE  RefInv'
<1> DEFINE u == Head(job[w].names)
<1>1. /\ Named(w, job[w]) /\ Allowed("withdraw", u) /\ job[w].op = "withdraw"
      /\ TablesTyped /\ RowsSpent /\ Backed /\ ReferencesHold
      /\ requests' = requests \cup {u} /\ Finish(w)
      /\ UNCHANGED <<stations, home, users, spent, orders, funded, entries>>
  BY Writing DEF Withdraw
<1>2. u \in users /\ u \in funded
  BY <1>1 DEF Named, Allowed, StationOps, UserOps
<1>3. TablesTyped' /\ RowsSpent' /\ Backed'
  BY <1>1, <1>2 DEF TablesTyped, RowsSpent, Backed
<1>4. ReferencesHold'
  BY <1>1, <1>2 DEF ReferencesHold
<1>5. \A r \in Rows : Exists(r) => Exists(r)'
  BY <1>1 DEF Exists
<1>6. \A v \in Workers \ {w}, op \in Ops, r \in Rows :
        Named(v, job[v]) /\ ActsOn(v, op, r) /\ Allowed(op, r) => Allowed(op, r)'
  BY <1>1 DEF Allowed, Unused
<1> QED BY <1>1, <1>3, <1>4, <1>5, <1>6, Written

\* and a reservation a user and a charger that exist.
LEMMA Reserved ==
  ASSUME MaintenanceAssumption, RefInv, NEW w \in Workers, Reserve(w)
  PROVE  RefInv'
<1> DEFINE u == Head(job[w].names)
           c == job[w].names[2]
           o == [user |-> u, charger |-> c]
<1>1. /\ Named(w, job[w]) /\ job[w].op = "reserve"
      /\ TablesTyped /\ RowsSpent /\ Backed /\ ReferencesHold /\ Finish(w)
      /\ UNCHANGED <<stations, home, users, spent, funded, entries, requests>>
      /\ \A v \in Workers \ {w} : Named(v, job[v]) => Head(job[v].names) # u
  BY Writing DEF Reserve
<1>2. /\ u \in users /\ u = job[w].names[1]
      /\ c \in Chargers /\ locked[c] = w /\ home[c] # None
  BY <1>1 DEF Named, StationOps, UserOps
<1>3. orders' = orders \cup {o}
  BY <1>2 DEF Reserve
<1>4. TablesTyped' /\ RowsSpent' /\ Backed'
  BY <1>1, <1>2, <1>3 DEF TablesTyped, RowsSpent, Backed
<1>5. ReferencesHold'
  BY <1>1, <1>2, <1>3 DEF ReferencesHold
<1>6. \A r \in Rows : Exists(r) => Exists(r)'
  BY <1>1 DEF Exists
<1>7. ASSUME NEW v \in Workers \ {w}, NEW op \in Ops, NEW r \in Rows,
             Named(v, job[v]), ActsOn(v, op, r), Allowed(op, r)
      PROVE  Allowed(op, r)'
  <2>1. r # u /\ r # c
    BY <1>1, <1>2, <1>7 DEF Named, ActsOn
  <2>2. CASE op = "delete_charger"
    BY <1>3, <1>7, <2>1, <2>2 DEF Allowed
  <2>3. CASE op = "user_delete"
    BY <1>1, <1>3, <1>7, <2>1, <2>3 DEF Allowed, Unused
  <2>4. CASE op \notin {"delete_charger", "user_delete"}
    BY <1>1, <1>7, <2>4 DEF Allowed
  <2> QED BY <2>2, <2>3, <2>4
<1> QED BY <1>1, <1>4, <1>5, <1>6, <1>7, Written
-----------------------------------------------------------------------------
\* At first there are no references.
LEMMA RefInvInit == ASSUME MaintenanceAssumption, MaintenanceInit PROVE RefInv
<1>1. NoJob \in Jobs
  <2>1. <<>> \in Seq(Rows)
    OBVIOUS
  <2>2. \A s \in Seq(Rows) : [op |-> "none", names |-> s, rows |-> s, at |-> "none"] \in Jobs
    BY DEF Jobs
  <2> QED BY <2>1, <2>2 DEF NoJob
<1>2. job \in [Workers -> Jobs] /\ \A w \in Workers : job[w] = NoJob
  BY <1>1 DEF MaintenanceInit
<1>3. TypeInv /\ RowInv /\ Backed /\ ReferencesHold
  BY <1>2 DEF MaintenanceInit, TypeInv, RowInv, Backed, ReferencesHold
<1>4. LockInv /\ LookInv
  BY <1>2 DEF LockInv, LookInv, Shape, Held, NoJob
<1> QED BY <1>3, <1>4 DEF RefInv

\* Every step preserves the invariant.
LEMMA RefInvStep ==
  ASSUME MaintenanceAssumption, RefInv, [MaintenanceStep]_maintenanceVars
  PROVE  RefInv'
<1>1. CASE UNCHANGED maintenanceVars
  BY <1>1 DEF maintenanceVars, tables, RefInv, TypeInv, LockInv, RowInv, LookInv, Backed,
              ReferencesHold, Exists, Allowed, Unused
<1>2. ASSUME NEW st \in Stations, NEW initial \in SUBSET Chargers, CreateStation(st, initial)
      PROVE  RefInv'
  <2>1. UNCHANGED <<locked, job>>
    BY <1>2 DEF CreateStation
  <2> QED BY <1>2, <2>1, Created
<1>3. ASSUME NEW u \in Users, CreateUser(u) PROVE RefInv'
  <2>1. UNCHANGED <<locked, job>>
    BY <1>3 DEF CreateUser
  <2> QED BY <1>3, <2>1, Created
<1>4. ASSUME NEW w \in Workers,
             \/ SubmitAny(w) \/ Lock(w) \/ Look(w)
             \/ DeleteStation(w) \/ CreateCharger(w) \/ DeleteCharger(w) \/ DeleteUser(w)
             \/ Move(w) \/ Withdraw(w) \/ Reserve(w)
      PROVE  RefInv'
  BY <1>4, Submitted, LockTaken, Looked, StationDeleted, ChargerCreated, ChargerDeleted,
     UserDeleted, Moved, Withdrawn, Reserved
<1> QED BY <1>1, <1>2, <1>3, <1>4 DEF MaintenanceStep

\* However many workers there are, no command that creates, deletes or uses
\* stations, chargers and users is ever stopped by a foreign key.
THEOREM ForeignKeysHold == MaintenanceSpec => []ReferencesHold
<1>1. MaintenanceInit => RefInv
  BY RefInvInit, MaintenanceAssumption
<1>2. RefInv /\ [MaintenanceStep]_maintenanceVars => RefInv'
  BY RefInvStep, MaintenanceAssumption
<1>3. RefInv => ReferencesHold
  BY DEF RefInv
<1> QED BY <1>1, <1>2, <1>3, PTL DEF MaintenanceSpec
=============================================================================
