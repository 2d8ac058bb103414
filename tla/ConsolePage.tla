------------------------------ MODULE ConsolePage ------------------------------
(***************************************************************************)
(* The administrator's console in the browser (admin.js): one editor that  *)
(* every form is shown in, one drawer, one snapshot of the server's rows.  *)
(*                                                                         *)
(* The page is one thread; what runs between two awaits is one action.  A  *)
(* lost call has failed for the page, and may yet be served.  The rows are *)
(* one row with one field: what the lists, their buttons and the forms do  *)
(* with it, they do with every other.                                      *)
(***************************************************************************)
EXTENDS Null, Naturals, FiniteSets

CONSTANTS
  Payees,        \* users that can be paid, or booked for
  Values,        \* what a form is filled with: amounts, chargers, fields
  Managers,      \* the kinds of lists the drawer is opened with
  MaxForms,      \* bound on the forms opened
  MaxAwaits,     \* bound on the calls in flight
  MaxLosses      \* bound on the calls lost

ASSUME ConsoleAssumption ==
  /\ MaxForms \in Nat /\ MaxAwaits \in Nat \ {0} /\ MaxLosses \in Nat
  /\ None \notin Payees \cup Values /\ None \notin Managers /\ Values # {}

VARIABLES
  entries,     \* the wallet entries and orders that forms have made
  row,         \* the row in the database
  connected,   \* state.token
  known,       \* the row in state
  drawer,      \* state.drawer
  content,     \* what the drawer shows
  form,        \* the form in the editor, or NoForm when it is closed
  disabled,    \* the disabled property of #submit-edit
  forms,       \* how many forms were opened
  saved,       \* history: the submissions the page has called saved
  await,       \* the calls in flight
  losses       \* how many calls were lost

consoleVars == <<entries, row, connected, known, drawer, content, form,
                 disabled, forms, saved, await, losses>>
pageState == <<connected, known, drawer, content, form, disabled, forms,
               saved, losses>>

Awaits == 1 .. MaxAwaits
NoForm == [opening |-> 0, kind |-> "none", user |-> None]
\* What the drawer shows: a list of the row, nothing, or something else.
Manager(kind, r) == [kind |-> kind, row |-> r]
Closed == [kind |-> "closed", row |-> None]
Elsewhere == [kind |-> "details", row |-> None]
NoAwait == [op |-> "none", form |-> NoForm, user |-> None, key |-> 0,
            what |-> None, stage |-> "idle"]

ConsoleInit ==
  /\ entries = {} /\ row = CHOOSE v \in Values : TRUE
  /\ connected = FALSE /\ known = None
  /\ drawer = None /\ content = Closed
  /\ form = NoForm /\ disabled = FALSE /\ forms = 0
  /\ saved = {} /\ await = [a \in Awaits |-> NoAwait] /\ losses = 0

Idlers == {a \in Awaits : await[a].stage = "idle"}

\* api(): f is the form that waits for the call, or NoForm.
Call(op, f, user, key, what) ==
  LET a == CHOOSE a \in Idlers : \A b \in Idlers : a <= b
  IN  /\ Idlers # {}
      /\ await' = [await EXCEPT ![a] = [op |-> op, form |-> f, user |-> user,
                      key |-> key, what |-> what, stage |-> "sent"]]

Return(a) == await' = [await EXCEPT ![a] = NoAwait]

\* ... and now waits for the answers to refresh().
ThenRefresh(a) ==
  await' = [await EXCEPT ![a] = [NoAwait EXCEPT !.op = "get", !.stage = "sent",
                                                !.form = await[a].form]]
-----------------------------------------------------------------------------
(* The server. *)

\* The same key again: a booking is returned as it is, an amount must be the same.
Replies(e, what) == e.kind = "book" \/ e.what = what

Finish(a, stage) ==
  await' = [await EXCEPT ![a] =
    IF await[a].stage = "orphan" THEN NoAwait ELSE [@ EXCEPT !.stage = stage]]

Post(a) ==
  LET c == await[a]
      old == {e \in entries : e.user = c.user /\ e.key = c.key}
      new == [opening |-> c.form.opening, kind |-> c.form.kind, user |-> c.user,
              key |-> c.key, what |-> c.what]
  IN  /\ c.op = "post" /\ c.form.kind \in {"money", "book"}
      /\ \/ \E e \in old : Replies(e, c.what) /\ Finish(a, "answered")
            /\ UNCHANGED entries
         \/ old = {} /\ Finish(a, "answered") /\ entries' = entries \cup {new}
         \/ Finish(a, "failed") /\ UNCHANGED entries
      /\ UNCHANGED row

Write(a) ==
  /\ await[a].op = "toggle" \/ (await[a].op = "post" /\ await[a].form.kind = "edit")
  /\ \/ Finish(a, "answered") /\ row' = await[a].what
     \/ Finish(a, "failed") /\ UNCHANGED row
  /\ UNCHANGED entries

Read(a) ==
  /\ await[a].op \in {"get", "wallet", "enter"}
  /\ await' = [await EXCEPT ![a] =
       IF @.stage = "orphan" THEN NoAwait ELSE [@ EXCEPT !.stage = "answered", !.what = row]]
  /\ UNCHANGED <<entries, row>>

Admit(a) ==
  /\ await[a].op = "post" /\ await[a].form.kind = "login"
  /\ Finish(a, "answered") \/ Finish(a, "failed")
  /\ UNCHANGED <<entries, row>>

ServeConsole(a) ==
  /\ await[a].stage \in {"sent", "orphan"}
  /\ Post(a) \/ Write(a) \/ Read(a) \/ Admit(a)
  /\ UNCHANGED pageState
-----------------------------------------------------------------------------
(* The editor. *)

\* edit(): money, refund and book make up their key when the form is opened.
\* The editor is modal: another form is opened when it is closed.  The form to
\* log in is offered while nothing could be read.
OpenForm(kind, user) ==
  /\ forms < MaxForms /\ form = NoForm
  /\ IF kind = "login" THEN known = None ELSE connected
  /\ user # None <=> kind = "money"
  /\ forms' = forms + 1
  /\ form' = [opening |-> forms', kind |-> kind, user |-> user]
  /\ UNCHANGED <<entries, row, connected, known, drawer, content, disabled, saved,
                 await, losses>>

CloseEditor ==
  /\ form # NoForm /\ form' = NoForm
  /\ UNCHANGED <<entries, row, connected, known, drawer, content, disabled, forms,
                 saved, await, losses>>

\* Mutant: a key for each submission.
KeyPerSubmit(f) == f.opening + MaxForms * Cardinality(entries)

KeyOf(f) == f.opening

\* The fields can be filled anew before each submission; only the user of an
\* adjustment or refund is fixed when its form is opened.
Submit(user, what) ==
  /\ form # NoForm /\ ~disabled
  /\ form.kind = "money" => user = form.user
  /\ disabled' = TRUE
  /\ Call("post", form, user, KeyOf(form), what)
  /\ UNCHANGED <<entries, row, connected, known, drawer, content, form,
                 forms, saved, losses>>

\* Whatever form the editor shows by now is closed; the button stays disabled
\* until the refresh that follows has ended.
Saved(a) ==
  LET c == await[a]
  IN  /\ form' = NoForm
      /\ saved' = saved \cup {[opening |-> c.form.opening, kind |-> c.form.kind,
                               user |-> c.user, what |-> c.what]}
      /\ ThenRefresh(a)

SubmitAnswered(a) ==
  /\ await[a].op = "post" /\ await[a].stage = "answered"
  /\ await[a].form.kind # "login" /\ Saved(a)
  /\ UNCHANGED <<entries, row, connected, known, drawer, content, disabled, forms, losses>>

\* The form to log in reads everything once before it is closed.
LoginAnswered(a) ==
  /\ await[a].op = "post" /\ await[a].stage = "answered"
  /\ await[a].form.kind = "login" /\ connected' = TRUE
  /\ await' = [await EXCEPT ![a].op = "enter", ![a].stage = "sent"]
  /\ UNCHANGED <<entries, row, known, drawer, content, form, disabled, forms, saved,
                 losses>>

\* refresh(), when all its reads have answered.
Refreshed(r) ==
  known' = r /\ content' = IF drawer = None THEN content ELSE Manager(drawer, r)

EnterAnswered(a) ==
  /\ await[a].op = "enter" /\ await[a].stage = "answered"
  /\ Refreshed(await[a].what) /\ Saved(a)
  /\ UNCHANGED <<entries, row, connected, drawer, disabled, forms, losses>>
-----------------------------------------------------------------------------
(* The drawer. *)

\* manage() and renderManager, also of the empty lists there are before a refresh.
Manage(kind) ==
  /\ connected /\ form = NoForm
  /\ drawer' = kind /\ content' = Manager(kind, known)
  /\ UNCHANGED <<entries, row, connected, known, form, disabled, forms,
                 saved, await, losses>>

\* The dialog closes and its close event clears state.drawer.  After Esc the event is
\* a task of its own: a refresh that ends between the two, and opens the drawer
\* again, is left out.
CloseDrawer ==
  /\ content # Closed /\ form = NoForm
  /\ content' = Closed /\ drawer' = None
  /\ UNCHANGED <<entries, row, connected, known, form, disabled, forms,
                 saved, await, losses>>

\* The wallet of a user or one order is asked for, from a list in the drawer.
AskDetails ==
  /\ drawer # None /\ known # None /\ form = NoForm
  /\ Call("wallet", NoForm, None, 0, None)
  /\ UNCHANGED <<entries, row>> /\ UNCHANGED pageState

\* Mutant: the drawer goes on counting as the list it showed.
DetailsKeep == drawer

Details == None

ShowDetails ==
  /\ drawer' = Details /\ content' = Elsewhere
  /\ UNCHANGED <<entries, row, connected, known, form, disabled, forms,
                 saved, losses>>

DetailsAnswered(a) ==
  /\ await[a].op = "wallet" /\ await[a].stage = "answered"
  /\ ShowDetails /\ Return(a)

\* An audit record, or the account: nothing is asked for.
ShowKnown == connected /\ form = NoForm /\ ShowDetails /\ UNCHANGED await
-----------------------------------------------------------------------------
(* Commands and refreshes. *)

\* init(): the login of the page.
Connect ==
  /\ ~connected /\ connected' = TRUE
  /\ Call("get", NoForm, None, 0, None)
  /\ UNCHANGED <<entries, row, known, drawer, content, form, disabled,
                 forms, saved, losses>>

Refresh ==
  /\ connected /\ form = NoForm
  /\ Call("get", NoForm, None, 0, None)
  /\ UNCHANGED <<entries, row>> /\ UNCHANGED pageState

\* A button of a list: it asks for the opposite of what the page knows.
Toggle ==
  /\ drawer # None /\ known # None /\ form = NoForm
  /\ \E v \in Values \ {known} : Call("toggle", NoForm, None, 0, v)
  /\ UNCHANGED <<entries, row>> /\ UNCHANGED pageState

ToggleAnswered(a) ==
  /\ await[a].op = "toggle" /\ await[a].stage = "answered"
  /\ ThenRefresh(a)
  /\ UNCHANGED <<entries, row>> /\ UNCHANGED pageState

\* refresh(): the newest answer is not told from an older one.
RefreshAnswered(a) ==
  LET c == await[a]
  IN  /\ c.op = "get" /\ c.stage = "answered"
      /\ Refreshed(c.what)
      /\ disabled' = (disabled /\ c.form = NoForm)
      /\ Return(a)
      /\ UNCHANGED <<entries, row, connected, drawer, form, forms, saved, losses>>

\* The catch and finally of edit(), of the listener, of init().
Caught(c) == disabled' = (disabled /\ c.form = NoForm)

CallFailed(a) ==
  /\ await[a].stage = "failed"
  /\ Caught(await[a]) /\ Return(a)
  /\ UNCHANGED <<entries, row, connected, known, drawer, content, form,
                 forms, saved, losses>>

LoseCall(a) ==
  /\ losses < MaxLosses /\ losses' = losses + 1
  /\ await[a].stage \in {"sent", "answered"}
  /\ Caught(await[a])
  /\ IF await[a].stage = "answered" THEN Return(a)
     ELSE await' = [await EXCEPT ![a].stage = "orphan"]
  /\ UNCHANGED <<entries, row, connected, known, drawer, content, form,
                 forms, saved>>

EditorStep ==
  \/ CloseEditor
  \/ \E kind \in {"login", "money", "book", "edit"}, user \in Payees \cup {None} :
       OpenForm(kind, user)
  \/ \E user \in Payees, what \in Values : Submit(user, what)
  \/ \E a \in Awaits : SubmitAnswered(a) \/ LoginAnswered(a) \/ EnterAnswered(a)

DrawerStep ==
  \/ Toggle \/ AskDetails \/ ShowKnown \/ CloseDrawer
  \/ \E kind \in Managers : Manage(kind)
  \/ \E a \in Awaits : DetailsAnswered(a) \/ ToggleAnswered(a)

RefreshStep ==
  \/ Connect \/ Refresh
  \/ \E a \in Awaits :
       ServeConsole(a) \/ RefreshAnswered(a) \/ CallFailed(a) \/ LoseCall(a)

ConsoleStep == EditorStep \/ DrawerStep \/ RefreshStep
-----------------------------------------------------------------------------
\* However often a form is submitted again after an answer was lost, and though
\* what was lost may still be served, one opening of it makes no more than one
\* entry or order of a user, and what the page calls saved is in the ledger, an
\* adjustment with the very amount submitted (the key of a form is made when it
\* is opened, and money() compares what is sent under a key again).
PostedAsTyped ==
  /\ \A e, f \in entries : e.opening = f.opening /\ e.user = f.user => e = f
  /\ \A s \in saved : s.kind \in {"money", "book"} =>
       \E e \in entries : /\ e.opening = s.opening /\ e.user = s.user
                          /\ s.kind = "money" => e.what = s.what

\* Whatever answers arrive while the drawer is opened, closed and used for
\* something else, a list in it shows the rows the page knows (so a button in it
\* does what it says), and what is not a list is never overwritten with one.
DrawerMatchesState ==
  IF drawer = None THEN content \in {Closed, Elsewhere}
  ELSE content = Manager(drawer, known)
=============================================================================
