------------------------------ MODULE ChatSession ------------------------------
(***************************************************************************)
(* The session of the page (App.js) with its two forms (SignIn.js,          *)
(* SignUp.js), in several tabs of one browser, which share localStorage.    *)
(*                                                                          *)
(* A form that has been submitted goes on, when the answer arrives, with    *)
(* the session of the render it was submitted in, even if the tab shows     *)
(* another page by then.  The effect of App runs some time after the        *)
(* session has changed, but before it changes again.                        *)
(***************************************************************************)
EXTENDS Integers, FiniteSets

CONSTANTS
    Tabs,
    Users,          \* who may sign in or up with a password that fits the name
    SeedUsers,      \* those in the literal database
    None,           \* no token, nothing stored, no tab
    HOUR,           \* the delay of the timer
    MaxEvents       \* bound: what users do with the tabs

Sessions == [page : {0, 1}, token : Users \cup {None}]

ASSUME SessionAssumption ==
    /\ SeedUsers \subseteq Users /\ None \notin Users \cup Tabs \cup Nat \cup Sessions
    /\ HOUR \in Nat \ {0} /\ MaxEvents \in Nat

VARIABLES
    registered,     \* the server: names that have an account
    stored,         \* localStorage: "localSession"
    session,        \* of each tab; None for a tab that is closed
    loading,        \* the submission that the form of a tab waits for, or None
    pending,        \* tabs whose effect has still to run
    timer,          \* timeoutId: for how long it has run, or None
    requests,       \* submissions, and answers on their way
    writer,         \* history: the tab that has stored the session last
    hasty,          \* history: tabs that left a form before it was answered
    events

tab == <<session, loading, pending, timer>>
sessionVars == <<registered, stored, tab, requests, writer, hasty, events>>

SignedOut == [page |-> 0, token |-> None]

SessionInit ==
    /\ registered = SeedUsers /\ stored = None
    /\ session = [t \in Tabs |-> None] /\ timer = [t \in Tabs |-> None]
    /\ loading = [t \in Tabs |-> None] /\ pending = {} /\ requests = {}
    /\ writer = None /\ hasty = {} /\ events = 0

Counted == events < MaxEvents /\ events' = events + 1
Open(t) == session[t] # None

\* A form is on the page, and which: 0 signs in, 1 signs up.
Shows(t, page) == Open(t) /\ session[t].token = None /\ session[t].page = page

-----------------------------------------------------------------------------
\* setSession: the effect that is due runs first, and one more becomes due.
SetSession(t, new) ==
    /\ t \notin pending
    /\ session' = [session EXCEPT ![t] = new]
    /\ pending' = pending \cup {t}

\* A tab is opened or reloaded.
Load(t) ==
    /\ Counted
    /\ session' = [session EXCEPT ![t] = IF stored = None THEN SignedOut ELSE stored]
    /\ pending' = pending \cup {t}
    /\ loading' = [loading EXCEPT ![t] = None] /\ timer' = [timer EXCEPT ![t] = None]
    /\ requests' = {[r EXCEPT !.tab = IF @ = t THEN None ELSE @] : r \in requests}
    /\ hasty' = hasty \ {t}
    /\ UNCHANGED <<registered, stored, writer>>

Close(t) ==
    /\ Open(t) /\ Counted
    /\ session' = [session EXCEPT ![t] = None]
    /\ pending' = pending \ {t}
    /\ loading' = [loading EXCEPT ![t] = None] /\ timer' = [timer EXCEPT ![t] = None]
    /\ requests' = {[r EXCEPT !.tab = IF @ = t THEN None ELSE @] : r \in requests}
    /\ UNCHANGED <<registered, stored, writer, hasty>>

\* The link below a form.
SwitchPage(t) ==
    /\ \E page \in {0, 1} : Shows(t, page) /\ SetSession(t, [session[t] EXCEPT !.page = 1 - page])
    /\ Counted
    /\ loading' = [loading EXCEPT ![t] = None]
    /\ hasty' = IF loading[t] # None THEN hasty \cup {t} ELSE hasty
    /\ UNCHANGED <<registered, stored, timer, requests, writer>>

\* Mutant of Clickable: the button of a form that waits is not disabled.
Clickable_Always(t) == TRUE
Clickable(t) == loading[t] = None

\* handleSubmit up to its await; an empty field is refused and changes nothing.
Submit(t, page, user) ==
    /\ Shows(t, page) /\ Clickable(t) /\ Counted
    /\ loading' = [loading EXCEPT ![t] = events]
    /\ requests' = requests \cup {[n |-> events, tab |-> t, user |-> user,
                                   session |-> session[t], status |-> "sent"]}
    /\ UNCHANGED <<registered, stored, session, pending, timer, writer, hasty>>

-----------------------------------------------------------------------------
\* The server, as far as a form can tell: put_account, get_account, and a restart.

Answer(r, status) == requests' = (requests \ {r}) \cup {[r EXCEPT !.status = status]}

put_account(r) ==
    /\ r.status = "sent" /\ r.session.page = 1
    /\ registered' = registered \cup {r.user}
    /\ Answer(r, IF r.user \in registered THEN "dup" ELSE "ok")
    /\ UNCHANGED <<stored, tab, writer, hasty, events>>

get_account(r) ==
    /\ r.status = "sent" /\ r.session.page = 0
    /\ \/ r.user \in registered /\ Answer(r, "ok")
       \/ Answer(r, "error")         \* also for a wrong password
    /\ UNCHANGED <<registered, stored, tab, writer, hasty, events>>

Restart ==
    /\ Counted /\ registered' = SeedUsers
    /\ UNCHANGED <<stored, tab, requests, writer, hasty>>

-----------------------------------------------------------------------------
\* handleSession, with the session of the render that the form belongs to.
AfterSuccess(r) ==
    IF r.session.page = 0 THEN [r.session EXCEPT !.token = r.user]
    ELSE [r.session EXCEPT !.page = 0]

Form(s) == IF s.token = None THEN s.page ELSE None

\* handleSubmit after its await: a failure, also one of the network, leaves the
\* session as it is.  The button of the next form is not touched unless it goes.
Receive(r) ==
    /\ r.tab # None
    /\ \/ r.status = "ok" /\ SetSession(r.tab, AfterSuccess(r))
       \/ r.status \in {"dup", "error", "lost"} /\ UNCHANGED <<session, pending>>
    /\ loading' = IF loading[r.tab] = r.n \/ Form(session'[r.tab]) # Form(session[r.tab])
                  THEN [loading EXCEPT ![r.tab] = None] ELSE loading
    /\ requests' = requests \ {r}
    /\ UNCHANGED <<registered, stored, timer, writer, hasty, events>>

Lose(r) ==
    /\ r.status # "lost" /\ Answer(r, "lost")
    /\ UNCHANGED <<registered, stored, tab, writer, hasty, events>>

\* Mutant of Effect: it runs after the first render only.
Effect_Once(t) ==
    /\ t \in pending /\ pending' = pending \ {t}
    /\ IF timer[t] = None
       THEN stored' = session[t] /\ timer' = [timer EXCEPT ![t] = 0] /\ writer' = t
       ELSE UNCHANGED <<stored, timer, writer>>
    /\ UNCHANGED <<registered, session, loading, requests, hasty, events>>

\* Mutant of Effect: clearTimeout comes last.
Effect_ClearsLast(t) ==
    /\ t \in pending /\ pending' = pending \ {t}
    /\ stored' = session[t] /\ writer' = t
    /\ timer' = [timer EXCEPT ![t] = IF @ = None THEN 0 ELSE None]
    /\ UNCHANGED <<registered, session, loading, requests, hasty, events>>

\* The effect of App on [session].
Effect(t) ==
    /\ t \in pending /\ pending' = pending \ {t}
    /\ stored' = session[t] /\ writer' = t
    /\ timer' = [timer EXCEPT ![t] = 0]
    /\ UNCHANGED <<registered, session, loading, requests, hasty, events>>

\* The timer of a tab removes what is stored, whichever tab has stored it.
Expire(t) ==
    /\ timer[t] = HOUR
    /\ stored' = None /\ timer' = [timer EXCEPT ![t] = None]
    /\ UNCHANGED <<registered, session, loading, pending, requests, writer, hasty, events>>

Older(age) == IF age = None \/ age = HOUR THEN age ELSE age + 1
Tick ==
    /\ timer' = [t \in Tabs |-> Older(timer[t])]
    /\ UNCHANGED <<registered, stored, session, loading, pending, requests, writer, hasty, events>>

-----------------------------------------------------------------------------
User(t) ==
    \/ Load(t) \/ Close(t) \/ SwitchPage(t)
    \/ \E page \in {0, 1}, user \in Users : Submit(t, page, user)
Browser(t) == Effect(t) \/ Expire(t)

SessionNext ==
    \/ \E t \in Tabs : User(t) \/ Browser(t)
    \/ \E r \in requests : put_account(r) \/ get_account(r) \/ Receive(r) \/ Lose(r)
    \/ Tick \/ Restart

SessionSpec == SessionInit /\ [][SessionNext]_sessionVars
SessionFair ==
    /\ SessionSpec
    /\ WF_sessionVars(Tick)
    /\ \A t \in Tabs : WF_sessionVars(Effect(t)) /\ WF_sessionVars(Expire(t))

-----------------------------------------------------------------------------
\* A tab that is signed in stays so, with the same account, until it is loaded
\* again or closed, if no form was left before its answer came (App.js:39): one
\* submission at a time is all that the button allows (SignIn.js:136).
KeepsAccount ==
    [][\A t \in Tabs \ hasty :
         Open(t) /\ session[t].token # None /\ session'[t] # session[t] =>
            Load(t) \/ Close(t)]_sessionVars

\* What a reload brings back is what the tab that has changed last shows, unless
\* its effect is still to come (App.js:32), even if other tabs have
\* changed, been reloaded or closed meanwhile.
StoreFollows ==
    stored # None /\ Open(writer) /\ writer \notin pending => stored = session[writer]

\* A session does not stay in the store for good: the tab that has stored it
\* removes it in the end, or changes it, or is closed (App.js:35).
Forgotten ==
    \A t \in Tabs : stored # None /\ writer = t ~> stored = None \/ writer # t \/ ~Open(t)

=============================================================================
