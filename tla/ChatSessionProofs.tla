--------------------------- MODULE ChatSessionProofs ---------------------------
(***************************************************************************)
(* Proofs about ChatSession, for any number of tabs, users and events.      *)
(***************************************************************************)
EXTENDS ChatSession, TLAPS

Requests ==
    [n : Nat, tab : Tabs \cup {None}, user : Users, session : Sessions,
     status : {"sent", "ok", "dup", "error", "lost"}]

SessionTypeOK ==
    /\ session \in [Tabs -> Sessions \cup {None}]
    /\ loading \in [Tabs -> Nat \cup {None}]
    /\ stored \in Sessions \cup {None}
    /\ stored # None => writer \in Tabs
    /\ requests \subseteq Requests
    /\ events \in Nat

\* A submission is known by the count of events at which it was made.
Numbered ==
    /\ \A r \in requests : r.n < events
    /\ \A r, q \in requests : r.n = q.n => r = q

\* A submission whose form was not left is the one that its form waits for.
Awaited ==
    \A r \in requests : r.tab # None /\ r.tab \notin hasty =>
        /\ loading[r.tab] = r.n
        /\ Open(r.tab) /\ session[r.tab].token = None

SessionInv == SessionTypeOK /\ Numbered /\ Awaited /\ StoreFollows

\* The invariant holds at the start: there is no request yet.
LEMMA InitInv == SessionInit => SessionInv
<1> SUFFICES ASSUME SessionInit PROVE SessionInv
    OBVIOUS
<1>1. SessionTypeOK
    BY SMT DEF SessionInit, SessionTypeOK
<1>2. Numbered /\ Awaited /\ StoreFollows
    BY DEF SessionInit, Numbered, Awaited, StoreFollows
<1> QED
    BY <1>1, <1>2 DEF SessionInv

-----------------------------------------------------------------------------
(***************************************************************************)
(* What is done to a tab.                                                  *)
(***************************************************************************)

\* The requests of a tab that is loaded or closed lose their tab and nothing else.
LEMMA AbandonedRequests ==
    ASSUME SessionInv, NEW t \in Tabs, NEW q \in
             {[r EXCEPT !.tab = IF @ = t THEN None ELSE @] : r \in requests}
    PROVE  /\ q \in Requests
           /\ q.tab # t
           /\ \E r \in requests : /\ q.n = r.n /\ (q.tab # None => q = r)
                                  /\ q = [r EXCEPT !.tab = IF @ = t THEN None ELSE @]
<1>1. PICK r \in requests : q = [r EXCEPT !.tab = IF @ = t THEN None ELSE @]
    OBVIOUS
<1>2. r \in Requests
    BY DEF SessionInv, SessionTypeOK
<1>3. None # t
    BY SessionAssumption
<1> QED
    BY <1>1, <1>2, <1>3 DEF Requests

\* A tab is opened, reloaded or closed.
LEMMA LoadOrCloseInv ==
    ASSUME SessionInv, NEW t \in Tabs, Load(t) \/ Close(t)
    PROVE  SessionInv'
<1> DEFINE R == {[r EXCEPT !.tab = IF @ = t THEN None ELSE @] : r \in requests}
<1>1. requests' = R /\ loading' = [loading EXCEPT ![t] = None] /\ events' = events + 1
      /\ stored' = stored /\ writer' = writer
    BY DEF Load, Close, Counted
<1>2. \E new \in Sessions \cup {None} : session' = [session EXCEPT ![t] = new]
    <2>1. SignedOut \in Sessions
        BY DEF SignedOut, Sessions
    <2> QED
        BY <2>1 DEF Load, Close, SessionInv, SessionTypeOK
<1>3. \A q \in R : /\ q \in Requests /\ q.tab # t
                   /\ \E r \in requests : /\ q.n = r.n /\ (q.tab # None => q = r)
                                          /\ q = [r EXCEPT !.tab = IF @ = t THEN None ELSE @]
    BY AbandonedRequests
<1> HIDE DEF R
<1>4. SessionTypeOK'
    BY <1>1, <1>2, <1>3 DEF SessionInv, SessionTypeOK
<1>5. Numbered'
    <2>1. \A q \in R : q.n < events + 1
        BY <1>3 DEF SessionInv, SessionTypeOK, Numbered, Requests
    <2>2. \A p, q \in R : p.n = q.n => p = q
        BY <1>3 DEF SessionInv, Numbered
    <2> QED
        BY <1>1, <2>1, <2>2 DEF Numbered
<1>6. Awaited'
    <2> SUFFICES ASSUME NEW q \in R, q.tab # None, q.tab \notin hasty'
                 PROVE  loading'[q.tab] = q.n /\ session'[q.tab] # None
                        /\ session'[q.tab].token = None
        BY <1>1 DEF Awaited, Open
    <2>1. q \in requests /\ q.tab # t /\ q.tab \in Tabs
        BY <1>3 DEF Requests
    <2>2. q.tab \notin hasty
        BY <2>1 DEF Load, Close
    <2>3. loading[q.tab] = q.n /\ session[q.tab] # None /\ session[q.tab].token = None
        BY <2>1, <2>2 DEF SessionInv, Awaited, Open
    <2> QED
        BY <1>1, <1>2, <2>1, <2>3 DEF SessionInv, SessionTypeOK
<1>7. StoreFollows'
    <2>1. ASSUME stored # None, writer # t, session'[writer] # None, writer \notin pending'
          PROVE  stored = session'[writer]
        BY <1>2, <2>1 DEF Load, Close, SessionInv, SessionTypeOK, StoreFollows, Open
    <2>2. ASSUME writer = t, session'[writer] # None, writer \notin pending'
          PROVE  FALSE
        BY <2>2 DEF Load, Close, SessionInv, SessionTypeOK
    <2> QED
        BY <1>1, <2>1, <2>2 DEF StoreFollows, Open
<1> QED
    BY <1>4, <1>5, <1>6, <1>7 DEF SessionInv

\* The link below a form: who waits for an answer is hasty from now on.
LEMMA SwitchPageInv ==
    ASSUME SessionInv, NEW t \in Tabs, SwitchPage(t)
    PROVE  SessionInv'
<1>1. PICK page \in {0, 1} : Shows(t, page) /\ SetSession(t, [session[t] EXCEPT !.page = 1 - page])
    BY DEF SwitchPage
<1> DEFINE new == [session[t] EXCEPT !.page = 1 - page]
<1>2. session[t] \in Sessions /\ session[t].token = None
    BY <1>1 DEF Shows, Open, SessionInv, SessionTypeOK
<1>3. new \in Sessions /\ new.token = None /\ new # None
    <2>1. 1 - page \in {0, 1}
        BY <1>1
    <2>2. new \in Sessions /\ new.token = None
        BY <1>2, <2>1 DEF Sessions
    <2>3. new # None
        BY <2>2, SessionAssumption
    <2> QED
        BY <2>2, <2>3
<1>4. session' = [session EXCEPT ![t] = new] /\ pending' = pending \cup {t}
    BY <1>1 DEF SetSession
<1>5. /\ loading' = [loading EXCEPT ![t] = None] /\ events' = events + 1
      /\ hasty' = IF loading[t] # None THEN hasty \cup {t} ELSE hasty
      /\ UNCHANGED <<stored, requests, writer>>
    BY DEF SwitchPage, Counted
<1> HIDE DEF new
<1>6. SessionTypeOK'
    BY <1>3, <1>4, <1>5 DEF SessionInv, SessionTypeOK
<1>7. Numbered'
    BY <1>5 DEF SessionInv, SessionTypeOK, Numbered, Requests
<1>8. Awaited'
    <2> SUFFICES ASSUME NEW r \in requests, r.tab # None, r.tab \notin hasty'
                 PROVE  loading'[r.tab] = r.n /\ session'[r.tab] # None
                        /\ session'[r.tab].token = None
        BY <1>5 DEF Awaited, Open
    <2>1. r.tab \notin hasty /\ r.tab \in Tabs /\ r.n \in Nat
        BY <1>5 DEF SessionInv, SessionTypeOK, Requests
    <2>2. loading[r.tab] = r.n /\ session[r.tab] # None /\ session[r.tab].token = None
        BY <2>1 DEF SessionInv, Awaited, Open
    <2>3. r.tab # t
        BY <1>5, <2>1, <2>2, SessionAssumption
    <2> QED
        BY <1>4, <1>5, <2>1, <2>2, <2>3 DEF SessionInv, SessionTypeOK
<1>9. StoreFollows'
    BY <1>4, <1>5 DEF SessionInv, SessionTypeOK, StoreFollows, Open
<1> QED
    BY <1>6, <1>7, <1>8, <1>9 DEF SessionInv

\* A form is submitted: it is the only one that waits in its tab.
LEMMA SubmitInv ==
    ASSUME SessionInv, NEW t \in Tabs, NEW page \in {0, 1}, NEW user \in Users,
           Submit(t, page, user)
    PROVE  SessionInv'
<1> DEFINE new == [n |-> events, tab |-> t, user |-> user,
                   session |-> session[t], status |-> "sent"]
<1>1. /\ requests' = requests \cup {new}
      /\ loading' = [loading EXCEPT ![t] = events] /\ events' = events + 1
      /\ loading[t] = None /\ session[t] # None /\ session[t].token = None
      /\ UNCHANGED <<stored, session, pending, writer, hasty>>
    BY DEF Submit, Shows, Open, Clickable, Counted
<1>2. new \in Requests /\ new.n = events /\ new.tab = t
    BY <1>1 DEF SessionInv, SessionTypeOK, Requests
<1> HIDE DEF new
<1>3. SessionTypeOK'
    BY <1>1, <1>2 DEF SessionInv, SessionTypeOK
<1>4. Numbered'
    <2>1. \A r \in requests : r.n \in Nat /\ r.n < events
        BY DEF SessionInv, SessionTypeOK, Numbered, Requests
    <2>2. events \in Nat
        BY DEF SessionInv, SessionTypeOK
    <2>3. \A r \in requests' : r.n < events'
        BY <1>1, <1>2, <2>1, <2>2
    <2>4. \A r, q \in requests' : r.n = q.n => r = q
        BY <1>1, <1>2, <2>1, <2>2 DEF SessionInv, Numbered
    <2> QED
        BY <2>3, <2>4 DEF Numbered
<1>5. Awaited'
    <2> SUFFICES ASSUME NEW r \in requests', r.tab # None, r.tab \notin hasty
                 PROVE  loading'[r.tab] = r.n /\ session[r.tab] # None
                        /\ session[r.tab].token = None
        BY <1>1 DEF Awaited, Open
    <2>1. CASE r = new
        BY <1>1, <1>2, <2>1 DEF SessionInv, SessionTypeOK
    <2>2. CASE r \in requests
        <3>1. r.tab \in Tabs /\ r.n \in Nat
            BY <2>2 DEF SessionInv, SessionTypeOK, Requests
        <3>2. loading[r.tab] = r.n /\ session[r.tab] # None /\ session[r.tab].token = None
            BY <2>2 DEF SessionInv, Awaited, Open
        <3>3. r.tab # t
            BY <1>1, <3>1, <3>2, SessionAssumption
        <3> QED
            BY <1>1, <3>1, <3>2, <3>3 DEF SessionInv, SessionTypeOK
    <2> QED
        BY <1>1, <2>1, <2>2
<1>6. StoreFollows'
    BY <1>1 DEF SessionInv, StoreFollows, Open
<1> QED
    BY <1>3, <1>4, <1>5, <1>6 DEF SessionInv

-----------------------------------------------------------------------------
(***************************************************************************)
(* Answers.                                                                *)
(***************************************************************************)

\* The server answers, or the network fails: a request gets another status.
LEMMA AnswerInv ==
    ASSUME SessionInv, NEW r \in requests,
           NEW status \in {"sent", "ok", "dup", "error", "lost"}, Answer(r, status),
           UNCHANGED <<stored, tab, writer, hasty, events>>
    PROVE  SessionInv'
<1> DEFINE new == [r EXCEPT !.status = status]
<1>1. requests' = (requests \ {r}) \cup {new}
    BY DEF Answer
<1>2. r \in Requests
    BY DEF SessionInv, SessionTypeOK
<1>3. new \in Requests /\ new.n = r.n /\ new.tab = r.tab
    BY <1>2 DEF Requests
<1> HIDE DEF new
<1>4. SessionTypeOK'
    BY <1>1, <1>3 DEF SessionInv, SessionTypeOK, tab
<1>5. Numbered'
    BY <1>1, <1>3 DEF SessionInv, Numbered
<1>6. Awaited'
    BY <1>1, <1>3 DEF SessionInv, Awaited, Open, tab
<1>7. StoreFollows'
    BY DEF SessionInv, StoreFollows, Open, tab
<1> QED
    BY <1>4, <1>5, <1>6, <1>7 DEF SessionInv

\* A form goes on: in a tab that is not hasty it was the only one.
LEMMA ReceiveInv ==
    ASSUME SessionInv, NEW r \in requests, Receive(r)
    PROVE  SessionInv'
<1>1. /\ requests' = requests \ {r}
      /\ UNCHANGED <<stored, writer, hasty, events>>
    BY DEF Receive
<1>2. r \in Requests /\ r.tab \in Tabs
    BY DEF Receive, SessionInv, SessionTypeOK, Requests
<1>3. \/ /\ session' = [session EXCEPT ![r.tab] = AfterSuccess(r)]
         /\ pending' = pending \cup {r.tab}
      \/ UNCHANGED <<session, pending>>
    BY DEF Receive, SetSession
<1>4. loading' = [loading EXCEPT ![r.tab] = None] \/ loading' = loading
    BY DEF Receive
<1>5. AfterSuccess(r) \in Sessions
    BY <1>2 DEF AfterSuccess, Requests, Sessions
<1>6. SessionTypeOK'
    BY <1>1, <1>2, <1>3, <1>4, <1>5 DEF SessionInv, SessionTypeOK
<1>7. Numbered'
    BY <1>1 DEF SessionInv, Numbered
<1>8. Awaited'
    <2> SUFFICES ASSUME NEW q \in requests, q # r, q.tab # None, q.tab \notin hasty
                 PROVE  loading'[q.tab] = q.n /\ session'[q.tab] # None
                        /\ session'[q.tab].token = None
        BY <1>1 DEF Awaited, Open
    <2>1. loading[q.tab] = q.n /\ session[q.tab] # None /\ session[q.tab].token = None
        BY DEF SessionInv, Awaited, Open
    <2>2. q.tab \in Tabs
        BY DEF SessionInv, SessionTypeOK, Requests
    <2>3. q.tab # r.tab
        BY <1>2, <2>1, SessionAssumption DEF SessionInv, Awaited, Numbered
    <2> QED
        BY <1>2, <1>3, <1>4, <2>1, <2>2, <2>3 DEF SessionInv, SessionTypeOK
<1>9. StoreFollows'
    BY <1>1, <1>2, <1>3 DEF SessionInv, SessionTypeOK, StoreFollows, Open
<1> QED
    BY <1>6, <1>7, <1>8, <1>9 DEF SessionInv

-----------------------------------------------------------------------------
(***************************************************************************)
(* The browser.                                                            *)
(***************************************************************************)

\* The effect stores what its tab shows; the timer removes what is stored.
LEMMA BrowserInv ==
    ASSUME SessionInv, NEW t \in Tabs, Browser(t)
    PROVE  SessionInv'
<1>1. UNCHANGED <<session, loading, requests, hasty, events>>
    BY DEF Browser, Effect, Expire
<1>2. SessionTypeOK'
    <2>1. CASE Effect(t)
        BY <1>1, <2>1 DEF SessionInv, SessionTypeOK, Effect
    <2>2. CASE Expire(t)
        BY <1>1, <2>2 DEF SessionInv, SessionTypeOK, Expire
    <2> QED
        BY <2>1, <2>2 DEF Browser
<1>3. Numbered' /\ Awaited'
    BY <1>1 DEF SessionInv, Numbered, Awaited, Open
<1>4. StoreFollows'
    BY <1>1 DEF Browser, Effect, Expire, StoreFollows
<1> QED
    BY <1>2, <1>3, <1>4 DEF SessionInv

\* What leaves the sessions and the submissions alone preserves the invariant.
LEMMA QuietInv ==
    ASSUME SessionInv,
           UNCHANGED <<stored, session, loading, pending, requests, writer, hasty>>,
           events' \in {events, events + 1}
    PROVE  SessionInv'
<1>1. SessionTypeOK'
    BY DEF SessionInv, SessionTypeOK
<1>2. Numbered'
    BY DEF SessionInv, SessionTypeOK, Numbered, Requests
<1>3. Awaited' /\ StoreFollows'
    BY DEF SessionInv, Awaited, StoreFollows, Open
<1> QED
    BY <1>1, <1>2, <1>3 DEF SessionInv

-----------------------------------------------------------------------------
\* Every step preserves the invariant.
LEMMA NextInv == SessionInv /\ [SessionNext]_sessionVars => SessionInv'
<1> SUFFICES ASSUME SessionInv, [SessionNext]_sessionVars PROVE SessionInv'
    OBVIOUS
<1>1. ASSUME NEW t \in Tabs, User(t) PROVE SessionInv'
    <2>1. CASE Load(t) \/ Close(t)
        BY <2>1, LoadOrCloseInv
    <2>2. CASE SwitchPage(t)
        BY <2>2, SwitchPageInv
    <2>3. ASSUME NEW page \in {0, 1}, NEW user \in Users, Submit(t, page, user)
          PROVE  SessionInv'
        BY <2>3, SubmitInv
    <2> QED
        BY <1>1, <2>1, <2>2, <2>3 DEF User
<1>2. ASSUME NEW t \in Tabs, Browser(t) PROVE SessionInv'
    BY <1>2, BrowserInv
<1>3. ASSUME NEW r \in requests, put_account(r) PROVE SessionInv'
    <2>1. \/ Answer(r, "dup")
          \/ Answer(r, "ok")
        BY <1>3 DEF put_account
    <2> QED
        BY <1>3, <2>1, AnswerInv DEF put_account
<1>4. ASSUME NEW r \in requests, get_account(r) PROVE SessionInv'
    BY <1>4, AnswerInv DEF get_account
<1>5. ASSUME NEW r \in requests, Receive(r) PROVE SessionInv'
    BY <1>5, ReceiveInv
<1>6. ASSUME NEW r \in requests, Lose(r) PROVE SessionInv'
    BY <1>6, AnswerInv DEF Lose
<1>7. CASE Tick \/ Restart \/ UNCHANGED sessionVars
    BY <1>7, QuietInv DEF Tick, Restart, Counted, sessionVars, tab
<1> QED
    BY <1>1, <1>2, <1>3, <1>4, <1>5, <1>6, <1>7 DEF SessionNext

\* The invariant always holds.
LEMMA SessionInvariance == SessionSpec => []SessionInv
<1> QED
    BY InitInv, NextInv, PTL DEF SessionSpec

\* For any number of tabs that are opened, reloaded and closed in any order: what is
\* stored is what the tab that has changed last shows (App.js:32).
THEOREM StoredIsShown == SessionSpec => []StoreFollows
<1>1. SessionInv => StoreFollows
    BY DEF SessionInv
<1> QED
    BY <1>1, SessionInvariance, PTL

\* For any number of submissions in any number of tabs: a signed-in tab that has
\* left no form early keeps its account until it is loaded or closed (App.js:39).
THEOREM AccountIsKept == SessionSpec => KeepsAccount
<1> DEFINE Keeps == \A t \in Tabs \ hasty :
                      Open(t) /\ session[t].token # None /\ session'[t] # session[t] =>
                         Load(t) \/ Close(t)
<1>1. SessionInv /\ [SessionNext]_sessionVars => [Keeps]_sessionVars
    <2> SUFFICES ASSUME SessionInv, SessionNext, NEW t \in Tabs, t \notin hasty,
                        session[t].token # None, session'[t] # session[t]
                 PROVE  Load(t) \/ Close(t)
        OBVIOUS
    <2>1. ASSUME NEW r \in requests, Receive(r) PROVE FALSE
        <3>1. r.tab \in Tabs /\ (r.tab = t => session[t].token = None)
            BY <2>1 DEF Receive, SessionInv, SessionTypeOK, Requests, Awaited
        <3>2. r.tab # t
            BY <3>1
        <3>3. session'[t] = session[t]
            BY <2>1, <3>1, <3>2 DEF Receive, SetSession, SessionInv, SessionTypeOK
        <3> QED
            BY <3>3
    <2>2. ASSUME NEW r \in requests, put_account(r) \/ get_account(r) \/ Lose(r) PROVE FALSE
        BY <2>2 DEF put_account, get_account, Lose, tab
    <2>3. ASSUME NEW u \in Tabs, User(u) PROVE Load(t) \/ Close(t)
        <3>1. CASE u # t
            <4>1. session'[t] = session[t]
                BY <2>3, <3>1 DEF User, Load, Close, SwitchPage, SetSession, Submit,
                                  SessionInv, SessionTypeOK
            <4> QED
                BY <4>1
        <3>2. CASE u = t
            BY <2>3, <3>2 DEF User, SwitchPage, Shows, Submit
        <3> QED
            BY <3>1, <3>2
    <2>4. ASSUME NEW u \in Tabs, Browser(u) PROVE FALSE
        BY <2>4 DEF Browser, Effect, Expire
    <2>5. CASE Tick \/ Restart
        BY <2>5 DEF Tick, Restart, tab
    <2> QED
        BY <2>1, <2>2, <2>3, <2>4, <2>5 DEF SessionNext
<1> QED
    BY <1>1, SessionInvariance, PTL DEF SessionSpec, KeepsAccount
=============================================================================
