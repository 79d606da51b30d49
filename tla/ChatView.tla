------------------------------- MODULE ChatView -------------------------------
(***************************************************************************)
(* The chat page of one user, me: the components FriendList, ChatBox,       *)
(* MessageRight and TextInput (src/src) over the server of ChatServer,      *)
(* which other pages, those of me included, use at the same time.  A click  *)
(* sends a request; the server handles the requests of the page in any      *)
(* order; their answers arrive in any order, or never.                      *)
(*                                                                          *)
(* An async handler goes on, when its answer arrives, with the props of the *)
(* render it was created in: a request records those it uses.  What is      *)
(* typed and picked in the two input fields is left open.                   *)
(***************************************************************************)
EXTENDS ChatServer

CONSTANTS
    me,             \* whose page it is
    None,           \* no chat is selected
    MaxEvents       \* bound: clicks that send a request, requests from other
                    \* pages, and restarts

\* me has a token that outlives a restart: the literal database holds it.
ASSUME ViewAssumption ==
    /\ me \in SeedUsers /\ None \notin Names
    /\ MaxEvents \in Nat /\ FirstId + MaxEvents <= MaxId

VARIABLES
    friend,         \* FriendList: the names listed
    currentTarget,  \* App: the chat selected, or None
    chat,           \* ChatBox: the messages shown
    loading,        \* TextInput: whether the spinner turns
    requests,       \* the requests without an answer, and the answers on their way
    events          \* how many there were

page == <<friend, currentTarget, chat, loading>>
viewVars == <<vars, page, requests, events>>

Fetches == {"get_friends", "get_messages"}
Sends   == {"put_messages", "put_messages_file"}
Updates == Sends \cup {"put_friends", "del_friends", "del_messages"}

\* "sent": not handled yet; "abandoned": nor does anybody wait for the answer.
Pending == {"sent", "abandoned"}

\* no tells requests apart; id and idx are what is unsent, and shown says that
\* the array it was clicked in is still the one shown; messages and names are
\* the payload of an answer.
Request ==
    [no : Nat, op : Fetches \cup Updates, target : Names \cup {None},
     id : Nat, idx : Nat, shown : BOOLEAN,
     status : Statuses \cup Pending, messages : Seq(Message), names : SUBSET Names]

\* Well-typed state.
ViewTypeOK ==
    /\ friend \subseteq Names
    /\ currentTarget \in Names \cup {None}
    /\ chat \in Seq(Message)
    /\ loading \in BOOLEAN
    /\ requests \subseteq Request
    /\ events \in 0 .. MaxEvents

\* A new request, to stand beside those of rs.
Ask(rs, op, target) ==
    [no |-> CHOOSE n \in 1 .. Cardinality(rs) + 1 : \A r \in rs : r.no # n,
     op |-> op, target |-> target, id |-> 0, idx |-> 0, shown |-> FALSE,
     status |-> "sent", messages |-> <<>>, names |-> {}]

With(rs, op, target) == rs \cup {Ask(rs, op, target)}

ViewInit ==
    /\ Init
    /\ friend = {} /\ currentTarget = None /\ chat = <<>> /\ loading = FALSE
    /\ requests = With({}, "get_friends", None)
    /\ events = 0

-----------------------------------------------------------------------------
\* What the user does.

Event == events < MaxEvents /\ events' = events + 1

\* A click, which leaves the server alone.
Click ==
    /\ Event
    /\ UNCHANGED vars

\* The requests, when the array shown is replaced by another.
Detached(rs) == {[r EXCEPT !.shown = FALSE] : r \in rs}

\* A mutant of select: the row passes its number, not the name in it.
select_Index(v) ==
    /\ v \in friend /\ v # currentTarget
    /\ Click
    /\ currentTarget' = 0
    /\ chat' = <<>>
    /\ requests' = With(Detached(requests), "get_messages", v)
    /\ UNCHANGED <<friend, loading>>

\* A row of the friend list; the effect on currentTarget empties the chat.
select(v) ==
    /\ v \in friend /\ v # currentTarget
    /\ Click
    /\ currentTarget' = v
    /\ chat' = <<>>
    /\ requests' = With(Detached(requests), "get_messages", v)
    /\ UNCHANGED <<friend, loading>>

\* The Enter key submits while the spinner turns, too.  With nothing typed or
\* picked, or with a file over 32MB, the handler ends at once.
submit ==
    /\ currentTarget # None
    /\ \/ /\ loading' = FALSE
          /\ UNCHANGED <<vars, requests, events>>
       \/ \E op \in Sends :
             /\ Click
             /\ loading' = TRUE
             /\ requests' = With(requests, op, currentTarget)
    /\ UNCHANGED <<friend, currentTarget, chat>>

\* A mutant of unsend: every bubble can be clicked, as in MessageLeft.
unsend_Anyone(i) ==
    /\ currentTarget # None
    /\ i \in DOMAIN chat
    /\ Click
    /\ requests' = requests \cup
          {[Ask(requests, "del_messages", currentTarget)
            EXCEPT !.id = chat[i].id, !.idx = i, !.shown = TRUE]}
    /\ UNCHANGED page

\* ChatBox shows as a MessageRight, which unsends when clicked, whatever the
\* user whose chat is selected has not sent.
unsend(i) ==
    /\ currentTarget # None
    /\ i \in DOMAIN chat /\ chat[i].from # currentTarget
    /\ Click
    /\ requests' = requests \cup
          {[Ask(requests, "del_messages", currentTarget)
            EXCEPT !.id = chat[i].id, !.idx = i, !.shown = TRUE]}
    /\ UNCHANGED page

befriend(v) ==
    /\ Click
    /\ requests' = With(requests, "put_friends", v)
    /\ UNCHANGED page

unfriend ==
    /\ currentTarget # None
    /\ Click
    /\ requests' = With(requests, "del_friends", currentTarget)
    /\ UNCHANGED page

\* The page starts anew; what it has sent may still reach the server.
Reloaded(rs) ==
    /\ friend' = {} /\ currentTarget' = None /\ chat' = <<>> /\ loading' = FALSE
    /\ requests' = With({[r EXCEPT !.status = "abandoned", !.shown = FALSE] :
                            r \in {q \in rs : q.op \in Updates /\ q.status \in Pending}},
                        "get_friends", None)

reload == Click /\ Reloaded(requests)

-----------------------------------------------------------------------------
\* The server handles a request of the page.

Return(r, answer) ==
    requests' = (requests \ {r}) \cup (IF r.status = "abandoned" THEN {} ELSE {answer})

get_friends(r) ==
    /\ r.op = "get_friends"
    /\ Return(r, [r EXCEPT !.status = "ok", !.names = friend_list[me]])
    /\ UNCHANGED vars

get_messages(r) ==
    /\ r.op = "get_messages"
    /\ \/ /\ r.target \in friend_list[me]
          /\ Return(r, [r EXCEPT !.status = "ok", !.messages = history[me][r.target]])
       \/ friend_list[me] = {} /\ Return(r, [r EXCEPT !.status = "error"])
       \/ MissingKey(me, r.target) /\ Return(r, [r EXCEPT !.status = "exception"])
    /\ UNCHANGED vars

update(r) ==
    /\ \/ r.op = "put_friends" /\ put_friends(me, r.target)
       \/ r.op = "del_friends" /\ del_friends(me, r.target)
       \/ r.op = "put_messages" /\ put_messages(me, r.target)
       \/ r.op = "put_messages_file" /\ put_messages_file(me, r.target)
       \/ r.op = "del_messages" /\ del_messages(me, r.target, r.id)
    /\ Return(r, [r EXCEPT !.status = reply'.status])

process(r) ==
    /\ r.status \in Pending
    /\ get_friends(r) \/ get_messages(r) \/ update(r)
    /\ UNCHANGED <<page, events>>

\* Somebody else's request, or one of another page of me, or a restart.
visit ==
    /\ Event
    /\ Next \/ Restart
    /\ UNCHANGED <<page, requests>>

-----------------------------------------------------------------------------
\* The handler that awaits r goes on.  Its answer is ok, or it is not, or the
\* connection has failed; the rest of the answers are passed in rs.

receive_friends(r, ok, rs) ==
    /\ r.op = "get_friends"
    /\ friend' = IF ok THEN r.names ELSE friend
    /\ requests' = rs
    /\ UNCHANGED <<currentTarget, chat, loading>>

\* A mutant of receive_messages: the answer is added to what is shown.
receive_messages_Append(r, ok, rs) ==
    /\ r.op = "get_messages"
    /\ chat' = IF ok THEN chat \o r.messages ELSE chat
    /\ requests' = IF ok THEN Detached(rs) ELSE rs
    /\ UNCHANGED <<friend, currentTarget, loading>>

\* setChat(payload), whichever chat is selected by now.
receive_messages(r, ok, rs) ==
    /\ r.op = "get_messages"
    /\ chat' = IF ok THEN r.messages ELSE chat
    /\ requests' = IF ok THEN Detached(rs) ELSE rs
    /\ UNCHANGED <<friend, currentTarget, loading>>

\* A mutant of receive_sent: the spinner stops only after a success.
receive_sent_OnlyOk(r, ok, rs) ==
    /\ r.op \in Sends
    /\ loading' = IF ok THEN FALSE ELSE loading
    /\ requests' = IF ok THEN With(rs, "get_messages", r.target) ELSE rs
    /\ UNCHANGED <<friend, currentTarget, chat>>

\* refreshChat is that of the render in which the message was submitted: it
\* fetches the chat that was selected then.
receive_sent(r, ok, rs) ==
    /\ r.op \in Sends
    /\ loading' = FALSE
    /\ requests' = IF ok THEN With(rs, "get_messages", r.target) ELSE rs
    /\ UNCHANGED <<friend, currentTarget, chat>>

\* chat.splice(delIdx, 1), on the array of the render that was clicked.
splice(s, i) == IF i \in DOMAIN s THEN RemoveAt(s, i) ELSE s

receive_unsent(r, ok, rs) ==
    /\ r.op = "del_messages"
    /\ chat' = IF ok /\ r.shown THEN splice(chat, r.idx) ELSE chat
    /\ requests' = rs
    /\ UNCHANGED <<friend, currentTarget, loading>>

receive_befriended(r, ok, rs) ==
    /\ r.op = "put_friends"
    /\ requests' = IF ok THEN With(rs, "get_friends", None) ELSE rs
    /\ UNCHANGED page

receive_unfriended(r, ok, rs) ==
    /\ r.op = "del_friends"
    /\ \/ ok /\ Reloaded(rs)
       \/ ~ ok /\ requests' = rs /\ UNCHANGED page

Continue(r, ok) ==
    /\ LET rs == requests \ {r}
       IN \/ receive_friends(r, ok, rs)
          \/ receive_messages(r, ok, rs)
          \/ receive_sent(r, ok, rs)
          \/ receive_unsent(r, ok, rs)
          \/ receive_befriended(r, ok, rs)
          \/ receive_unfriended(r, ok, rs)
    /\ UNCHANGED <<vars, events>>

deliver(r) == r.status \notin Pending /\ Continue(r, r.status = "ok")

\* The request, or its answer, is lost.
lose(r) ==
    \/ r.status # "abandoned" /\ Continue(r, FALSE)
    \/ /\ r.status = "abandoned"
       /\ requests' = requests \ {r}
       /\ UNCHANGED <<vars, page, events>>

\* The user has no more to do.
Idle == events = MaxEvents /\ requests = {} /\ UNCHANGED viewVars

ViewNext ==
    \/ \E v \in Names : select(v) \/ befriend(v)
    \/ submit \/ unfriend \/ reload
    \/ \E i \in DOMAIN chat : unsend(i)
    \/ \E r \in requests : process(r) \/ deliver(r) \/ lose(r)
    \/ visit
    \/ Idle

ViewSpec == ViewInit /\ [][ViewNext]_viewVars

\* The server answers what reaches it, and the connection delivers or fails.
FairViewSpec ==
    /\ ViewSpec
    /\ WF_viewVars(\E r \in requests : process(r))
    /\ WF_viewVars(\E r \in requests : deliver(r))

-----------------------------------------------------------------------------
\* The chat shown is a piece of one conversation of me, in order, however many
\* answers of however many chats have arrived, and whatever was spliced.
OneConversationShown ==
    \E v \in Names :
        /\ \A m \in ToSet(chat) : Between(m, me, v)
        /\ v # me => Increasing(chat)

\* However late a click, and whichever chat the page shows by then, its requests
\* are among those that ChatServer allows: what holds of ChatServer holds here.
ServerSpec == Spec

\* A click of me never unsends a message of somebody else, even when the page
\* shows the chat of one friend under the name of another and offers the
\* friend's messages for unsending.
OnlyMineUnsent ==
    [][\A r \in requests : r.op = "del_messages" /\ r.status \in Pending /\ update(r) =>
          \A u, v \in Names : \A m \in Held(u, v) : m.from # me => m \in Held(u, v)']_viewVars

\* The spinner of TextInput ends, whether the message arrives or not.
SpinnerEnds == []<>(~ loading)
===============================================================================
