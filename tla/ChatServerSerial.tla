---------------------------- MODULE ChatServerSerial ----------------------------
(***************************************************************************)
(* With a single thread, the accesses of ChatServerThreads add up to the    *)
(* handlers of ChatServer: every request has one of the outcomes that       *)
(* ChatServer gives it, the half-done ones that end in an exception         *)
(* included.  A handler takes effect, for this purpose, when it answers;    *)
(* committed is the state of the server after the last answer.              *)
(***************************************************************************)
EXTENDS ChatServerThreads

CONSTANT MaxId      \* bound of ChatServer: at least as many ids as are drawn

ASSUME SerialAssumption ==
    /\ IsFiniteSet(Workers) /\ Cardinality(Workers) = 1
    /\ MaxStarted \in Nat /\ MaxId \in Nat /\ MaxId >= FirstId + MaxStarted

\* The literal fake_database: no username twice, and friend lists that name its users,
\* each once.
ASSUME SeedFriendsAssumption ==
    /\ \A i, j \in DOMAIN SeedAccounts : SeedAccounts[i].username = SeedAccounts[j].username => i = j
    /\ \A a \in ToSet(SeedAccounts) :
          IsInjective(a.friend_list) /\ ToSet(a.friend_list) \subseteq DOMAIN SeedLists

VARIABLE committed

\* The friend list of a user, as a set; of the accounts that share a name, if
\* any do, the first one's.
FriendsOf(u) ==
    LET mine == {i \in DOMAIN accounts : Username(i) = u}
    IN IF mine = {} THEN {} ELSE ToSet(accounts[Min(mine)].friend_list)

\* The tables as ChatServer sees them.
Tables ==
    [users |-> Usernames,
     friend_list |-> [u \in Names |-> FriendsOf(u)],
     history |-> [u \in Names |-> [v \in Names |-> ListOf(u, v)]],
     dirs |-> dirs, files |-> files,
     next_id |-> next_id, reply |-> reply]

SerialInit ==
    /\ Init
    /\ committed = [Tables EXCEPT !.reply.op = "none"]

SerialNext ==
    /\ Next
    /\ committed' = IF AtRest' /\ ~ AtRest THEN Tables' ELSE committed

SerialSpec == SerialInit /\ [][SerialNext]_<<vars, committed>>

Server ==
    INSTANCE ChatServer WITH
        SeedUsers <- DOMAIN SeedLists,
        SeedFriends <- [u \in Names |-> IF u \in DOMAIN SeedLists THEN DOMAIN SeedLists[u] ELSE {}],
        SeedHistory <- [u \in Names |-> [v \in Names |->
                           IF u \in DOMAIN SeedLists /\ v \in DOMAIN SeedLists[u]
                           THEN SeedLists[u][v] ELSE <<>>]],
        users <- committed.users, friend_list <- committed.friend_list,
        history <- committed.history, dirs <- committed.dirs, files <- committed.files,
        next_id <- committed.next_id, boot <- FirstId, reply <- committed.reply

\* Every request, run alone, is a step of ChatServer (and none is a restart).
ServerRequests == Server!Init /\ [][Server!Next]_(Server!vars)

\* Between two requests the tables agree: usernames are distinct, every account
\* has its dictionary, whose keys are its friends, each listed once.  No handler
\* checks this, and all of them rely on it.
TablesAgree ==
    AtRest =>
        /\ UniqueUsernames
        /\ DOMAIN current = Usernames
        /\ \A a \in ToSet(accounts) :
              /\ IsInjective(a.friend_list)
              /\ ToSet(a.friend_list) = DOMAIN dicts[current[a.username]]
=============================================================================
