------------------------------ MODULE ChatServer ------------------------------
(***************************************************************************)
(* The chat backend, src/cpp_module/crow/examples/app_fake.py: an in-memory *)
(* database (a list of users with their friend lists, and one list of       *)
(* messages per ordered pair of users) beside a directory tree of           *)
(* attachments under fs_root.  Each HTTP handler is one action: this module *)
(* is what the handlers do when no two of them overlap.  The module         *)
(* ChatServerThreads splits the same handlers at every shared access.       *)
(*                                                                          *)
(* Data that no property tells apart is abstracted: a password and a token  *)
(* are the user they belong to, a message is its header, and its random id  *)
(* and its millisecond timestamp are one number drawn from next_id.         *)
(***************************************************************************)
EXTENDS Integers, SequencesExt

CONSTANTS
    Names,          \* every username that may sign up
    Parts, Path,    \* Path[u]: what os.path.join makes of the username u, the
                    \* parts of its path below fs_root
    SeedUsers,      \* the users app_fake.py starts with
    SeedFriends,    \* their friend lists
    SeedHistory,    \* their messages
    FirstId,        \* the ids below it are those of the seeded messages
    MaxId           \* bound: no message is created once next_id passes it

Kinds == {"Generic", "Attachment"}     \* "Image" and "File" are handled alike

(***************************************************************************)
(* No handler looks into a username, so it may hold the separator: then its *)
(* directory lies inside another one's.  (Bound of the model: names whose   *)
(* path leaves fs_root, those that begin with the separator or have the     *)
(* part "..", and those that end in the part ".", are left out.)            *)
(***************************************************************************)
ASSUME PathAssumption == Path \in [Names -> Seq(Parts) \ {<<>>}]

\* fs_root/u/v.
ChatDir(u, v) == Path[u] \o Path[v]

Message == [id : Nat, from : Names, to : Names, kind : Kinds]

Attachment(m) == m.kind = "Attachment"

\* The "content" of an attachment: the path of its file below fs_root.
FileOf(m) == <<m.from, m.to, m.id>>

Between(m, u, v) == {m.from, m.to} = {u, v}

Increasing(s) == \A i, j \in DOMAIN s : i < j => s[i].id < s[j].id

(***************************************************************************)
(* What the literal fake_database satisfies: friendships are mutual, both   *)
(* parties hold the same messages, all of them texts, oldest first.         *)
(***************************************************************************)
ASSUME SeedUsersAssumption ==
    /\ SeedUsers \subseteq Names
    /\ SeedFriends \in [Names -> SUBSET SeedUsers]
    /\ \A u \in Names, v \in Names :
          v \in SeedFriends[u] => u \in SeedUsers /\ u # v

ASSUME SeedHistoryAssumption ==
    /\ FirstId \in Nat /\ MaxId \in Nat
    /\ SeedHistory \in [Names -> [Names -> Seq(Message)]]
    /\ \A u, v \in Names :
          /\ SeedHistory[u][v] = SeedHistory[v][u]
          /\ v \notin SeedFriends[u] => SeedHistory[u][v] = <<>>
          /\ Increasing(SeedHistory[u][v])
          /\ \A m \in ToSet(SeedHistory[u][v]) : ~ Attachment(m) /\ m.id < FirstId
    /\ \A u, v, a, b \in Names :
          \A m \in ToSet(SeedHistory[u][v]), n \in ToSet(SeedHistory[a][b]) :
             Between(m, u, v) /\ (m.id = n.id => m = n)

-----------------------------------------------------------------------------
VARIABLES
    users,          \* usernames of fake_database["user"]
    friend_list,    \* friend_list[u]: the "friend_list" of u, which is also the
                    \* key set of fake_database["history"][u]
    history,        \* history[u][v]: u's list of messages with v, <<>> without a key
    dirs,           \* the directories on disk, as paths below fs_root
    files,          \* attachments on disk: <<from, to, id>>
    next_id,        \* the id and timestamp of the next message
    boot,           \* what next_id was when this server process started
    reply           \* the last answer: which endpoint, to whom, with what status;
                    \* "none" before the process has answered anything

store == <<users, friend_list, history, dirs, files, next_id, boot>>
vars  == <<store, reply>>

Endpoints == {"none", "put_account", "put_friends", "del_friends",
              "put_messages", "put_messages_file", "del_messages"}
Statuses == {"ok", "dup", "not_found", "error", "exception"}

\* The messages that u holds of the chat with v.
Held(u, v) == ToSet(history[u][v])

\* Well-typed state.
TypeOK ==
    /\ users \subseteq Names
    /\ friend_list \in [Names -> SUBSET Names]
    /\ history \in [Names -> [Names -> Seq(Message)]]
    /\ dirs \subseteq Seq(Parts)
    /\ files \subseteq Names \X Names \X Nat
    /\ next_id \in Nat /\ boot \in Nat
    /\ reply \in [op : Endpoints, by : Names, status : Statuses]

SeedChats == {d \in Names \X Names : d[2] \in SeedFriends[d[1]]}

\* _init_filesystem: fs_root, and below it what os.makedirs makes on the way to
\* each seeded user's directory and to those of the user's chats.
SeedDirs ==
    {<<>>} \cup (UNION {Prefixes(Path[u]) : u \in SeedUsers})
           \cup (UNION {Prefixes(ChatDir(d[1], d[2])) : d \in SeedChats})

Init ==
    /\ users = SeedUsers
    /\ friend_list = SeedFriends
    /\ history = SeedHistory
    /\ dirs = SeedDirs                  \* the disk was empty
    /\ files = {}
    /\ next_id = FirstId /\ boot = FirstId
    /\ reply \in [op : {"none"}, by : Names, status : {"ok"}]

-----------------------------------------------------------------------------
Answer(op, u, status) == reply' = [op |-> op, by |-> u, status |-> status]

\* A handler that returns, or raises, before it has changed anything.
Refuse(op, u, status) == Answer(op, u, status) /\ UNCHANGED store

\* _search_history_from_token and the test of all_history that follows it: an
\* unknown token makes the caller unpack None, and an empty history is falsy.
NoHistory(op, u) ==
    \/ u \notin users /\ Refuse(op, u, "exception")
    \/ u \in users /\ friend_list[u] = {} /\ Refuse(op, u, "error")

\* all_history[target] raises KeyError for a v that is not a key.
MissingKey(u, v) == friend_list[u] # {} /\ v \notin friend_list[u]

put_account(u) ==
    \/ u \in users /\ Refuse("put_account", u, "dup")
    \/ /\ u \notin users
       /\ users' = users \cup {u}
       /\ friend_list' = [friend_list EXCEPT ![u] = {}]
       /\ dirs' = dirs \cup Prefixes(Path[u])
       /\ history' = [history EXCEPT ![u] = [v \in Names |-> <<>>]]
       /\ Answer("put_account", u, "ok")
       /\ UNCHANGED <<files, next_id, boot>>

\* The directory made is fs_root/v, not fs_root/u/v.
put_friends(u, v) ==
    \/ u \notin users /\ Refuse("put_friends", u, "error")
    \/ u \in users /\ v \notin users /\ Refuse("put_friends", u, "not_found")
    \/ v \in friend_list[u] /\ Refuse("put_friends", u, "dup")
    \/ /\ u \in users /\ v \in users /\ v \notin friend_list[u]
       /\ friend_list' = [friend_list EXCEPT ![u] = @ \cup {v}]
       /\ history' = [history EXCEPT ![u][v] = <<>>]
       /\ dirs' = dirs \cup Prefixes(Path[v])
       /\ Answer("put_friends", u, "ok")
       /\ UNCHANGED <<users, files, next_id, boot>>

\* Mutants of rmtree: the files outlive their directory; or the path lacks its
\* last part, and the whole tree goes.
rmtree_FilesStay(u) ==
    /\ dirs' = {p \in dirs : ~ IsPrefix(Path[u], p)}
    /\ UNCHANGED files
rmtree_Root(u) ==
    /\ dirs' = {} /\ files' = {}

\* shutil.rmtree(fs_root/u): everything u ever sent to anyone goes, and so does
\* what any other user keeps in a directory below.
rmtree(u) ==
    /\ dirs' = {p \in dirs : ~ IsPrefix(Path[u], p)}
    /\ files' = {f \in files : ~ IsPrefix(Path[u], ChatDir(f[1], f[2]))}

del_friends(u, v) ==
    \/ u \notin users /\ Refuse("del_friends", u, "error")
    \/ u \in users /\ v \notin friend_list[u] /\ Refuse("del_friends", u, "exception")
    \/ /\ v \in friend_list[u]
       /\ friend_list' = [friend_list EXCEPT ![u] = @ \ {v}]
       /\ history' = [history EXCEPT ![u][v] = <<>>]
       /\ \/ Path[u] \in dirs /\ rmtree(u) /\ Answer("del_friends", u, "ok")
          \/ /\ Path[u] \notin dirs
             /\ Answer("del_friends", u, "error")
             /\ UNCHANGED <<dirs, files>>
       /\ UNCHANGED <<users, next_id, boot>>

\* Mutants of BothAppend: the copy has no type; it goes to the target's list
\* with itself; it goes to the front; there is none.
BothAppend_NoKind(u, v, m) ==
    LET own == [history EXCEPT ![u][v] = Append(@, m)]
        copy == [id |-> m.id, from |-> m.from, to |-> m.to]
    IN IF u \in friend_list[v] THEN [own EXCEPT ![v][u] = Append(@, copy)] ELSE own
BothAppend_WrongKey(u, v, m) ==
    LET own == [history EXCEPT ![u][v] = Append(@, m)]
    IN IF u \in friend_list[v] THEN [own EXCEPT ![v][v] = Append(@, m)] ELSE own
BothAppend_Front(u, v, m) ==
    LET own == [history EXCEPT ![u][v] = Append(@, m)]
    IN IF u \in friend_list[v] THEN [own EXCEPT ![v][u] = <<m>> \o @] ELSE own
BothAppend_SelfOnly(u, v, m) == [history EXCEPT ![u][v] = Append(@, m)]

\* The counterpart gets a copy only if it has u as a key; with u = v the
\* one list gets the message twice.
BothAppend(u, v, m) ==
    LET own == [history EXCEPT ![u][v] = Append(@, m)]
    IN IF u \in friend_list[v] THEN [own EXCEPT ![v][u] = Append(@, m)] ELSE own

\* secrets.token_hex(16) and time.time(): drawn before the target is looked up.
DrawId == next_id <= MaxId /\ next_id' = next_id + 1

put_messages(u, v) ==
    \/ NoHistory("put_messages", u)
    \/ /\ MissingKey(u, v)
       /\ DrawId
       /\ Answer("put_messages", u, "exception")
       /\ UNCHANGED <<users, friend_list, history, dirs, files, boot>>
    \/ /\ v \in friend_list[u]
       /\ DrawId
       /\ history' = BothAppend(u, v, [id |-> next_id, from |-> u, to |-> v,
                                       kind |-> "Generic"])
       /\ Answer("put_messages", u, "ok")
       /\ UNCHANGED <<users, friend_list, dirs, files, boot>>

\* A mutant of put_messages_file: the counterpart is served before the save.
put_messages_file_DeliverFirst(u, v) ==
    /\ v \in friend_list[u]
    /\ DrawId
    /\ LET m == [id |-> next_id, from |-> u, to |-> v, kind |-> "Attachment"]
       IN /\ history' = BothAppend(u, v, m)
          /\ files' = IF ChatDir(u, v) \in dirs THEN files \cup {FileOf(m)} ELSE files
    /\ Answer("put_messages_file", u,
              IF ChatDir(u, v) \in dirs THEN "ok" ELSE "exception")
    /\ UNCHANGED <<users, friend_list, dirs, boot>>

\* The sender's own list is written before the file is saved.
put_messages_file(u, v) ==
    \/ NoHistory("put_messages_file", u)
    \/ /\ MissingKey(u, v)
       /\ DrawId
       /\ Answer("put_messages_file", u, "exception")
       /\ UNCHANGED <<users, friend_list, history, dirs, files, boot>>
    \/ /\ v \in friend_list[u]
       /\ DrawId
       /\ LET m == [id |-> next_id, from |-> u, to |-> v, kind |-> "Attachment"]
          IN \/ /\ ChatDir(u, v) \in dirs
                /\ files' = files \cup {FileOf(m)}
                /\ history' = BothAppend(u, v, m)
                /\ Answer("put_messages_file", u, "ok")
             \/ /\ ChatDir(u, v) \notin dirs
                /\ history' = [history EXCEPT ![u][v] = Append(@, m)]
                /\ Answer("put_messages_file", u, "exception")
                /\ UNCHANGED files
       /\ UNCHANGED <<users, friend_list, dirs, boot>>

\* The first message with this id goes.
Without(s, id) == RemoveFirstMatch(s, LAMBDA m : m.id = id)

\* A mutant of BothRemove: the id is looked up in all lists of the caller.
BothRemove_AnyChat(u, v, id) ==
    LET own == [history EXCEPT ![u] = [w \in Names |-> Without(history[u][w], id)]]
    IN IF u \in friend_list[v] THEN [own EXCEPT ![v][u] = Without(@, id)] ELSE own

BothRemove(u, v, id) ==
    LET own == [history EXCEPT ![u][v] = Without(@, id)]
    IN IF u \in friend_list[v] THEN [own EXCEPT ![v][u] = Without(@, id)] ELSE own

\* Mutants of del_messages: the file stays; the counterpart's copy stays.
del_messages_KeepFile(u, v, id) ==
    /\ v \in friend_list[u]
    /\ history' = BothRemove(u, v, id)
    /\ Answer("del_messages", u, "ok")
    /\ UNCHANGED <<users, friend_list, dirs, files, next_id, boot>>
del_messages_SelfOnly(u, v, id) ==
    /\ v \in friend_list[u]
    /\ files' = files \ {FileOf(m) : m \in {n \in Held(u, v) : n.id = id}}
    /\ history' = [history EXCEPT ![u][v] = Without(@, id)]
    /\ Answer("del_messages", u, "ok")
    /\ UNCHANGED <<users, friend_list, dirs, next_id, boot>>

del_messages(u, v, id) ==
    \/ NoHistory("del_messages", u)
    \/ MissingKey(u, v) /\ Refuse("del_messages", u, "exception")
    \/ /\ v \in friend_list[u]
       /\ LET paths == {FileOf(m) : m \in {n \in Held(u, v) : n.id = id /\ Attachment(n)}}
          IN \/ /\ ~ paths \subseteq files          \* os.remove raises
                /\ Refuse("del_messages", u, "exception")
             \/ /\ paths \subseteq files
                /\ files' = files \ paths
                /\ history' = BothRemove(u, v, id)
                /\ Answer("del_messages", u, "ok")
                /\ UNCHANGED <<users, friend_list, dirs, next_id, boot>>

\* The ids that a click in u's page can unsend in the chat with v: those of the
\* messages whose sender_name is not v.  The page may be stale, or show another
\* chat still, so an id may belong to no message of the chat with v.
MayUnsend(u, v, id) ==
    \A m \in Held(u, v) \cup Held(v, u) : m.id = id => m.from # v

\* The server process starts again, as the debug server does whenever its source
\* changes: the database is the literal one, the disk is what it was, and
\* _init_filesystem makes the seeded directories.
Restart ==
    /\ users' = SeedUsers
    /\ friend_list' = SeedFriends
    /\ history' = SeedHistory
    /\ dirs' = dirs \cup SeedDirs
    /\ boot' = next_id
    /\ reply' = [reply EXCEPT !.op = "none"]
    /\ UNCHANGED <<files, next_id>>

\* A request of u.
Serve(u) ==
    \/ put_account(u)
    \/ \E v \in Names :
          \/ put_friends(u, v)
          \/ del_friends(u, v)
          \/ put_messages(u, v)
          \/ put_messages_file(u, v)
          \/ \E id \in 0 .. MaxId : MayUnsend(u, v, id) /\ del_messages(u, v, id)

Next == \E u \in Names : Serve(u)

Spec == Init /\ [][Next \/ Restart]_vars

-----------------------------------------------------------------------------
\* Two stored copies with one id are copies of one message, and only its two
\* parties store them: no handler files a message under a third user.
OneMessagePerId ==
    \A u, v, a, b \in Names : \A m \in Held(u, v), n \in Held(a, b) :
        /\ Between(m, u, v)
        /\ m.id = n.id => m = n

\* A list is in the order of creation and holds a message once, whatever was
\* unsent, unfriended and befriended again.  (A user who befriends himself gets
\* his texts twice: both appends of put_messages go to one list.)
Chronological ==
    \A u, v \in Names : u # v => Increasing(history[u][v])

\* A text, or an attachment whose file is on disk.
Intact(m) == Attachment(m) => FileOf(m) \in files

\* Once v's side of a conversation holds a message, it holds every later intact
\* message that u's side holds: the two sides may start at different points
\* (each befriends the other when it likes, and forgets by unfriending), and
\* from there on neither has a hole.
NoGaps ==
    \A u, v \in Names : u # v =>
        \A m \in Held(u, v), n \in Held(v, u) :
            n.id < m.id /\ Intact(m) => m \in Held(v, u)

\* Every file saved since the server started is listed by its sender, who can
\* therefore still unsend it: the removals in del_messages and the rmtree in
\* del_friends leave none behind.  (Of the files of an earlier process nobody
\* knows any more.)
NoOrphanFile ==
    \A f \in files : boot <= f[3] =>
        \E m \in Held(f[1], f[2]) : Attachment(m) /\ FileOf(m) = f

\* The step is the answer to a request, not a restart.
Answered == reply'.op # "none"

\* A message that leaves the list of a user who stays a friend has been unsent
\* everywhere: the other side's copy and the file go in the same request.
UnsentEverywhere ==
    \A u, v \in Names : u # v /\ v \in friend_list[u] /\ v \in friend_list'[u] =>
        \A m \in Held(u, v) :
            m \notin Held(u, v)' => m \notin Held(v, u)' /\ FileOf(m) \notin files'
UnsendIsComplete == [][Answered => UnsentEverywhere]_vars

\* A request that is not answered "ok" has changed nothing that anyone but its
\* caller can see: not another user's lists, and not a file on disk.
NothingSeenByOthers ==
    reply'.status # "ok" =>
        /\ \A u \in Names \ {reply'.by} : history'[u] = history[u]
        /\ files' = files
FailureIsPrivate == [][Answered => NothingSeenByOthers]_vars

\* Whatever is requested, the lists of a pair that does not involve the caller
\* stay as they are, and so do the files that they have sent each other, unless
\* their directory lies inside the caller's: fs_root/u/v is also that of a user who
\* signed up as "u/v", and an unfriending by that user takes it away.
OnlyCallersConversations ==
    \A u, v \in Names : reply'.by \notin {u, v} =>
        /\ history'[u][v] = history[u][v]
        /\ \A f \in files : f[1] = u /\ f[2] = v =>
              f \in files' \/ IsPrefix(Path[reply'.by], ChatDir(u, v))
CallersOnly == [][Answered => OnlyCallersConversations]_vars

\* README.md:2, "can send texts, files, and images (with preview feature)": an
\* attachment that its sender and its receiver both list can be fetched by
\* get_messages_file.
SharedAttachmentsFetchable ==
    \A u, v \in Names : u # v => \A m \in Held(u, v) \cap Held(v, u) : Intact(m)
=============================================================================
