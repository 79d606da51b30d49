--------------------------- MODULE ChatServerThreads ---------------------------
(***************************************************************************)
(* The handlers of app_fake.py as the threads of the development server run *)
(* them: without a lock, and with a switch possible between any two         *)
(* accesses to the database or to the disk.  A step is one such access,     *)
(* named by the line that makes it.                                         *)
(*                                                                          *)
(* A subscript and the list method called on its result (x[k].append(m))    *)
(* are one step: if x[k] is replaced or popped in between, the method works *)
(* on a list nobody can reach any more, as if it had run before.  A scan    *)
(* of a list that only grows is one step for the same reason: it sees what  *)
(* is appended behind it.  shutil.rmtree and os.makedirs are one step each. *)
(***************************************************************************)
EXTENDS Integers, FiniteSets, SequencesExt

CONSTANTS
    Names,          \* usernames
    Parts, Path,    \* the parts of their paths below fs_root, as in ChatServer
    Workers,        \* request threads
    Requests,       \* the requests that clients make: see Request
    SeedAccounts,   \* fake_database["user"]: a sequence of accounts
    SeedLists,      \* SeedLists[u]: the dictionary fake_database["history"][u]
    FirstId,        \* the first id that is not a seeded message's
    MaxStarted      \* bound: how many requests are served

Kinds == {"Generic", "Attachment"}

Message == [id : Nat, from : Names, to : Names, kind : Kinds]

Account == [username : Names, friend_list : Seq(Names)]

Endpoints == {"put_account", "put_friends", "del_friends",
              "put_messages", "put_messages_file", "del_messages"}

\* A token is the index of its account in fake_database["user"], 0 for the
\* request that has none; id is that of the message to unsend, 0 without one.
Request == [op : Endpoints, token : Nat, target : Names, id : Nat]

Attachment(m) == m.kind = "Attachment"
FileOf(m) == <<m.from, m.to, m.id>>

ASSUME PathAssumption == Path \in [Names -> Seq(Parts) \ {<<>>}]

ChatDir(u, v) == Path[u] \o Path[v]

ASSUME RequestsAssumption == Requests \subseteq Request

ASSUME SeedAssumption ==
    /\ SeedAccounts \in Seq(Account) \ {<<>>}
    /\ DOMAIN SeedLists = {a.username : a \in ToSet(SeedAccounts)}
    /\ \A a \in ToSet(SeedAccounts) :
          SeedLists[a.username] \in [ToSet(a.friend_list) -> Seq(Message)]

\* The messages in the source: each has an id of its own below FirstId, and is at most
\* once in a list of its two parties.
ASSUME SeedMessagesAssumption ==
    /\ FirstId \in Nat
    /\ \A u, a \in DOMAIN SeedLists :
          \A v \in DOMAIN SeedLists[u], b \in DOMAIN SeedLists[a] :
             /\ IsInjective(SeedLists[u][v])
             /\ \A m \in ToSet(SeedLists[u][v]), n \in ToSet(SeedLists[a][b]) :
                   /\ {m.from, m.to} = {u, v} /\ m.id < FirstId
                   /\ m.id = n.id => m = n

-----------------------------------------------------------------------------
VARIABLES
    accounts,       \* fake_database["user"]
    dicts,          \* every inner dictionary there has ever been
    current,        \* fake_database["history"]: username -> index of its dictionary
    dirs, files,    \* as in ChatServer
    next_id,
    job,            \* what each thread is doing: its request, its local variables
    started,        \* how many requests have been taken up
    reply           \* the last answer

db   == <<accounts, dicts, current>>
disk == <<dirs, files>>
vars == <<db, disk, next_id, job, started, reply>>

Sends == {"put_messages", "put_messages_file"}

Idle == [pc |-> "idle"]

\* user is the caller's name, or the one to sign up.  side, dict and key tell
\* which list is at hand: all_history[target] ("self") or
\* target_person_history[username] ("opposite"), with dict 0 for None.  i and n
\* are the position in the loop over it and the range of that loop; keys is the
\* size of fake_database["history"] when the search for the target began.
Job == {Idle} \cup
       [pc : {"scan", "add", "mkdir", "sub", "newdict",
              "check", "befriend", "newlist", "mkdir_friend",
              "forget", "drop", "rmtree",
              "lookup", "append", "save", "imwrite", "iterate", "find", "known",
              "len", "match", "type", "unlink", "pop"},
        op : Endpoints, token : Nat, user : Names, target : Names, id : Nat,
        side : {"self", "opposite"}, dict : Nat, key : Names, i : Nat, n : Nat, keys : Nat]

Statuses == {"ok", "dup", "not_found", "error", "exception"}

\* Well-typed state.
TypeOK ==
    /\ accounts \in Seq(Account)
    /\ \A d \in ToSet(dicts) :
          DOMAIN d \subseteq Names /\ \A v \in DOMAIN d : d[v] \in Seq(Message)
    /\ DOMAIN current \subseteq Names
    /\ \A u \in DOMAIN current : current[u] \in DOMAIN dicts
    /\ dirs \subseteq Seq(Parts)
    /\ files \subseteq Names \X Names \X Nat
    /\ next_id \in Nat /\ started \in 0 .. MaxStarted
    /\ \A w \in Workers : job[w] \in Job
    /\ reply.op \in Endpoints /\ reply.by \in Names /\ reply.status \in Statuses

Username(i) == accounts[i].username
Usernames == {a.username : a \in ToSet(accounts)}

HasList(u, v) == u \in DOMAIN current /\ v \in DOMAIN dicts[current[u]]
ListOf(u, v) == IF HasList(u, v) THEN dicts[current[u]][v] ELSE <<>>
Held(u, v) == ToSet(ListOf(u, v))

SeedChats ==
    {d \in Names \X Names : d[1] \in DOMAIN SeedLists /\ d[2] \in DOMAIN SeedLists[d[1]]}

SeedDirs ==
    {<<>>} \cup (UNION {Prefixes(Path[u]) : u \in DOMAIN SeedLists})
           \cup (UNION {Prefixes(ChatDir(d[1], d[2])) : d \in SeedChats})

Init ==
    /\ accounts = SeedAccounts
    /\ dicts = [i \in DOMAIN SeedAccounts |-> SeedLists[SeedAccounts[i].username]]
    /\ current = [u \in DOMAIN SeedLists |->
                     CHOOSE i \in DOMAIN SeedAccounts : SeedAccounts[i].username = u]
    /\ dirs = SeedDirs
    /\ files = {}
    /\ next_id = FirstId
    /\ job = [w \in Workers |-> Idle]
    /\ started = 0
    /\ reply \in [op : {"put_account"}, by : {SeedAccounts[1].username}, status : {"ok"}]

-----------------------------------------------------------------------------
\* d[k] = v
SetItem(d, k, v) == [x \in {k} \cup DOMAIN d |-> IF x = k THEN v ELSE d[x]]

At(w, pc) == job[w].pc = pc

Goto(w, pc) == job' = [job EXCEPT ![w].pc = pc] /\ UNCHANGED reply

Answer(w, status) ==
    /\ job' = [job EXCEPT ![w] = Idle]
    /\ reply' = [op |-> job[w].op, by |-> job[w].user, status |-> status]

\* A click on a message of the chat that shows another name than the chat's
\* unsends it; the page may be stale, or show another chat still.  A message that
\* no list has had yet is on no page.
MayUnsend(r) ==
    LET u == Username(r.token)
    IN /\ r.id < next_id
       /\ \A w \in Workers : At(w, "append") /\ job[w].side = "self" => job[w].id # r.id
       /\ \A m \in Held(u, r.target) \cup Held(r.target, u) : m.id = r.id => m.from # r.target

Entry(op) == CASE op = "put_account" -> "scan"
               [] op = "put_friends" -> "check"
               [] op = "del_friends" -> "forget"
               [] OTHER -> "lookup"

\* A thread takes up a request.  The token is known: accounts are never deleted.
Start(w, r) ==
    /\ At(w, "idle")
    /\ started < MaxStarted
    /\ r.op # "put_account" => r.token \in DOMAIN accounts
    /\ r.op = "del_messages" => MayUnsend(r)
    /\ LET user == IF r.op = "put_account" THEN r.target ELSE Username(r.token)
       IN job' = [job EXCEPT ![w] =
              [pc |-> Entry(r.op), op |-> r.op, token |-> r.token, user |-> user,
               target |-> r.target, id |-> r.id, side |-> "self", dict |-> 0,
               key |-> r.target, i |-> 0, n |-> 0, keys |-> 0]]
    /\ started' = started + 1
    /\ UNCHANGED <<db, disk, next_id, reply>>

-----------------------------------------------------------------------------
(* put_account                                                              *)

scan(w) ==
    /\ At(w, "scan")
    /\ \/ job[w].user \in Usernames /\ Answer(w, "dup")
       \/ job[w].user \notin Usernames /\ Goto(w, "add")
    /\ UNCHANGED <<db, disk, next_id, started>>

add(w) ==
    /\ At(w, "add")
    /\ accounts' = Append(accounts, [username |-> job[w].user, friend_list |-> <<>>])
    /\ Goto(w, "mkdir")
    /\ UNCHANGED <<dicts, current, disk, next_id, started>>

\* The last account need not be the one just added.
mkdir(w) ==
    /\ At(w, "mkdir")
    /\ dirs' = dirs \cup Prefixes(Path[Last(accounts).username])
    /\ Goto(w, "sub")
    /\ UNCHANGED <<db, files, next_id, started>>

\* os.path.join is handed a dictionary if that account has a friend already.
sub(w) ==
    /\ At(w, "sub")
    /\ \/ Last(accounts).friend_list = <<>> /\ Goto(w, "newdict")
       \/ Last(accounts).friend_list # <<>> /\ Answer(w, "exception")
    /\ UNCHANGED <<db, disk, next_id, started>>

\* A mutant of newdict: the table is replaced instead of extended.
newdict_Fresh(w) ==
    /\ At(w, "newdict")
    /\ dicts' = Append(dicts, <<>>)
    /\ current' = (job[w].user :> Len(dicts'))
    /\ Answer(w, "ok")
    /\ UNCHANGED <<accounts, disk, next_id, started>>

newdict(w) ==
    /\ At(w, "newdict")
    /\ dicts' = Append(dicts, <<>>)
    /\ current' = SetItem(current, job[w].user, Len(dicts'))
    /\ Answer(w, "ok")
    /\ UNCHANGED <<accounts, disk, next_id, started>>

-----------------------------------------------------------------------------
(* put_friends and del_friends                                              *)

Friends(w) == accounts[job[w].token].friend_list

check(w) ==
    /\ At(w, "check")
    /\ \/ job[w].target \notin Usernames /\ Answer(w, "not_found")
       \/ job[w].target \in ToSet(Friends(w)) /\ Answer(w, "dup")
       \/ /\ job[w].target \in Usernames \ ToSet(Friends(w))
          /\ Goto(w, "befriend")
    /\ UNCHANGED <<db, disk, next_id, started>>

befriend(w) ==
    /\ At(w, "befriend")
    /\ accounts' = [accounts EXCEPT ![job[w].token].friend_list = Append(@, job[w].target)]
    /\ Goto(w, "newlist")
    /\ UNCHANGED <<dicts, current, disk, next_id, started>>

newlist(w) ==
    /\ At(w, "newlist")
    /\ \/ /\ job[w].user \in DOMAIN current
          /\ dicts' = [dicts EXCEPT ![current[job[w].user]] = SetItem(@, job[w].target, <<>>)]
          /\ Goto(w, "mkdir_friend")
       \/ job[w].user \notin DOMAIN current /\ Answer(w, "exception") /\ UNCHANGED dicts
    /\ UNCHANGED <<accounts, current, disk, next_id, started>>

\* The last friend need not be the one just added.
mkdir_friend(w) ==
    /\ At(w, "mkdir_friend")
    /\ \/ /\ Friends(w) # <<>>
          /\ dirs' = dirs \cup Prefixes(Path[Last(Friends(w))])
          /\ Answer(w, "ok")
       \/ Friends(w) = <<>> /\ Answer(w, "exception") /\ UNCHANGED dirs
    /\ UNCHANGED <<db, files, next_id, started>>

forget(w) ==
    /\ At(w, "forget")
    /\ \/ /\ job[w].target \in ToSet(Friends(w))
          /\ accounts' = [accounts EXCEPT ![job[w].token].friend_list =
                                              RemoveFirst(@, job[w].target)]
          /\ Goto(w, "drop")
       \/ /\ job[w].target \notin ToSet(Friends(w))
          /\ Answer(w, "exception")
          /\ UNCHANGED accounts
    /\ UNCHANGED <<dicts, current, disk, next_id, started>>

\* A mutant of drop: the key stays.
drop_KeepKey(w) ==
    /\ At(w, "drop")
    /\ IF HasList(job[w].user, job[w].target) THEN Goto(w, "rmtree") ELSE Answer(w, "exception")
    /\ UNCHANGED <<db, disk, next_id, started>>

drop(w) ==
    /\ At(w, "drop")
    /\ \/ /\ HasList(job[w].user, job[w].target)
          /\ dicts' = [dicts EXCEPT ![current[job[w].user]] =
                          Restrict(@, DOMAIN @ \ {job[w].target})]
          /\ Goto(w, "rmtree")
       \/ /\ ~ HasList(job[w].user, job[w].target)
          /\ Answer(w, "exception")
          /\ UNCHANGED dicts
    /\ UNCHANGED <<accounts, current, disk, next_id, started>>

rmtree(w) ==
    LET u == job[w].user
    IN /\ At(w, "rmtree")
       /\ \/ /\ Path[u] \in dirs
             /\ dirs' = {p \in dirs : ~ IsPrefix(Path[u], p)}
             /\ files' = {f \in files : ~ IsPrefix(Path[u], ChatDir(f[1], f[2]))}
             /\ Answer(w, "ok")
          \/ Path[u] \notin dirs /\ Answer(w, "error") /\ UNCHANGED disk
       /\ UNCHANGED <<db, next_id, started>>

-----------------------------------------------------------------------------
(* put_messages, put_messages_file and del_messages                         *)

\* The list at hand, and whether subscripting it works.
Listed(w) == job[w].key \in DOMAIN dicts[job[w].dict]
AtHand(w) == dicts[job[w].dict][job[w].key]
InRange(w) == Listed(w) /\ job[w].i <= Len(AtHand(w))

NewMessage(w) ==
    [id |-> job[w].id, from |-> job[w].user, to |-> job[w].target,
     kind |-> IF job[w].op = "put_messages" THEN "Generic" ELSE "Attachment"]

\* A mutant of lookup: the id is that of the last message drawn before.
lookup_ReusedId(w) ==
    /\ At(w, "lookup")
    /\ job[w].user \in DOMAIN current
    /\ job' = [job EXCEPT ![w].pc = IF job[w].op \in Sends THEN "append" ELSE "len",
                          ![w].id = IF job[w].op \in Sends THEN next_id ELSE @,
                          ![w].dict = current[job[w].user]]
    /\ UNCHANGED <<db, disk, next_id, started, reply>>

\* The id and timestamp of a message are drawn before its list is touched.
lookup(w) ==
    /\ At(w, "lookup")
    /\ \/ /\ job[w].user \notin DOMAIN current
          /\ Answer(w, "exception")
          /\ UNCHANGED next_id
       \/ /\ job[w].user \in DOMAIN current
          /\ DOMAIN dicts[current[job[w].user]] = {}
          /\ Answer(w, "error")
          /\ UNCHANGED next_id
       \/ /\ job[w].user \in DOMAIN current
          /\ DOMAIN dicts[current[job[w].user]] # {}
          /\ IF job[w].op \in Sends
             THEN /\ job' = [job EXCEPT ![w].pc = "append", ![w].id = next_id,
                                        ![w].dict = current[job[w].user]]
                  /\ next_id' = next_id + 1
             ELSE /\ job' = [job EXCEPT ![w].pc = "len",
                                        ![w].dict = current[job[w].user]]
                  /\ UNCHANGED next_id
          /\ UNCHANGED reply
    /\ UNCHANGED <<db, disk, started>>

\* A mutant of append: a text is answered before the counterpart is served.
append_SelfOnly(w) ==
    /\ At(w, "append") /\ Listed(w)
    /\ dicts' = [dicts EXCEPT ![job[w].dict][job[w].key] = Append(@, NewMessage(w))]
    /\ Answer(w, "ok")
    /\ UNCHANGED <<accounts, current, disk, next_id, started>>

append(w) ==
    /\ At(w, "append") /\ Listed(w)
    /\ dicts' = [dicts EXCEPT ![job[w].dict][job[w].key] = Append(@, NewMessage(w))]
    /\ IF job[w].side = "opposite" THEN Answer(w, "ok")
       ELSE Goto(w, IF job[w].op = "put_messages" THEN "iterate" ELSE "save")
    /\ UNCHANGED <<accounts, current, disk, next_id, started>>

\* A mutant of save: the missing directory is passed over.
save_Silent(w) ==
    /\ At(w, "save")
    /\ files' = files \cup {f \in {FileOf(NewMessage(w))} : ChatDir(f[1], f[2]) \in dirs}
    /\ Goto(w, "iterate")
    /\ UNCHANGED <<db, dirs, next_id, started>>

\* An image that OpenCV can read is written a second time.
save(w) ==
    /\ At(w, "save")
    /\ \/ /\ ChatDir(job[w].user, job[w].target) \in dirs
          /\ files' = files \cup {FileOf(NewMessage(w))}
          /\ \E pc \in {"imwrite", "iterate"} : Goto(w, pc)
       \/ /\ ChatDir(job[w].user, job[w].target) \notin dirs
          /\ Answer(w, "exception")
          /\ UNCHANGED files
    /\ UNCHANGED <<db, dirs, next_id, started>>

imwrite(w) ==
    /\ At(w, "imwrite")
    /\ files' = files \cup {f \in {FileOf(NewMessage(w))} : ChatDir(f[1], f[2]) \in dirs}
    /\ Goto(w, "iterate")
    /\ UNCHANGED <<db, dirs, next_id, started>>

\* _search_history_from_target: a dictionary must not grow under its iterator.
iterate(w) ==
    /\ At(w, "iterate")
    /\ job' = [job EXCEPT ![w].pc = "find", ![w].keys = Cardinality(DOMAIN current)]
    /\ UNCHANGED <<db, disk, next_id, started, reply>>

\* A mutant of find: it is the caller's own list again.
find_OwnList(w) ==
    /\ At(w, "find")
    /\ job' = [job EXCEPT ![w].pc = "known", ![w].side = "opposite"]
    /\ UNCHANGED <<db, disk, next_id, started, reply>>

find(w) ==
    /\ At(w, "find")
    /\ \/ job[w].keys # Cardinality(DOMAIN current) /\ Answer(w, "exception")
       \/ /\ job[w].keys = Cardinality(DOMAIN current)
          /\ job' = [job EXCEPT ![w].pc = "known", ![w].side = "opposite",
                                ![w].key = job[w].user,
                                ![w].dict = IF job[w].target \in DOMAIN current
                                            THEN current[job[w].target] ELSE 0]
          /\ UNCHANGED reply
    /\ UNCHANGED <<db, disk, next_id, started>>

\* "username in None" raises; a counterpart that has not added username yet, or
\* no longer, is left alone.
known(w) ==
    /\ At(w, "known")
    /\ \/ job[w].dict = 0 /\ Answer(w, "exception")
       \/ job[w].dict # 0 /\ ~ Listed(w) /\ Answer(w, "ok")
       \/ /\ job[w].dict # 0 /\ Listed(w)
          /\ Goto(w, IF job[w].op \in Sends THEN "append" ELSE "len")
    /\ UNCHANGED <<db, disk, next_id, started>>

len(w) ==
    /\ At(w, "len") /\ Listed(w)
    /\ job' = [job EXCEPT ![w].pc = "match", ![w].i = 1, ![w].n = Len(AtHand(w))]
    /\ UNCHANGED <<db, disk, next_id, started, reply>>

\* What follows the loop over the caller's list, and that over the other's.
Leave(w) == IF job[w].side = "self" THEN Goto(w, "iterate") ELSE Answer(w, "ok")

\* A mutant of match: the position is not advanced.
match_Stuck(w) ==
    /\ At(w, "match") /\ InRange(w)
    /\ IF AtHand(w)[job[w].i].id = job[w].id
       THEN Goto(w, IF job[w].side = "self" THEN "type" ELSE "pop")
       ELSE UNCHANGED <<job, reply>>
    /\ UNCHANGED <<db, disk, next_id, started>>

match(w) ==
    /\ At(w, "match")
    /\ \/ job[w].i > job[w].n /\ Leave(w)
       \/ /\ job[w].i <= job[w].n /\ InRange(w)
          /\ AtHand(w)[job[w].i].id # job[w].id
          /\ job' = [job EXCEPT ![w].i = @ + 1]
          /\ UNCHANGED reply
       \/ /\ job[w].i <= job[w].n /\ InRange(w)
          /\ AtHand(w)[job[w].i].id = job[w].id
          /\ Goto(w, IF job[w].side = "self" THEN "type" ELSE "pop")
    /\ UNCHANGED <<db, disk, next_id, started>>

\* From here on the message at position i may be another one.
type(w) ==
    /\ At(w, "type") /\ InRange(w)
    /\ Goto(w, IF Attachment(AtHand(w)[job[w].i]) THEN "unlink" ELSE "pop")
    /\ UNCHANGED <<db, disk, next_id, started>>

unlink(w) ==
    /\ At(w, "unlink") /\ InRange(w)
    /\ LET m == AtHand(w)[job[w].i]
       IN \/ /\ Attachment(m) /\ FileOf(m) \in files
             /\ files' = files \ {FileOf(m)}
             /\ Goto(w, "pop")
          \/ /\ ~ (Attachment(m) /\ FileOf(m) \in files)
             /\ Answer(w, "exception")
             /\ UNCHANGED files
    /\ UNCHANGED <<db, dirs, next_id, started>>

pop(w) ==
    /\ At(w, "pop") /\ InRange(w)
    /\ dicts' = [dicts EXCEPT ![job[w].dict][job[w].key] = RemoveAt(@, job[w].i)]
    /\ Leave(w)
    /\ UNCHANGED <<accounts, current, disk, next_id, started>>

\* KeyError or IndexError.
raise(w) ==
    /\ \/ job[w].pc \in {"append", "len"} /\ ~ Listed(w)
       \/ At(w, "match") /\ job[w].i <= job[w].n /\ ~ InRange(w)
       \/ job[w].pc \in {"type", "unlink", "pop"} /\ ~ InRange(w)
    /\ Answer(w, "exception")
    /\ UNCHANGED <<db, disk, next_id, started>>

-----------------------------------------------------------------------------
\* The next access of the handler that w runs.
Step(w) ==
    \/ scan(w) \/ add(w) \/ mkdir(w) \/ sub(w) \/ newdict(w)
    \/ check(w) \/ befriend(w) \/ newlist(w) \/ mkdir_friend(w)
    \/ forget(w) \/ drop(w) \/ rmtree(w)
    \/ lookup(w) \/ append(w) \/ save(w) \/ imwrite(w) \/ iterate(w) \/ find(w) \/ known(w)
    \/ len(w) \/ match(w) \/ type(w) \/ unlink(w) \/ pop(w) \/ raise(w)

\* Nothing runs and no request is left.
Done == started = MaxStarted /\ (\A w \in Workers : At(w, "idle")) /\ UNCHANGED vars

Next ==
    \/ \E w \in Workers : Step(w) \/ \E r \in Requests : Start(w, r)
    \/ Done

Spec == Init /\ [][Next]_vars

\* A thread that has taken up a request keeps being scheduled.
FairSpec == Spec /\ \A w \in Workers : WF_vars(Step(w))

-----------------------------------------------------------------------------
AtRest == \A w \in Workers : At(w, "idle")

\* Two stored copies with one id are copies of one message, and only its two
\* parties store them, whatever the interleaving.
OneMessagePerId ==
    \A u, v, a, b \in Names : \A m \in Held(u, v), n \in Held(a, b) :
        /\ {m.from, m.to} = {u, v}
        /\ m.id = n.id => m = n

\* No list holds a message twice, even when requests overlap.  (A chat with
\* oneself is one list, which gets every text twice.)
NoDuplicates == \A u, v \in Names : u # v => IsInjective(ListOf(u, v))

\* A list changes only while a request of one of its two parties runs: no
\* interleaving makes a thread work on somebody else's conversation.
OnlyPartiesTouch ==
    \A u, v \in Names : ListOf(u, v)' # ListOf(u, v) =>
        \E w \in Workers : job[w].pc # "idle" /\ job[w].user \in {u, v}
PartiesOnly == [][OnlyPartiesTouch]_vars

\* When friends only send, both ends of every conversation have everything once
\* all requests are answered; only the order of the two lists may differ.
AllDelivered ==
    AtRest => \A id \in FirstId .. next_id - 1 : \E u, v \in Names :
        \E m \in Held(u, v) \cap Held(v, u) : m.id = id /\ (Attachment(m) => FileOf(m) \in files)

\* No interleaving leaves a thread stuck: every request is answered.
RequestsEnd == \A w \in Workers : []<>At(w, "idle")

\* No name is that of two accounts.  It holds for requests that come one by one, as in
\* ChatServerSerial; two sign-ups of one name that overlap are both accepted.
UniqueUsernames ==
    \A i, j \in DOMAIN accounts : Username(i) = Username(j) => i = j

\* Message.js:232, "Successfully unsend", and the splice of one message above it:
\* what a request to unsend takes from a list is the message it names.
UnsentOnlyTheNamed ==
    \A u, v \in Names : HasList(u, v) /\ HasList(u, v)' /\ (\A w \in Workers : ~ At(w, "newlist")) =>
        \A m \in Held(u, v) : m \notin Held(u, v)' =>
            \E w \in Workers : At(w, "pop") /\ job[w].id = m.id
UnsendTakesTheNamed == [][UnsentOnlyTheNamed]_vars
=============================================================================
