# Web chat room: TLA+ specifications and proofs

The repository is a web chat room: a React page in the browser, a Python (Flask)
backend that keeps accounts, friends, messages and attachments, an older pair
of C++ programs, a socket server and a socket client, that move files, and Crow, a C++ web
framework kept in the tree with two chat examples of its own. This
directory models their behaviour in TLA+, checks the models with TLC on small
instances and proves the main results with TLAPS for every instance.

File names below are relative to the repository. `app_fake.py` is
`cpp_module/crow/examples/app_fake.py`, the backend that actually runs: the socket
server replaces itself by it (`server.cpp`, `init_server`), and the page talks to
its port. Headers are those of `cpp_module/crow/include/crow`.

## 1. Inventory

### Components

| component | source | state it keeps | operations | status |
|---|---|---|---|---|
| chat server | `app_fake.py` | `fake_database["user"]` (accounts with friend lists), `fake_database["history"]` (for each ordered pair of users a list of messages), the directory tree `fs_root/<user>/<friend>/<file>` | `put_account`, `put_friends`, `del_friends`, `put_messages`, `put_messages_file`, `del_messages`; read-only: `hello`, `get_account`, `get_friends`, `get_messages`, `get_messages_file`; `_init_filesystem` at start | modelled |
| the server's threads | `app_fake.py:399` (`app.run(..., debug=True)`: one thread per request, reloader) | the local variables of each handler | every access of a handler to the shared tables or the disk | modelled |
| session and pages | `src/App.js`, `containers/SignIn.js`, `containers/SignUp.js`, `components/Axios.js` | `session` (page and token) of each tab, its copy in `localStorage`, which the tabs share, a one-hour timer in each tab | sign in, sign up, the link from one form to the other, load, reload, close | modelled |
| chat view | `containers/Chat.js`, `FriendList.js`, `components/Message.js`, `TextInput.js` | the friend list, the chat selected, the messages shown, the spinner, requests in flight | fetch friends and messages, select, befriend, unfriend, send, send a file, unsend, preview, download | partly (all but preview and download) |
| socket server | `server.cpp` | table of usernames, descriptor sets of the select loop, one request at a time, `server_dir` | handshake, `msg`, `pic`, `file`, `quit` | modelled |
| socket client | `client.cpp` | username, one command at a time, `client_dir` | handshake, `ls`, `put`, `get`, quit | modelled |
| Crow: HTTP connections | `http_connection.h`, `http_response.h`, `http_server.h`, `dumb_timer_queue.h`, `socket_adaptors.h`, `examples/example_chat.cpp` | per connection its flags, response and key of its deadline; the queue of deadlines; the responses the chat keeps | accept, read, write, deadline, deletion; the four routes of the chat | partly (no middlewares, TLS, worker pool) |
| Crow: WebSocket connections | `websocket.h`, `examples/websocket/example_ws.cpp` | per connection the state of its reader, two write buffers, the close flags; the set of users | upgrade, frames and their pieces, broadcast, ping, close from both ends, failures | modelled |
| Crow: request parser | `http_parser_merged.h`, `parser.h` | the state of `http_parser`, the marks of one read, the message so far | one step per byte and state | partly (requests only) |
| Crow: query strings | `query_string.h` | none | parse, decode, look up by name, list and dictionary | modelled |
| Crow: router | `routing.h` | the rules, one trie per method | list rules, add, merge, answer | partly (no handler arguments) |
| Crow: JSON, templates, middlewares, logging | `json.h`, `mustache.h`, `middleware.h`, ... | | | not modelled |
| leftovers | `routes/Connection.js`, `src/App.test.js`, `reportWebVitals.js`, `setupTests.js`, `index.js` | | | not modelled: loaded by nothing, generated, or without state |

### How they interact

The page calls the server with HTTP POST requests and awaits each answer; nothing is
pushed to the page, which polls or refetches. The tabs of a browser share nothing but `localStorage`.
The server runs every request in a
thread of its own; the threads share the tables and the disk and use no lock. A
message sent by `u` to `v` is stored twice, in `history[u][v]` and, if `v` has added
`u`, in `history[v][u]`; an attachment is stored once, under the sender's directory,
and both messages carry its path. The two programs in C++ talk over a byte stream
with fields of fixed size; `server.cpp` calls `execlp` on the Python backend before
it binds its socket, so its own loop is reached only if that call fails.

Crow is not built by the `Makefile` of the repository and nothing of the running chat room uses it; it is
in the tree with its own build files, examples and tests. Bytes that a connection has read go to the
parser, whose callbacks fill a message; when that is complete the router finds the rule, whose handler reads the
query and answers, at once or later; the connection writes the answer and deletes itself when it is
neither reading nor writing. The long-polling example keeps responses of some connections
and ends them from the handlers of others. An upgraded connection becomes a WebSocket connection, which
posts what it sends to the thread of its receiver.

### What is hard here

- **Threads without locks.** Every handler of the chat server reads, decides and writes in separate
  steps: sign-up scans and then appends, befriending tests and then appends, unsending
  finds a position and then uses it, sending iterates over a dictionary that a sign-up
  extends.
- **Two copies and a file.** Each operation has to keep up to three places in step
  (own list, the other's list, disk), the other's copy is conditional, and each can fail
  halfway: the save after the first append, the `rmtree` after the removal, the
  `os.remove` before it.
- **Asymmetric friendship.** Each side adds, forgets and adds again at times of its own,
  while the other goes on sending.
- **Restarts.** The tables are literals in the source and return to them; the
  directory tree survives.
- **Late answers in the page.** `async` handlers keep the props and state of the render
  they were created in; so do the forms of the session.
- **One store, several tabs, one timer each.**
- **Fields in a stream.** The socket programs take what one read returns for one field.
- **One thread that blocks.** The socket server waits for whoever it is talking to.
- **Objects that delete themselves.** A connection of Crow is deleted when two flags say that nothing is
  pending, while deadlines, reads and writes complete in any order, other connections keep its
  response, and other threads post to it.
- **Bytes in pieces.** A read ends anywhere: in a name, a chunk, a frame.

The properties that make each component correct:

| component | what has to hold |
|---|---|
| chat server | a message has one identity wherever it is stored; lists are chronological; two sides of a conversation do not diverge; unsending is complete; no file without a message; nobody's conversation is touched by a third person's request; a request that fails is not half visible to others |
| its threads | the identity and no-duplicates results survive interleaving; sends between friends are all delivered; every request is answered; an unsend takes the message it names (it does not) |
| session | a tab that is signed in stays signed in; the stored copy is what was shown last; it does not stay for good |
| chat view | what is shown is a piece of one conversation (but not always of the one selected); a click unsends only one's own messages; the spinner stops |
| socket programs | the two ends agree on where a field begins, so that files arrive as they were sent; no two clients share a name; a client that waits is served |
| HTTP connections | no handler and no deadline outlives its connection; a poll misses nothing; a dead client's socket is closed |
| WebSocket connections | the same, with threads; messages arrive whole, in order and once; a close is answered |
| parser, query, router | a request arrives as it was written however it is cut; a name finds its values; the tries answer like the list of rules |

The full list of hazards, each at its line and with the properties that would catch
it, is `hazards` in `PROJECT.json`.

## 2. The modules

| module | what it is |
|---|---|
| `ChatServer` | the server with one action per handler, as if no two requests overlapped, and restarts: what the server promises |
| `ChatServerProofs` | the inductive invariant of `ChatServer` and eight theorems about it |
| `ChatServerThreads` | the same handlers split at each shared access, run by any number of threads |
| `ChatServerLoads` | those threads under one of several loads, each the set of requests that clients make: what friends who only send are promised |
| `ChatServerThreadsProofs` | which thread may use which list, that a message has one identity under every interleaving, and that friends who only send lose nothing |
| `ChatServerSerial` | states the refinement: with one thread, `ChatServerThreads` implements `ChatServer` |
| `ChatServerSerialProofs` | proves it: the accesses of a request add up to one step of `ChatServer` |
| `ChatView` | one user's page over the actions of `ChatServer`: clicks, requests in flight, answers in any order |
| `ChatViewProofs` | page and server together implement `ChatServer`, and four more theorems |
| `ChatSession` | the tabs of a browser: sessions, forms, store, timers |
| `ChatSessionProofs` | the two theorems about the store and the account |
| `SocketServer` | `server.cpp`: the one thread, from call to call, over streams |
| `SocketClient` | `client.cpp`, any number of them, composed with `SocketServer` |
| `SocketProofs` | names stay unique, files arrive whole, and the server ends only for a cause |
| `CrowTimerQueue`, `CrowResponse`, `CrowChat`, `CrowConnection` | HTTP connections, bottom up: deadlines, the connection and its response, the routes of the chat, the thread with its handlers and the clients |
| `CrowConnectionProofs` | the inductive invariant of `CrowConnection`, and its four safety properties |
| `CrowWebSocket`, `CrowWsChat` | WebSocket connections as operators; their threads, network and clients |
| `CrowBytes`, `CrowMessage`, `CrowParser` | classes of bytes, the callbacks, and the parser with one action per case of its switch |
| `CrowStreamProofs` | what Crow makes of a stream of bytes: the assertions of the parser hold for all inputs; the inductive invariant of the WebSocket connections and their three safety properties |
| `CrowQuery`, `CrowRouter` | query strings as operators; the router as a machine that lists, adds and serves |
| `CrowWire` | the reference for parser and query: what a client means by the bytes it writes |
| `MCChatServer`, `MCChatServerThreads`, `MCChatServerLoads`, `MCChatServerSerial`, `MCChatView`, `MCChatSession`, `MCSocket`, `MCCrow`, `MCCrowWs`, `MCCrowText` | the instances that TLC checks; `MCCrowText` also states the properties that relate the parser, the query and the router to their references |

### `ChatServer`

State: `users` and `friend_list` are `fake_database["user"]`; `history[u][v]` is the
list `fake_database["history"][u][v]`, empty when there is no such key;
`dirs` are the directories below `fs_root`, as sequences of parts, and `files` the attachments, that of a
message from `u` to `v` in `ChatDir(u, v) == Path[u] \o Path[v]`; `next_id` stands for the random id and the timestamp of
the next message; `boot` records `next_id` at the start of the process; `reply` is the
last answer. In this module the keys of `history[u]` and the members of
`friend_list[u]` are one variable; that they agree is not assumed blindly, it is the
property `TablesAgree` of `ChatServerSerial`, about the separate tables of `ChatServerThreads`, and proved there.

Actions: one per handler that changes state, each with all its outcomes, the
exceptions included. Those that deserve a look:

- `put_friends` makes the directory `fs_root/v`, as line 168 does, and not
  `fs_root/u/v`, where attachments go.
- `del_friends` removes the whole of `fs_root/u`, as line 197 does; when that is
  already gone the answer is `error` although the friend and the list are gone. No handler looks into a
  username, so `Path[u]` may have several parts: what goes is whatever lies below it, the chats of others
  included if `u` signed up as `v/w`.
- `put_messages_file` writes the caller's list before the file, and raises if the
  directory is missing: the caller's list keeps the message, the other side gets none.
- `del_messages` raises if the file is gone, before either list is changed.
- `NoHistory` is the pair of lines `_, h = _search...(token)` and `if h:`: an unknown
  token raises, and so does not a user without friends, whose empty dictionary is falsy.
- `Restart` gives the tables back their literal values and keeps the disk.

Abstractions. A password and a token are the user they belong to (tokens are drawn at
random; nothing compares them except for equality). A message is its id, its parties
and whether it has a file; `Image` and `File` take the same branches of every handler. A path is a sequence of parts, with `os.makedirs` making its prefixes and
`rmtree` removing its extensions; usernames that lead out of `fs_root` (those that begin with a separator or have
a part `..`), that end in the part `.`, or that are the path of a file, are left out, and so are the names of files,
which a client chooses in part. The
`to` of a message is bookkeeping, the code has it only as part of the path of an
attachment. The random id (128 bits) and the timestamp of a message are one increasing
number: ids do not collide. The requests to unsend are those the page can make
(`MayUnsend`, from `Chat.js:130-157` and `Message.js`): a bubble can be clicked if its sender is
not the user whose chat is selected; it may be stale, or belong to the chat shown before, so the
id may name no message of this chat at all. All other requests are unrestricted: any user, any target, also
oneself and users that do not exist.

### `ChatServerThreads`

State: `accounts` is the list itself; `dicts` holds every inner dictionary ever made and
`current` says which of them `fake_database["history"]` refers to for each user, so that
a thread may go on using a dictionary that has been replaced; `job[w]` is the request
and the local variables of thread `w`, with `pc` naming its next access. Each action is
one access, with the line it comes from given in `PROJECT.json`: for example
`scan`, `add`, `mkdir`, `sub`, `newdict` are the accesses of `put_account`, and
`len`, `match`, `type`, `unlink`, `pop` those of the loops in `del_messages`.
`raise` is every `KeyError` and `IndexError` that interleaving makes possible.
`find` raises when the dictionary has grown since `iterate`, as CPython's iterator does.

Granularity. A subscript together with the list method called on its result is one
step, and so is the scan of a list that only grows (the head of the module says why
nothing is lost). `shutil.rmtree` and `os.makedirs` are atomic. The search for the
caller's token and the draw of an id are merged into `lookup`: the account found
cannot change its name, and nobody else sees an id before it is stored. The
process does not crash in the middle of a handler here.

`ChatServerLoads` adds one variable, `load`: the requests that clients make in the behaviour at hand, any of
`Loads`, chosen at the start. `ToFriend` are the sends of a user of the source to another, each in the other's list;
`SendsDelivered` says of a load of nothing else that all is delivered once every request is answered. `load` is a
history of what clients do and not a state of the server, which no step reads except to start a request.

### `ChatServerSerial`

An auxiliary variable `committed` holds the tables as they were at the last answer; it
starts as the initial tables and is overwritten whenever the one thread becomes idle. The
refinement mapping sends `ChatServer`'s variables to its fields. `ServerRequests` then
says that every request, taken as a whole, is one step of `ChatServer!Next`: the
exceptions that leave a handler half done must be exactly the half-done outcomes that
`ChatServer` allows.

### `ChatView`

Extends `ChatServer` and composes its actions with the page of one user, `me`. State:
`friend` (FriendList), `currentTarget` (App), `chat` (ChatBox), `loading` (TextInput), and
`requests`, the set of HTTP requests that have not been answered and of answers that have not
arrived. A request records what the `async` handler that awaits it will use afterwards:
`target` (the closure of `refreshChat`), `idx` (`props.delIdx`) and `shown`, which says whether
the array that `props.chat.splice` will cut is still the one on the screen; `setChat` puts another
in its place, and `Detached` then clears the mark.

Steps of the user: `select`, `submit`, `unsend`, `befriend`, `unfriend`, `reload`. Steps of the
server: `process`, which is the handler of `ChatServer` or a read (`get_friends`,
`get_messages`). Steps of the network: `deliver`, after which the handler goes on
(`receive_friends`, `receive_messages`, ...), and `lose`, after which it goes on in its `catch`.
Everything else that reaches the server is `visit`: any step of `ChatServer`, those of
other pages of `me` and restarts included. A reload drops the page and keeps the requests it has
already sent, whose answers nobody awaits (`abandoned`).

Abstractions. What is typed and picked is left open: a submission sends a text or a file, or
ends at once (nothing to send, file over 32 MB). `me` is one of the users in
the source, whose tokens are literals, so that the page's token survives a restart. Effects
run before the next click, as in React 17. Downloads, previews and the messages of the status bar
are left out.

### `ChatSession`

State: for each tab its `session` (`None` while it is closed), the submission its form waits for (`loading`, the button that
antd disables), whether the effect of `App` has still to run (`pending`) and for how long `timeoutId` has
run; `stored` is `localStorage`; `requests` are submissions and answers on their way, each with
the session of the render it was made in. `registered` are the server's accounts; `Restart` takes it back to
those in the source, and the stored token of another account stays. `writer` and `hasty` are history
variables: the tab that stored last, and the tabs in which a form was left by its link before the answer came.

`Receive` is the rest of `handleSubmit` after its `await`, with the session it captured: `AfterSuccess` is what
`handleSession` sets. The effect runs before the session changes again, as React 17 flushes effects before the next
render. `Expire` removes the store whichever tab has filled it, and leaves the session of its own tab alone, as the code does.

### `SocketServer` and `SocketClient`

`at` is the call the server blocks in; an action is what it does from there to the next call. A connection is
two streams of units: a field written from a large buffer is `BUFSIZE` units, the first of which
has the text, and the content of a file is one unit per byte. A read returns any part of
what has arrived for a client in `Remote`, and a whole field for the others. `owner` says who is behind a
descriptor. Writes do not block; a read at the end of a stream leaves the buffer as it was, so that the
command of before is obeyed again (`last`), and what the stack holds otherwise is any value.
`PicReset` is the `fwrite` of a negative count. `astray` records the clients of which
one side has lost the framing: what the properties promise, they promise until then.

`client.cpp` sends the words `ls`, `put` and `get`; `server.cpp` knows `msg`, `pic` and `file` and exits at any
other. `adapted` are clients with the server's words, otherwise the same program; a run has both kinds.

### HTTP connections of Crow

The state `st` of the thread is one record, and a method of `Connection` is an operator from the state at its
call to the state at its return, so that calls nest as in the code: `complete_request` inside `end` inside the
handler of another connection's request. What asio does is explicit: pending reads and writes (`reads`, `wire`)
become entries of `ready` when they complete, and a close makes those pending ready with an error. A step is one
handler of the queue, run to its end; only the loops over `ress` and over the due deadlines are a series of
steps, in which nothing else of the thread runs. A deleted connection keeps its record, so that a use of
it can be seen: `broken` marks a handler of a connection that is deleted, which may do anything and of which nothing more is modelled.
A request is its route, whether it asks to close, and the number of messages its poll knows; a
message is its position.

What a read brings is a sequence of requests, the last of which may be cut (`part`) or be none (`garbage`). `feed` takes the first;
`FeedOn` and `FeedRest` go on with what is left (`rest`), after the loop over `ress` that the first may have entered, and only then
comes the rest of the read's handler, `after_feed`. `hasty` is a history variable: the clients that have sent a request while
they waited for an answer, or several at once. Their writes may overlap. What such a client then gets is not modelled, as both
writes use `buffers_` and the first to end clears `res`; that both are under way, and what their handlers do to the flags, is.

`Throw` is the exception of `remote_endpoint()` in the line that logs a request
(`http_connection.h:299`), which the worker's loop swallows with the handler and the rest of the read.

### WebSocket connections of Crow

Each connection is on an `io_service`, and so on a thread, of its own: its handlers run one after
the other, those of different connections in any order. What the handlers of the example do under their mutex is
one step. `send_text` to another connection posts to its thread (`Sent`). A
frame is a header, perhaps an extended length, a mask and a payload. Length and mask are read by `async_read`, whole; header and
payload by `async_read_some`, so that both may arrive in pieces (`CutHeader`, `ReadSome`). A header of which one byte has arrived is taken
for one all the same: the server is out of step with this client from there on. Either what it takes for the mask bit is missing
and it closes, or it goes on with frames that the client did not send, any in `Misread`. A handler goes on after it
has deleted its connection, as the code does: `PayloadRead` begins the next read. The history variables
`said` and `handed` are the messages sent, and those with which the message handler was called; `cut` are the clients of which a
header was cut, `pieces` those that have sent a message in several frames.

### The text handling of Crow

`CrowParser` has one action for each case, or few like cases, of the switch in
`http_parser_execute`, with the byte at hand as its input; `again` is `goto reexecute_byte`. `Feed` begins a read
of any length and `ReadEnds` ends it: the marks of the items are local to the read, as in the code. `CrowMessage` are the
callbacks, with their rule for when a header is stored. The words the parser compares (`connection`, `chunked`, ...) are
sequences of bytes, since the position in them is its state.

`CrowQuery` keeps each pair as the C string it is in memory: what decoding in place leaves before the
first NUL. `CrowRouter` lists rules in any order, adds them to the tries of their methods, merges nodes as `validate()`
does, and answers; `Promised` is the reference, the list of rules read from the first to the last.

## 3. The runs

| run | question | instance | result |
|---|---|---|---|
| `chat_pair` | do two sides of a conversation, and the files, stay in step? | two seeded friends with two texts, ids up to 5, restarts | holds: `OneMessagePerId`, `Chronological`, `NoGaps`, `NoOrphanFile`, `UnsendIsComplete` |
| `chat_trio` | does anybody's request reach a third person's data? | two seeded friends and one who signs up, under a name that makes his directory that of their chat; one message | holds: `CallersOnly`, `FailureIsPrivate` |
| `threads` | what does every interleaving still guarantee, and is everything delivered when friends only send? | two threads; any three of eleven requests, or three sends, texts and attachments both ways | holds: `OneMessagePerId`, `NoDuplicates`, `PartiesOnly`, `SendsDelivered`, and under fairness `RequestsEnd` |
| `serial` | is a request that runs alone a step of `ChatServer`? | one thread, any four of all requests of three users | holds: `ServerRequests`, `TablesAgree` |
| `chat_view` | what can a page with late answers show, and ask for? | a page with two friends, three events | holds: `OneConversationShown`, `ServerSpec`, `OnlyMineUnsent`, and under fairness `SpinnerEnds` |
| `chat_session` | do session, store and hour agree? | two tabs, two users of which one has to sign up, five events | holds: `StoreFollows`, `KeepsAccount`, and under fairness `Forgotten` |
| `socket` | are files whole, names unique and clients served? | two clients, of which one may be killed and the other's fields may be cut; two names, two files | holds: `UniqueNames`, `TransfersWhole`, `ExitHasCause`, and under fairness `Answered` |
| `crow_http` | does a connection end cleanly, and does a poll miss nothing? | two connections, three requests, of which one client may send two at once | holds: `DeadlinesOwned`, `NoDanglingHandler`, `HeldHasCause`, `PollsContiguous`, and under fairness `IdleClosed` |
| `crow_websocket` | the same with threads, and are frames put together? | two connections, two messages, pings or calls of `close`; the headers of one may be cut | holds: `NothingDangles`, `WholeMessages`, `InOrder`, and under fairness `CloseAnswered` |
| `crow_text` | do requests arrive as they were sent? do the tries answer like the list? | connections with one or two of some forty requests, the same with one byte wrong, and programs of up to three of twelve rules | holds: `RoundTrip`, `QueriesMeant`, `RoutesAgree`, `AssertsHold` |
| `attachments` | can an attachment that both sides list be fetched? | three users | refuted, finding 1 |
| `unsend_race` | does an unsend take the message it names? | two threads, a send and two unsends | refuted, finding 2 |

### Bounds, and why they are enough

- `MaxId`: no message is created once `next_id` has passed it. In `chat_pair` three
  messages can be created beside the two seeded ones, which is enough for a list to lose
  its head, middle and tail, for both directions to interleave, and for each side to
  forget and start again between two messages.
- `chat_trio` has room for one message only. Its properties compare one step's effect with
  its caller: a message, a file and a third person are what such a step can touch.
- `MaxStarted` in `threads`: three requests let two overlap after a third has prepared
  the state (an account, a message) or has started before them. The races found need two
  requests in flight and at most one before. Three sends make at least two in one direction.
- `serial` allows four requests, so that a request may follow the three that are needed
  to reach the half-done outcomes (befriend, unfriend, send).
- `MaxEvents` in `chat_view` bounds the clicks that send a request, the requests of others and the restarts
  together. Three are enough to select a friend, select another and click a bubble that a late
  answer has brought; or to select, send, and meet a visit. Follow-up requests (refreshes) and
  losses are not counted. The theorems of `ChatViewProofs` have no such bound.
- `MaxEvents` in `chat_session` bounds what the users do. Five are enough to open both tabs, submit in both and
  reload or leave one. `HOUR` is one tick: a timer has run out or not, and the other tab's can be younger.
  The theorems of `ChatSessionProofs` have no bound.
- `socket`: `SLOTS` is two, so that a second client fills the table; with the first descriptor at four and
  `ROTATE_SIZE` six, the second client has the highest descriptor that is still served (the off-by-one is what `Answered`
  would see); files are empty or three units with buffers of two, so that a file takes two reads; four
  names and commands (`MaxAsks`) let both clients sign in and one put what the other gets. A third client, and so a
  descriptor past the limit, is out of reach of the run: `Excused` says what would happen.
- `crow_http`: three requests (`MaxAsks`) let a poll wait, a message answer it, and another come while that is written. `Asked` divides
  the routes between the clients: one polls, and may ask to be closed after it; the other sends, leaves a request unfinished, or puts two things into one
  read: a poll and an invalid request, a poll and what is none, `Expect: 100-continue` and an upgrade, which are the ways to two writes, to a
  response that is left behind, and to one write under the other's end.
  `TICK` is one second, which every interleaving of a deadline with a read and a write needs.
- `crow_websocket`: a frame carries two units, one more than a piece; two sends let one wait in the second buffer
  while the first is written, and a broadcast meet a close. `Does` divides what can happen: the headers of one client are cut, the
  other closes, is closed and fails. `Misread` is nothing, or one text that was not said: enough to make what is handed on
  differ from what was said. The theorems are for any `Misread`.
- `crow_text`: reads are cut at every place in the first part, and at the wrong byte and the end in the second
  (`MCNext`). `MaxHeader` is 70 bytes and `Unset` 100 where the code has 80 KB and 2^64 - 1, so that both limits
  are passed; a query has room for four pairs and none has more (`Fits`). Three rules out of twelve make every pair meet under every third.
- `VIEW store` in the `ChatServer` runs forgets the last answer, which no action
  reads; action properties are evaluated on every step all the same, but a state that
  differs only in `reply` is explored once. `AllButReply` does the same for `chat_view`.

`CHECK_DEADLOCK FALSE` stands in three configurations, where the system may stop: `socket` (the server has
exited, or nobody types a further name), `crow_websocket` (all connections are deleted, or one waits for
a payload that is never read) and `crow_text` (the input is read; the
program has failed to start or is serving). Everywhere else a state without a successor would be reported: a refused
request is always possible in `ChatServer`, `ChatServerThreads` may stop only in `Done`, when all requests are
answered, `ChatView` only in `Idle`, when no event is left and no request waits, and time passes in `ChatSession` and `CrowConnection`.

### Fairness

- `FairLoads` (`threads`): weak fairness of each thread's steps. A thread
  that has taken up a request is an operating-system thread, holds no lock and waits for
  none, and keeps being scheduled. Nothing is assumed about clients: no request need ever arrive.
- `FairViewSpec`: a request that has reached the server is
  eventually handled, which is what `RequestsEnd` shows of the threads, and answers do not stay on the way
  for ever: TCP delivers them or reports a failure (`lose`). Nothing is assumed about the user.
- `SessionFair`: time passes, effects run after their render, and timers that are due fire.
- `SocketFair`: the server's thread runs when the call it blocks in can return, and so does each client
  program; a user who is asked for a name types one, within the bound. Commands, the kill and the reset need not come.
- `CrowFair`: the thread runs its handlers, and seconds pass. Clients need do nothing, not even read: no write need ever complete.
- `WsFair`: each thread runs its handlers, reads return what has arrived, and writes complete, with or without success: a client
  that has asked for a close reads what it is sent, and one that does not has failed (`hung`).

No fairness is strong, and no other specification assumes any. A property of the form
`[]<>(P => Q)` says that `P` without `Q` does not last for ever.

## 4. Findings

1. **Unfriending deletes the attachments sent to everybody else.** `README.md:2` says
   that the program "can send texts, files, and images (with preview feature)".
   `del_friends` (`app_fake.py:197`) removes `fs_root/<caller>` where
   `fs_root/<caller>/<target>` would be meant. Attachments to all other friends are still
   listed on both sides and cannot be fetched any more, nor unsent (`os.remove` raises),
   and every later attachment of the caller fails.
2. **Two requests to unsend one message unsend two messages** (`app_fake.py:368-381`): both
   find the position, and the second pops whatever has moved there. The message stays
   clickable while the first request is pending; the page splices one message and reports "Successfully unsend" (`Message.js:231-232`).

### Behaviour that the models show and nothing in the repository contradicts

Chat: friends made at run time cannot exchange attachments, as `put_friends` makes `fs_root/<friend>`
(`app_fake.py:168`) and attachments go to `fs_root/<user>/<friend>`; a user who signs up as `henrychao/admin`, befriends anyone
and unfriends him deletes the files of `henrychao`'s chat with `admin` (112-131, 197; hence the exception in `CallersOnly`); two overlapping sign-ups of one name both
succeed, and the second replaces the first one's messages (117-131); a page can show one friend's messages
under another's name and report as unsent what is still there (`Chat.js:72`).

Session: a sign-up that is answered after its form was left by the link and the user has signed in writes back the
session it captured, and the user is out again, or is somebody else (`App.js:39`; hence `hasty` in `KeepsAccount`); a tab's timer
removes what another tab has stored since; a closed tab's store stays for good (hence `Open(t)` in `Forgotten`).

Socket programs: the hundredth name is written one past the array (`server.cpp:99`); while a newcomer thinks of a name nobody is
served (88); descriptors from 10 on never are (130); a `get` of an empty file waits for ever (`client.cpp:175`); a
read that returns less than a field shifts all that follows (168); the words of the two programs differ. `Excused` and `ExitHasCause` list them.

Crow, HTTP: a long poll that asks to close, as all of HTTP/1.0 do, deletes its connection before it is answered (`http_connection.h:494`);
so does a poll that is followed, in the same read, by another request or by what is none, and then by the end of the connection (342, 479, 496; hence `hasty` in
`HeldHasCause`). Two writes of a connection may be under way for a client that does not wait for its answers; `is_writing` is one
flag for both, and the handler of the second may be called after the connection was deleted (512-542; hence `hasty` in `NoDanglingHandler`).
An exception in the log line leaves a connection without a deadline, and so does every request that closes, while its answer is written: a client that does not read
keeps its socket (490; hence `thrown` and `Lingers` in `IdleClosed`). Each property names these causes as the only ones.
A read that fails while the success of a write is queued can leak the connection (513-533); an upgrade that no rule takes is not answered.

Crow, WebSocket: a header of which one byte has arrived is taken for a whole one (`websocket.h:185`, hence `cut`); a connection that the closing handshake
has deleted begins to read all the same, if the frame came in a read (348-350, hence `Shaken`); a message in several frames is handed on twice (392, hence `pieces`); the rest of a payload that arrives in two reads is never
read (346, hence `Stalled`); what other threads have posted to a connection that is deleted runs all the same (87-116, hence the limit
of `NothingDangles` to its own operations); two receivers may get two broadcasts in different orders.

Crow, text: a header with an empty value is lost when another follows (`parser.h:34`); one without a colon merges its name
with the next; the last trailer after a chunked body is never stored; with more than 256 pairs `qs_parse` uses a slot beyond its array
(`query_string.h:114-133`, hence `Fits`); the redirect of a missing slash goes before every rule with a parameter and drops the query; a
method beyond `PURGE` gets no answer (`routing.h:965`); `is_parameter_tag_compatible` compares the number of parameters only (`utility.h:169-181`).

## 5. What is proved

`ChatServerProofs` proves, for every set of names, every database to start from and every bound:

| theorem | property |
|---|---|
| `TypeCorrect` | `TypeOK` |
| `MessagesKeepTheirIdentity` | `OneMessagePerId` |
| `ListsAreChronological` | `Chronological` |
| `ConversationsHaveNoGaps` | `NoGaps` |
| `NoFileIsOrphaned` | `NoOrphanFile` |
| `UnsendingIsComplete` | `UnsendIsComplete` |
| `OnlyTheCallerIsAffected` | `CallersOnly` |
| `FailuresArePrivate` | `FailureIsPrivate` |

**Assumptions.** `PathAssumption`, `SeedUsersAssumption` and `SeedHistoryAssumption` of `ChatServer`: every name has a path below
`fs_root`, any path, so that one user's directory may lie in another's; the
database in the source is well formed, friendships in it are between its users and never with oneself,
two friends hold the same texts, oldest first, and there are no attachments in it. TLC
evaluates them for the instances it checks. Nothing is assumed finite.

**Argument.** None of the invariants is inductive on its own. The invariant `IInv` is
the conjunction of `TypeOK`, `FriendsAreUsers` (friends have accounts),
`ListsAreKeyed` (a list that is not empty belongs to a friend), `IdsAreOld` (all ids in
use are below `next_id`; those in the lists are either seeded or from this process, at least `boot`;
files have ids that were drawn), `Tree` (the directory of a file exists, and so does that
of its sender), `OneMessagePerId`, `Chronological` and `NoGaps`. A message
appended by a send is new because of `IdsAreOld`, which gives the order and the
identity; removal by id takes the one message with that id because the list is
increasing; the gap property survives an append because the appended message is later than
all others and goes to both sides unless the other side has no list, and survives an
unsend because it goes from both. A request to unsend either names a message that the
caller sent (`OwnUnsend`) or changes nothing (`UnsendCases`). The restart needs the lower bound `boot`: files of
an earlier process must not be taken for those of messages in the new one. There is one
lemma per handler, each split by conjunct, on top of lemmas about `Append`,
`RemoveFirstMatch` and `BothAppend`.

`NoOrphanFile` and the action properties follow from `IInv`, step by step. `CallersOnly` has one exception, the files in
directories that lie inside the caller's, and the proof needs nothing about how paths overlap for the rest.

`ChatViewProofs` proves, for every user, every bound and every order of answers:

| theorem | property |
|---|---|
| `PagesMakeServerRequests` | `ServerSpec`: page and server together behave as `ChatServer!Spec` |
| `PagesKeepConversations` | hence `OneMessagePerId` and `NoGaps`, from the theorems above |
| `PageShowsOneConversation` | `OneConversationShown` |
| `PageUnsendsItsOwn` | `OnlyMineUnsent` |
| `PageIsTyped` | `ViewTypeOK` |

The first discharges the one assumption that `ChatServer` makes about its clients, `MayUnsend`, and is the
reason why it is safe to make it. **Assumptions**: those of `ChatServer`, and `ViewAssumption` (`me` is one
of the users in the source; there are ids enough for the events).
**Argument**: `ViewInv` adds to `IInv` that everything the page shows, and every message that an
answer carries or an unsend names, is `Known`: its id has been drawn, and no list, and no list of the literal
database either, holds another message with that id. `Known` survives every step of the
server because a list only gets messages it had, seeded ones or one with a fresh id (`Origins`);
the clause about the literal database is there for the restart. A stale click then names
a message that, if it is stored at all, is the one that was clicked, which the friend selected has not sent.

`ChatServerThreadsProofs` proves, for any number of threads and of requests, every set of requests and every
database to start from:

| theorem | property |
|---|---|
| `MessagesNeverMix` | `OneMessagePerId` |
| `NeverTwice` | `NoDuplicates` |
| `OnlyParties` | `PartiesOnly` |
| `FriendsAreServed` | `SendsDelivered`, of `LoadSpec` |

**Assumptions**: `RequestsAssumption`, `SeedAssumption` and `SeedMessagesAssumption` of `ChatServerThreads`: the
database in the source has lists for its accounts' friends, a message in them is between owner and friend, is in no list twice, and its
id is its own and below `FirstId`; and `LoadsAssumption`: a load is a set of these requests.
**Argument**: the state does not say whose a dictionary is: `current` forgets one that a second
sign-up has replaced, while threads may go on using it. The invariant therefore says that there *is* an
owner for each dictionary (`IInv`, `Owned`): `newdict` extends that map and nothing changes it. Relative to it,
a thread has a list at hand that is its caller's about the target, or its target's about the caller (`UsesItsList`); a
list holds messages between owner and key, none twice unless these are one (`ListsOK`); and a thread that has
drawn an id is the only one (`OwnIds`), with nothing stored under it yet, or just its own message, in its caller's
dictionaries (`OwnsItsId`). The last is what makes the second append safe: the target's dictionary cannot have it
yet. Steps that add nothing to a list are one lemma (`NothingNew`); `lookup`, `append` and `newdict` have their own. `pop` takes
whatever is at its position and needs no more for this; that it may be the wrong message is finding 2.

`FriendsAreServed` needs to know where a message is at each stage of a send. `LoadInv` adds `Friendly`, for the loads
in which friends only send: nobody loses a list or a directory (`Steady`); each thread is idle or at a
step of a send, with the lists that are current at hand and what it should have stored so far stored (`AllSend`); and
each id that was drawn is delivered on both sides, or in the hands of a thread (`Accounted`). `find` is where it could
go wrong: it raises if the number of accounts has changed since `iterate`, and loses the second copy if there is no list of the other side. `Steady` excludes
both, so that `known` is reached, and the second append too. Nothing is assumed of how many threads there are, or how their steps interleave.

`ChatSessionProofs` proves `StoredIsShown` (`StoreFollows`) and `AccountIsKept` (`KeepsAccount`), for any number of tabs, users and events.
`SessionInv` adds to `StoreFollows` that a submission is known by its number (`Numbered`) and that one whose form was not
left by its link is what that form still waits for, in an open tab that is not signed in (`Awaited`): an answer
then cannot meet a session that it would put out.

`ChatServerSerialProofs` proves, for every set of requests and every database to start from:

| theorem | property |
|---|---|
| `SerialRefinement` | `ServerRequests`: with one thread, every request is one step of `ChatServer!Next` |
| `TheTablesAgree` | `TablesAgree` |

**Assumptions**: those of `ChatServerThreads`; `SerialAssumption` (there is one thread, and an id for every request) and
`SeedFriendsAssumption` (in the literal database no name occurs twice, nor does a friend in a list).
**Argument**: `SInv` is the invariant of the threads with two parts more. `Orderly` says that accounts, friend lists and
the inner dictionaries go together, which interleaving would break and one thread does not. `Committed` says, for each value of `pc`, that the
tables are those of the last answer, changed by what the request has done so far (`DoneSoFar`), that what the
handler has found out about them is still so (`FoundOut`), and that its local variables refer to the lists they were taken
from (`HasAtHand`). Each access keeps this, and the one that answers leaves the difference between
the committed and the current tables that an action of `ChatServer` makes. The exceptions that leave a request half done are in it: there is
one disjunct of an action for each.

`SocketProofs` proves, for any number of clients, names, slots, files and sizes, and every way to cut the data:

| theorem | property |
|---|---|
| `NamesStayUnique` | `UniqueNames` |
| `FilesArriveWhole` | `TransfersWhole` |
| `ExitsHaveCauses` | `ExitHasCause` |

The first needs little: only `Register` stores a name, after a scan of all that are there.
**Assumptions**: `SocketAssumption` and `ClientAssumption` (there are finitely many clients, no name is empty, and the sizes are counts, zero among them).
**Argument**: `FrameInv` is `Calm => Core`: as long as no field was cut and nobody killed, what the server has still to read from
a client - what is on its way and what the client has still to write - begins with a command or with the rest of the field
the server is at, and is framed from there to the end, `quit` last; so is what a client has still to read. A file on
either side is then a prefix of the content of one upload. A read that returns less than a field would be the only
step that breaks this, and ends `Calm`, which never begins again.

`CrowConnectionProofs` proves, for any number of connections, requests, messages and seconds:

| theorem | property |
|---|---|
| `DeadlinesAreOwned` | `DeadlinesOwned` |
| `NoHandlerDangles` | `NoDanglingHandler` |
| `HeldAreCaused` | `HeldHasCause` |
| `PollsFollow` | `PollsContiguous` |

**Assumptions**: `ConnAssumption`, `TimerAssumption` and `ClientAssumption`: the types of the constants, and that in what a client sends at once nothing but
garbage follows what the parser takes nothing after. Any client may send any such sequences.
**Argument**: `CInv` has the following parts. `Sound`: of each connection at most one read is under way (pending,
ready, or the handler that runs), and at most one write unless its client is hasty; the flags say which, nothing is of a connection that is deleted but writes of
hasty clients, and a connection that is owed an answer and whose client waits has nothing else
under way. `Owned`: an entry of the timer queue is that of its owner's key. `Told`: what is
on its way to a client that waits follows what it knows. `LoopOK`, `UpToDate` and `Caused`: what the loops over `ress` have dealt with and what they have left.
The methods of a connection call each other, across connections too, so there is one lemma for each method: `Good(s, w, l, b, D)`, the
first three parts while the handler of `b` runs and the connections in `D` are owed an answer, holds at its return if it holds at its call. There is then one
lemma per action. `DeadlinesOwned` was strengthened on the way: that an entry's owner holds its key does not exclude that another
connection's old key points to it, and `cancel` would then disarm the wrong deadline.

`CrowStreamProofs` proves, in its first part, `ParserAssertionsHold` (`AssertsHold`), for every stream of bytes, every way to cut it into
reads and every limit. `IInv` adds that the length of a body never exceeds `Unset` and is less while a chunk's size is being
read, that a mark is set only in the states that read its item (`MarksFit`), and that there is none between reads. There is a lemma per case of the switch.

In its second part it proves, for any number of WebSocket connections, any lengths of messages and pieces, any choice of what each
client does, and every order of the threads' handlers:

| theorem | property |
|---|---|
| `NothingIsLeft` | `NothingDangles` |
| `MessagesAreWhole` | `WholeMessages` |
| `MessagesInOrder` | `InOrder` |

**Assumptions**: `WsAssumption` and `DoesAssumption`: there are finitely many connections, and the types of the other constants. The
theorems are stated for `WsFair`, the specification of the run; no proof uses its fairness.
**Argument**: `WsInv` (`WsInvariance`) has three parts beside the types.
`FineAt`, for each connection: at most one read and one write are under way, pending or complete, and `is_reading` and `sending_buffers_` tell
which; a payload is read only from its beginning; what is deleted has nothing under way, is closed and no user, except that a read was begun on it after the closing handshake, if
it is `Shaken`. That is what `check_destroy` relies on when it tests three flags and deletes.
`Ordered`, for each two connections: the messages of one that the other has been or will be sent are those that its client has got, those in the
write under way, those in `write_buffers_` and those posted to its thread, and each of the four is a run that begins
where the one before it ends; as long as the other is a user, the last ends with the last message handed on. `do_write` moves a run from one place to the next, a post that
runs does too, a broadcast lengthens the last one for all users at once, and a client that is
gone, or a socket that is closed, keeps what has `Arrived`. That a run is one is said by a numbering of its places (`Numbers`), which lets runs be cut and joined
without induction.
`AllHanded`, for each client that has sent no message in two frames and of which no header was cut: what was handed on, the text whose header was read and which is not yet handled, and those
still to be read are what it has said, in this order, and `message_` is empty between frames. A payload that does not come in full with one read stalls
the connection, which then reads no more: nothing is handed on that was not said.
The methods of `websocket.h` call one another, so that each has a lemma of its own, for its effect on one part from its call to its return; a
second layer has one lemma per action.

## 6. What is only model-checked

- Liveness (`RequestsEnd`, `SpinnerEnds`, `Forgotten`, `Answered`, `IdleClosed`, `CloseAnswered`): fairness and `ENABLED` are
  out of the prover's reach.
- `RoundTrip`, `QueriesMeant` and `RoutesAgree`: they compare recursive definitions with their references, which
  needs induction over data. The modules that hold these definitions have no theorems.

All other invariants and action properties of the runs are theorems of section 5.

## 7. What is not modelled

- The read-only handlers `hello`, `get_account` and `get_messages_file`, which change nothing
  (`get_friends` and `get_messages` are part of `ChatView`); what a fetch of an attachment can return is the subject of
  `SharedAttachmentsFetchable`.
- Passwords, and the contents of messages and files. Usernames whose path leaves `fs_root` or is that of a file.
- What a deleted connection of Crow does once a handler uses it, and what a client gets of two writes that overlap.
- Rules of the router without a handler, for which `validate()` throws (`routing.h:387`, 463), and what `qs_parse` writes past its array.
- A crash in the middle of a handler of the chat server. `Restart` comes between requests.
- Previews, downloads and status messages in the page, and what its input fields hold.
- Crow's worker pool (an `io_service` per thread, connections dealt out in turn); TLS; middlewares; static files; the answer parser of
  `http_parser_merged.h` (the server never parses an answer); the arguments that the router hands to a handler.
- JSON, templates, logging, base64 and SHA-1 of Crow: text in, text out, with no state that outlives a call.
- `Connection.js`, which nothing loads, and the generated files of the page.

## 8. Plan

Done, in this order: `ChatServer`, `ChatServerThreads`, `ChatServerSerial`, `ChatView` and their proofs; then `ChatSession` and its
proofs, the socket programs, Crow's connections, WebSockets and text handling; the proofs about the threads,
the parser and the names; those of the refinement of `ServerRequests`, the transfers of the socket programs and Crow's HTTP connections;
and last those of what friends send each other under the threads, and of Crow's WebSocket connections.

Left, for who wants to go on: a mapping of the socket programs to an abstract file store; a crash in the middle of a handler of the
chat server; the JSON reader and writer as a pair of operators with a round trip.
