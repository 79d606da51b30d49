------------------------------ MODULE CrowWsChat ------------------------------
(***************************************************************************)
(* The threads that run the handlers of CrowWebSocket, the network, the     *)
(* clients, and an application that may call close.  A client sends one     *)
(* close frame, and nothing after it.                                       *)
(***************************************************************************)
EXTENDS CrowWebSocket

CONSTANTS
    Does,       \* bound: what each client does, and what is done to it
    Misread     \* bound: what the server may take frames for, out of step

Deeds == {"say", "pieces", "ping", "close", "kick", "cut", "fail"}

ASSUME DoesAssumption == Does \in [Conns -> SUBSET Deeds] /\ Misread \subseteq Seq(Frame)

WsInit ==
    /\ ws = [conn |-> [k \in Conns |-> Fresh], reads |-> {}, writes |-> {},
             ready |-> [k \in Conns |-> <<>>], users |-> {}, broken |-> {}]
    /\ in = [k \in Conns |-> <<>>] /\ got = [k \in Conns |-> <<>>]
    /\ said = [k \in Conns |-> <<>>] /\ handed = [k \in Conns |-> <<>>]
    /\ ended = {} /\ hung = {} /\ pieces = {} /\ cut = {} /\ kicked = {} /\ sends = 0

\* The constructor, on the thread of the connection.
Upgrade(k) ==
    /\ ws.conn[k].state = "free"
    /\ \/ ws' = Started(ws, k)
       \/ ws' = [ws EXCEPT !.conn[k].state = "deleted"]     \* refused: delete this
    /\ UNCHANGED <<in, got, handed, hung, cut, clientVars>>

\* The next handler of a thread.  One that was posted for a connection that is
\* deleted by now uses it all the same.
Run(k) ==
    /\ ws.ready[k] # <<>>
    /\ LET e == Head(ws.ready[k])
           s == [ws EXCEPT !.ready[k] = Tail(@)]
       IN  /\ ws' = CASE ws.conn[k].state = "deleted" -> [s EXCEPT !.broken = @ \cup {k}]
                      [] ws.conn[k].state # "deleted" /\ e.what = "read" -> read_handler(s, k, e.ok, e.n)
                      [] ws.conn[k].state # "deleted" /\ e.what = "write" -> write_handler(s, k, e.ok)
                      [] ws.conn[k].state # "deleted" /\ e.what = "send" -> Sent(s, k, e.item)
                      [] ws.conn[k].state # "deleted" /\ e.what = "close" -> close(s, k)
           /\ handed' = [handed EXCEPT ![k] =
                IF e.what = "read" /\ e.ok /\ ws.conn[k].at = "payload" /\ ws.conn[k].left = e.n
                THEN @ \o Calls([ws.conn[k] EXCEPT !.fragment = @ \o
                                    SubSeq(ws.conn[k].frame.load, Len(@) + 1, Len(@) + e.n)])
                ELSE @]
    /\ UNCHANGED <<in, got, hung, cut, clientVars>>

-----------------------------------------------------------------------------
\* The network.

Arrives(k, n) == Post([ws EXCEPT !.reads = @ \ {k}], k, Event("read", TRUE, n, NoItem))

ReadSome(k) ==
    /\ k \in ws.reads \ hung
    /\ \/ /\ ws.conn[k].at = "header" /\ in[k] # <<>>
          /\ ws' = [Arrives(k, 0) EXCEPT !.conn[k].frame = Head(in[k])]
          /\ in' = [in EXCEPT ![k] = Tail(@)]
       \/ /\ ws.conn[k].at \in {"length", "mask"}
          /\ ws' = Arrives(k, 0)
          /\ UNCHANGED in
       \/ /\ ws.conn[k].at = "payload"
          /\ \E n \in 1 .. ws.conn[k].left : ws' = Arrives(k, n)
          /\ UNCHANGED in
    /\ UNCHANGED <<got, handed, hung, cut, clientVars>>

\* One byte of the two has arrived, and the number that were read is not
\* looked at: the second is what the frame before left there.  The server is
\* out of step from here on, the first byte of this frame at first; where the
\* second has no mask bit it reads no further.
CutHeader(k) ==
    /\ "cut" \in Does[k] /\ k \in ws.reads \ hung
    /\ ws.conn[k].at = "header" /\ in[k] # <<>>
    /\ \/ /\ ws' = Post([ws EXCEPT !.reads = @ \ {k}], k, Result("read", FALSE))
          /\ UNCHANGED in
       \/ \E frames \in Misread \ {<<>>} :
            /\ Head(frames).op = Head(in[k]).op /\ Head(frames).fin = Head(in[k]).fin
            /\ ws' = [Arrives(k, 0) EXCEPT !.conn[k].frame = Head(frames)]
            /\ in' = [in EXCEPT ![k] = Tail(frames)]
    /\ cut' = cut \cup {k}
    /\ UNCHANGED <<got, handed, hung, clientVars>>

\* The client goes, or sends a frame without a mask.
Lose(k) ==
    /\ "fail" \in Does[k] /\ k \in ws.reads
    /\ ws' = Post([ws EXCEPT !.reads = @ \ {k}], k, Result("read", FALSE))
    /\ hung' = hung \cup {k}
    /\ UNCHANGED <<in, got, handed, cut, clientVars>>

\* A write to a client that is gone may still seem to succeed.
WriteEnds(k) ==
    /\ k \in ws.writes
    /\ \E ok \in {TRUE} \cup {"fail" \notin Does[k]} :
         /\ ws' = Post([ws EXCEPT !.writes = @ \ {k}], k, Result("write", ok))
         /\ hung' = IF ok THEN hung ELSE hung \cup {k}
    /\ got' = IF k \in hung' THEN got ELSE [got EXCEPT ![k] = @ \o ws.conn[k].sending]
    /\ UNCHANGED <<in, handed, cut, clientVars>>

-----------------------------------------------------------------------------
\* The clients and the application.

Spend == sends < MaxSends /\ sends' = sends + 1
Sends(k, frames) == \E f \in IF k \in cut THEN Misread ELSE {frames} : in' = [in EXCEPT ![k] = @ \o f]
Talks(k) == ws.conn[k].state = "live" /\ k \notin ended \cup hung

\* n units, the message that k sends as its next.
Load(k, n) == [i \in 1 .. n |-> <<k, Len(said[k]) + 1>>]

Say(k, n) ==
    /\ "say" \in Does[k] /\ Talks(k) /\ Spend
    /\ Sends(k, <<[op |-> "text", fin |-> TRUE, ext |-> n > 1, load |-> Load(k, n)]>>)
    /\ said' = [said EXCEPT ![k] = Append(@, Load(k, n))]
    /\ UNCHANGED <<ws, got, handed, hung, cut, ended, pieces, kicked>>

SayInPieces(k) ==
    /\ "pieces" \in Does[k] /\ Talks(k) /\ Spend
    /\ Sends(k, <<[op |-> "text", fin |-> FALSE, ext |-> FALSE, load |-> Load(k, 1)],
                  [op |-> "continuation", fin |-> TRUE, ext |-> FALSE, load |-> Load(k, 1)]>>)
    /\ said' = [said EXCEPT ![k] = Append(@, Load(k, 2))]
    /\ pieces' = pieces \cup {k}
    /\ UNCHANGED <<ws, got, handed, hung, cut, ended, kicked>>

Ping(k) ==
    /\ "ping" \in Does[k] /\ Talks(k) /\ Spend
    /\ Sends(k, <<[op |-> "ping", fin |-> TRUE, ext |-> FALSE, load |-> <<>>]>>)
    /\ UNCHANGED <<ws, got, handed, hung, cut, said, ended, pieces, kicked>>

SayClose(k) ==
    /\ "close" \in Does[k] /\ Talks(k)
    /\ Sends(k, <<[op |-> "close", fin |-> TRUE, ext |-> FALSE, load |-> <<>>]>>)
    /\ ended' = ended \cup {k}
    /\ UNCHANGED <<ws, got, handed, hung, cut, said, pieces, kicked, sends>>

\* The application closes a user.
Kick(k) ==
    /\ "kick" \in Does[k] /\ k \in ws.users /\ ~ws.conn[k].sentClose /\ Spend
    /\ ws' = Post(ws, k, Result("close", TRUE))
    /\ kicked' = kicked \cup {k}
    /\ UNCHANGED <<in, got, handed, hung, cut, said, ended, pieces>>

Server(k) == Run(k) \/ ReadSome(k) \/ WriteEnds(k)
Others(k) ==
    \/ Upgrade(k) \/ CutHeader(k) \/ Lose(k) \/ SayInPieces(k) \/ Ping(k) \/ SayClose(k) \/ Kick(k)
    \/ \E n \in Loads : Say(k, n)

WsNext == \E k \in Conns : Server(k) \/ Others(k)

\* The loops and the threads run, and a client sends what it began to send and
\* reads what it is sent: WriteEnds is its doing as much as the server's.
WsFair ==
    /\ WsInit /\ [][WsNext]_wsVars
    /\ \A k \in Conns : WF_wsVars(Run(k)) /\ WF_wsVars(ReadSome(k)) /\ WF_wsVars(WriteEnds(k))

-----------------------------------------------------------------------------
Live(k) == ws.conn[k].state = "live"

\* The closing handshake is done: each side has sent its close frame.
Shaken(k) == ws.conn[k].sentClose /\ ws.conn[k].recvClose

\* Nothing of a connection outlives it: not its pointer in users, not a pending
\* operation of its own, nor the handler of a write (websocket.h:491).  The
\* handler of a read does only where the close frame that ends the handshake
\* was handled in a read, which then begins the next (websocket.h:348-350).
\* What other threads have posted for it may, whenever it ends.
NothingDangles ==
    /\ ws.users \cup ws.reads \cup ws.writes \subseteq {k \in Conns : Live(k)}
    /\ \A k \in Conns : \A i \in DOMAIN ws.ready[k] :
         /\ ws.ready[k][i].what = "write" => Live(k)
         /\ ws.ready[k][i].what = "read" => Live(k) \/ Shaken(k)

IsPrefixOf(s, t) == Len(s) <= Len(t) /\ s = SubSeq(t, 1, Len(s))

\* The messages of a client that sends each in one frame, no header of which
\* arrives in two parts, are handed on in their order, whole and once: wherever
\* their payloads are cut, whatever frames come between, and whatever the
\* headers of the others' do (websocket.h:344, 376).
WholeMessages == \A k \in Conns \ (pieces \cup cut) : IsPrefixOf(handed[k], said[k])

\* What a client gets of another's messages is a run of those that were handed
\* on: in their order, none missing in the middle, none twice, through the two
\* buffers of do_write and the queues of the threads (websocket.h:454).
Places(k, items) == {i \in DOMAIN items : items[i].is = "message" /\ items[i].by = k}

\* The loads of seq at these places are all those from the one after a to b.
Follow(places, seq, all, a, b) ==
    \E f \in [places -> a + 1 .. b] :
        /\ \A i \in places : seq[i].load = all[f[i]]
        /\ \A i, j \in places : i < j => f[i] < f[j]
        /\ \A n \in a + 1 .. b : \E i \in places : f[i] = n

InOrder ==
    \A k, r \in Conns : \E a, b \in 0 .. Len(handed[k]) :
        Follow(Places(k, got[r]), got[r], handed[k], a, b)

GotClose(k) == \E i \in DOMAIN got[k] : got[k][i].is = "close"

\* A payload that arrives in two reads is never read to its end (websocket.h:346).
Stalled(k) == ws.conn[k].at = "payload" /\ ws.conn[k].left > 0

\* A client that closes gets a close frame in the end, unless it is gone, the
\* application was closing it too, the server waits for the rest of a payload,
\* or is out of step with it since a header arrived in two parts (websocket.h:421).
CloseAnswered ==
    \A k \in Conns : []<>(k \in ended => GotClose(k) \/ k \in hung \cup kicked \cup cut \/ Stalled(k))

=============================================================================
