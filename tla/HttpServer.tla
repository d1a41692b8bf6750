----------------------------- MODULE HttpServer -----------------------------
(***************************************************************************)
(* The HTTP server of the proxy: the thread that accepts links, reads      *)
(* requests and sends answers (HttpThread, CHttpServer, CHttpLink over     *)
(* CTcpConnectionManager), and the Receiver task, in a thread of its own,  *)
(* that puts the answer to a request on its link (Receiver::procMsg,       *)
(* CHttpServer::send).  The two threads share the CSendStream of a link    *)
(* without a lock.                                                         *)
(*                                                                         *)
(* A request is whole and small here: HttpParse has the pieces.  An answer *)
(* is a number of parts of at most SOCKET_CODE_MAXLENGTH bytes, named by   *)
(* the number of the answer on its link and its place; pos and len count   *)
(* parts.  Of a CSocket this much is kept, see SocketStream: what it       *)
(* accepts goes out in order, and once unless kept bytes go out again.     *)
(* The application that answers, in the order of the requests, is          *)
(* external.                                                               *)
(***************************************************************************)
EXTENDS Integers, Sequences, FiniteSets, SequencesExt

CONSTANTS Link,         \* clients, and the link ids they get when accepted
          MaxParts,     \* bound: parts of an answer to each client
          MaxRequests,  \* bound: requests of each client
          Kept          \* parts the send buffer of a CSocket takes at most

ASSUME PartsAssumption ==
    /\ MaxParts \in [Link -> Nat \ {0}]
    /\ MaxRequests \in [Link -> Nat]
    /\ Kept \in Nat \ {0}

NoLink == 0
NULL == 0
ASSUME LinkAssumption == NoLink \notin Link

VARIABLES
    client,     \* of each client: "new", "waiting", "open", "gone"; its end
    inbox,      \* requests sent and not read
    links,      \* mConnections, in the order of acceptance
    stream,     \* sendStream of each link: content (NULL or answer), pos, len
    kept,       \* parts in the send buffer of the link's socket
    out,        \* parts that went out to the client
    posted,     \* links whose requests were posted and not answered
    handed,     \* history: parts given to the socket of each link
    sizes,      \* history: parts of each answer given to a link
    asked,      \* history: requests of each client
    early,      \* history: clients that asked again before the answer was there
    lost,       \* history: links where sendCode did not accept a part
    repeated,   \* history: links where bytes that were kept went out again
    thread,     \* the HTTP thread: at, the link, fdSet, links to process
    receiver    \* the Receiver: at, the link and the answer to send

vars == <<client, inbox, links, stream, kept, out, posted, handed, sizes, asked, early,
          lost, repeated, thread, receiver>>
histories == <<handed, sizes, asked, early, lost, repeated>>

NoStream == [content |-> NULL, pos |-> 0, len |-> 0]

Init ==
    /\ client = [l \in Link |-> "new"]
    /\ inbox = [l \in Link |-> 0]
    /\ links = <<>>
    /\ stream = [l \in Link |-> NoStream]
    /\ kept = [l \in Link |-> <<>>] /\ out = [l \in Link |-> <<>>]
    /\ posted = <<>>
    /\ handed = [l \in Link |-> <<>>] /\ sizes = [l \in Link |-> <<>>]
    /\ asked = [l \in Link |-> 0]
    /\ early = {} /\ lost = {} /\ repeated = {}
    /\ thread = [at |-> "prepare", accept |-> FALSE, read |-> {}, write |-> {}, todo |-> <<>>]
    /\ receiver = [at |-> "idle", link |-> NoLink]

\* The parts of the answers given to a link so far.
Parts(l) == FlattenSeq([i \in DOMAIN sizes[l] |-> [j \in 1 .. sizes[l][i] |-> <<i, j>>]])

\* All requests of a client are answered, and it has it all, once.
Served(l) ==
    /\ Len(sizes[l]) = asked[l]
    /\ out[l] = Parts(l) /\ l \notin lost \cup repeated

-----------------------------------------------------------------------------
(* The clients.                                                            *)

Connect(l) ==
    /\ client[l] = "new"
    /\ client' = [client EXCEPT ![l] = "waiting"]
    /\ UNCHANGED <<inbox, links, stream, kept, out, posted, histories, thread, receiver>>

\* A client may wait for the whole answer or not.
Ask(l) ==
    /\ client[l] \in {"waiting", "open"}
    /\ asked[l] < MaxRequests[l]
    /\ asked' = [asked EXCEPT ![l] = @ + 1]
    /\ inbox' = [inbox EXCEPT ![l] = @ + 1]
    /\ early' = IF Served(l) THEN early ELSE early \cup {l}
    /\ UNCHANGED <<client, links, stream, kept, out, posted, handed, sizes, lost, repeated,
                   thread, receiver>>

HangUp(l) ==
    /\ client[l] = "open"
    /\ client' = [client EXCEPT ![l] = "gone"]
    /\ UNCHANGED <<inbox, links, stream, kept, out, posted, histories, thread, receiver>>

-----------------------------------------------------------------------------
(* The Receiver task: one answer at a time.                                *)

\* findByLinkId: a link that is gone gets no answer.  The walk through the
\* links is one step here; nothing locks them, and a walk that meets the
\* HTTP thread in the middle of a change of the list is not followed.
Answer ==
    /\ receiver.at = "idle"
    /\ posted # <<>>
    /\ posted' = Tail(posted)
    /\ LET l == Head(posted)
       IN  \/ /\ l \in ToSet(links)
              /\ receiver' = [at |-> "len", link |-> l]
              /\ \E n \in 1 .. MaxParts[l] : sizes' = [sizes EXCEPT ![l] = Append(@, n)]
           \/ /\ l \notin ToSet(links)
              /\ UNCHANGED <<receiver, sizes>>
    /\ UNCHANGED <<client, inbox, links, stream, kept, out, handed, asked, early, lost,
                   repeated, thread>>

\* steal(): the length is stored first.  The memory of a link that was
\* deleted meanwhile is not followed.
SetLen ==
    /\ receiver.at = "len"
    /\ stream' = [stream EXCEPT ![receiver.link].len = Last(sizes[receiver.link])]
    /\ receiver' = [receiver EXCEPT !.at = "content"]
    /\ UNCHANGED <<client, inbox, links, kept, out, posted, histories, thread>>

\* Then the content; pos is not touched.
SetContent ==
    /\ receiver.at = "content"
    /\ stream' = [stream EXCEPT ![receiver.link].content = Len(sizes[receiver.link])]
    /\ receiver' = [at |-> "idle", link |-> NoLink]
    /\ UNCHANGED <<client, inbox, links, kept, out, posted, histories, thread>>

Receiver == Answer \/ SetLen \/ SetContent

-----------------------------------------------------------------------------
(* The HTTP thread: process() of HttpThread, check() of CHttpServer.       *)

\* Variant with a fault: the last part is not waited for.
needSend_ButLast(l) == stream[l].content # NULL /\ stream[l].pos + 1 < stream[l].len

needSend(l) == stream[l].content # NULL /\ stream[l].pos < stream[l].len

\* The links to ask select() for.
prepareFdSet ==
    /\ thread.at = "prepare"
    /\ thread' = [thread EXCEPT !.at = "select",
                                !.write = {l \in ToSet(links) : needSend(l)}]
    /\ UNCHANGED <<client, inbox, links, stream, kept, out, posted, histories, receiver>>

\* select(): a link is ready to read with a request or at its end; it may
\* be ready to write.
Select ==
    /\ thread.at = "select"
    /\ \E ready \in SUBSET thread.write :
           thread' = [at     |-> "accept",
                      accept |-> \E l \in Link : client[l] = "waiting",
                      read   |-> {l \in ToSet(links) : inbox[l] > 0 \/ client[l] = "gone"},
                      write  |-> ready,
                      todo   |-> <<>>]
    /\ UNCHANGED <<client, inbox, links, stream, kept, out, posted, histories, receiver>>

\* procFdSet goes to the next of the links; after the last the thread
\* starts over.
GoTo(todo, read, write) ==
    IF todo = <<>>
    THEN [at |-> "prepare", accept |-> FALSE, read |-> {}, write |-> {}, todo |-> <<>>]
    ELSE [at |-> IF Head(todo) \in write THEN "send" ELSE "recv", accept |-> FALSE,
          read |-> read, write |-> write, todo |-> todo]

\* One connection is accepted in a round; then each link in turn.
Accept ==
    /\ thread.at = "accept"
    /\ \/ \E l \in Link :
              /\ thread.accept /\ client[l] = "waiting"
              /\ client' = [client EXCEPT ![l] = "open"]
              /\ links' = Append(links, l)
       \/ /\ ~thread.accept
          /\ UNCHANGED <<client, links>>
    /\ thread' = GoTo(links', thread.read, thread.write)
    /\ UNCHANGED <<inbox, stream, kept, out, posted, histories, receiver>>

\* The link in hand.
Current == Head(thread.todo)

\* processSend: nothing there; everything sent; or the next part.
processSend ==
    /\ thread.at = "send"
    /\ LET s == stream[Current]
       IN  thread' = [thread EXCEPT !.at = IF s.content = NULL THEN "recv"
                                           ELSE IF s.pos >= s.len THEN "delete" ELSE "part"]
    /\ UNCHANGED <<client, inbox, links, stream, kept, out, posted, histories, receiver>>

\* Variant with a fault: what is kept does not go first.
sendCode_Ahead(l, part) ==
    /\ \/ /\ out' = [out EXCEPT ![l] = Append(@, part)]
          /\ UNCHANGED kept
       \/ /\ Len(kept[l]) < Kept
          /\ kept' = [kept EXCEPT ![l] = Append(@, part)]
          /\ UNCHANGED out
    /\ UNCHANGED <<lost, repeated>>

\* sendCode: first what is kept, n parts of it; then the part, which goes
\* out when nothing is left, is kept when there is room, or is not accepted:
\* parts differ in size, and Kept is the most that fit.  When what is kept
\* goes over the end of the ring and the second of the two send() blocks,
\* the bytes of the first stay in the buffer and go out again: that may
\* happen to any kept bytes here, to less than a part when n is 0.
sendCode(l, part) ==
    \E n \in 0 .. Len(kept[l]), again \in BOOLEAN :
        LET flushed == out[l] \o SubSeq(kept[l], 1, n)
            left == IF again THEN kept[l] ELSE SubSeq(kept[l], n + 1, Len(kept[l]))
        IN  /\ again => n < Len(kept[l])
            /\ repeated' = IF again THEN repeated \cup {l} ELSE repeated
            /\ \/ /\ left = <<>>
                  /\ out' = [out EXCEPT ![l] = Append(flushed, part)]
                  /\ kept' = [kept EXCEPT ![l] = left]
                  /\ UNCHANGED lost
               \/ /\ Len(left) < Kept
                  /\ out' = [out EXCEPT ![l] = flushed]
                  /\ kept' = [kept EXCEPT ![l] = Append(left, part)]
                  /\ UNCHANGED lost
               \/ /\ left # <<>> \/ client[l] = "gone"
                  /\ out' = [out EXCEPT ![l] = flushed]
                  /\ kept' = [kept EXCEPT ![l] = left]
                  /\ lost' = lost \cup {l}

\* The result of sendCode is not looked at.
SendPart ==
    /\ thread.at = "part"
    /\ LET part == <<stream[Current].content, stream[Current].pos + 1>>
       IN  /\ sendCode(Current, part)
           /\ handed' = [handed EXCEPT ![Current] = Append(@, part)]
    /\ stream' = [stream EXCEPT ![Current].pos = @ + 1]
    /\ thread' = [thread EXCEPT !.at = IF stream[Current].pos + 1 >= stream[Current].len
                                       THEN "delete" ELSE "recv"]
    /\ UNCHANGED <<client, inbox, links, posted, sizes, asked, early, receiver>>

\* Variant with a fault: pos stays.
clear_NoPos ==
    \/ /\ thread.at = "delete"
       /\ stream' = [stream EXCEPT ![Current].content = NULL]
       /\ thread' = [thread EXCEPT !.at = "len"]
       /\ UNCHANGED <<client, inbox, links, kept, out, posted, histories, receiver>>
    \/ /\ thread.at = "len"
       /\ stream' = [stream EXCEPT ![Current].len = 0]
       /\ thread' = [thread EXCEPT !.at = "recv"]
       /\ UNCHANGED <<client, inbox, links, kept, out, posted, histories, receiver>>

\* clear(): three assignments, with the Receiver between them.
clear ==
    /\ \/ /\ thread.at = "delete"
          /\ stream' = [stream EXCEPT ![Current].content = NULL]
          /\ thread' = [thread EXCEPT !.at = "pos"]
       \/ /\ thread.at = "pos"
          /\ stream' = [stream EXCEPT ![Current].pos = 0]
          /\ thread' = [thread EXCEPT !.at = "len"]
       \/ /\ thread.at = "len"
          /\ stream' = [stream EXCEPT ![Current].len = 0]
          /\ thread' = [thread EXCEPT !.at = "recv"]
    /\ UNCHANGED <<client, inbox, links, kept, out, posted, histories, receiver>>

\* processRecv: one piece is read, with all requests that have arrived or
\* fewer; the first is posted, the rest of the piece is dropped.  A read of
\* nothing closes the link and deletes it.
processRecv ==
    /\ thread.at = "recv"
    /\ \/ /\ Current \in thread.read /\ inbox[Current] > 0
          /\ \E n \in 1 .. inbox[Current] : inbox' = [inbox EXCEPT ![Current] = @ - n]
          /\ posted' = Append(posted, Current)
          /\ UNCHANGED links
       \/ /\ Current \in thread.read /\ inbox[Current] = 0
          /\ \E i \in DOMAIN links : links[i] = Current /\ links' = RemoveAt(links, i)
          /\ UNCHANGED <<inbox, posted>>
       \/ /\ Current \notin thread.read
          /\ UNCHANGED <<inbox, posted, links>>
    /\ thread' = GoTo(Tail(thread.todo), thread.read, thread.write)
    /\ UNCHANGED <<client, stream, kept, out, histories, receiver>>

HttpThread ==
    \/ prepareFdSet \/ Select \/ Accept
    \/ processSend \/ SendPart \/ clear \/ processRecv

Next ==
    \/ \E l \in Link : Connect(l) \/ Ask(l) \/ HangUp(l)
    \/ Receiver
    \/ HttpThread

\* Both threads go on; a link that is asked for again and again is ready to
\* write in the end, since its client reads.
Fairness ==
    /\ WF_vars(Receiver)
    /\ WF_vars(HttpThread)
    /\ \A l \in Link : SF_vars(Select /\ l \in thread'.write)

Spec == Init /\ [][Next]_vars
FairSpec == Spec /\ Fairness

-----------------------------------------------------------------------------
(* Properties.                                                             *)

\* The socket of a client that asks again only when its answer is there is
\* given the parts of its answers in order, each once and none left out,
\* although the Receiver fills the send stream of the link while the HTTP
\* thread empties and clears it; also when the socket did not accept a part
\* or sent bytes again (send, processSend, clear).
AnswersHanded == \A l \in Link \ early : IsPrefix(handed[l], Parts(l))

\* And such a client gets its own answers, whole, in order and once, unless
\* its socket did not accept a part, which processSend does not look at, or
\* sent kept bytes again, which the accepted parts do not show (sendCode,
\* readFromBuffer).
AnswersWhole ==
    /\ AnswersHanded
    /\ \A l \in Link \ (early \cup lost \cup repeated) :
           IsPrefix(out[l] \o kept[l], Parts(l))

\* An answer to such a client that its thread has not yet given to the
\* socket.
Pending(l) == client[l] = "open" /\ l \notin early /\ handed[l] # Parts(l)

\* Every answer put on a link is handed to its socket in the end, though
\* nothing wakes the HTTP thread when it is put there (needSend, check).
AnswerLeaves == \A l \in Link : Pending(l) ~> ~Pending(l)
=============================================================================
