------------------------------ MODULE LiveFeed ------------------------------
(***************************************************************************)
(* How a web page follows a service: the service's live socket             *)
(* (src/*/ipc/server.py), the client in pci.web that reads it and fills    *)
(* one bounded queue per page (src/*/ipc/client.py), and the websocket     *)
(* that empties the queue (src/web/api/ws/live.py).                        *)
(*                                                                         *)
(* There are three kinds of service.  "queued" (ug405, rtig, autodim and   *)
(* offline share the code): events are queued, a loop sends them and a     *)
(* snapshot every second, a new client is greeted with a snapshot.         *)
(* "kernel" (mova): the loop compares snapshots and sends what changed,    *)
(* and all of it once a second.  "direct" (agd and flir): a detector's     *)
(* thread sends its events itself, under the lock of the loop that sends   *)
(* the snapshots.  What a page shows is one value here.                    *)
(***************************************************************************)
EXTENDS Naturals, Sequences

CONSTANTS
  MaxEvents,  \* events queued at one time
  MaxSocket,  \* lines in the socket; a full one blocks sendall
  MaxPage     \* maxsize of a page's queue (512, 64)

VARIABLES
  kind,       \* of the service
  value,      \* what the service has to show
  posted,     \* _event_q
  calling,    \* "direct": the event a detector's thread is sending, or None
  taken,      \* the loop's snapshot, or None
  shadow,     \* "kernel": the prev_* of the loop, or None
  greeting,   \* the accept thread's snapshot, Due when it is to be taken, or None
  accepted,   \* the web's connection is in _clients
  socket,     \* lines on their way to pci.web
  reading,    \* the client reads from a connection
  subscribed, \* the page's queue is in _subs
  page,       \* the page's queue
  open,       \* the websocket is open
  shown       \* what the page shows, or None

server == <<kind, value, posted, calling, taken, shadow, greeting>>
wire   == <<accepted, socket, reading>>
web    == <<subscribed, page, open, shown>>
vars   == <<server, wire, web>>

Values == {0, 1}
None == 2
Due == 3
-----------------------------------------------------------------------------
Init ==
  /\ kind \in {"queued", "kernel", "direct"}
  /\ value = 0 /\ posted = << >> /\ calling = None /\ taken = None /\ shadow = None
  /\ greeting = None /\ accepted = FALSE /\ socket = << >> /\ reading = FALSE
  /\ subscribed = FALSE /\ page = << >> /\ open = FALSE /\ shown = None

\* _push_to_all, _broadcast: blocks while the client does not read.
Send(v) ==
  IF accepted THEN Len(socket) < MaxSocket /\ socket' = Append(socket, v)
  ELSE UNCHANGED socket

\* What the service shows changes, and it tells: push_event.
Change ==
  /\ value' = 1 - value
  /\ CASE kind = "queued" -> /\ Len(posted) < MaxEvents
                             /\ posted' = Append(posted, value')
                             /\ UNCHANGED calling
       [] kind = "direct" -> calling = None /\ calling' = value' /\ UNCHANGED posted
       [] OTHER           -> UNCHANGED <<posted, calling>>
  /\ UNCHANGED <<kind, taken, shadow, greeting, wire, web>>

\* "direct": the detector's thread gets through.
SendEvent ==
  /\ calling # None
  /\ Send(calling)
  /\ calling' = None
  /\ UNCHANGED <<kind, value, posted, taken, shadow, greeting, accepted, reading, web>>

\* The loop drains the queue ...
Drain ==
  /\ taken = None /\ posted # << >>
  /\ Send(Head(posted))
  /\ posted' = Tail(posted)
  /\ UNCHANGED <<kind, value, calling, taken, shadow, greeting, accepted, reading, web>>

\* ... and takes a snapshot.
Take ==
  /\ taken = None /\ posted = << >>
  /\ taken' = value
  /\ UNCHANGED <<kind, value, posted, calling, shadow, greeting, wire, web>>

\* "queued" and "direct" send it.
SendSnap ==
  /\ kind # "kernel" /\ taken # None
  /\ Send(taken)
  /\ taken' = None
  /\ UNCHANGED <<kind, value, posted, calling, shadow, greeting, accepted, reading, web>>

\* "kernel" sends what has changed since the last loop ...
SendChange ==
  /\ kind = "kernel" /\ taken # None
  /\ IF shadow \notin {None, taken} THEN Send(taken) ELSE UNCHANGED socket
  /\ shadow' = taken
  /\ taken' = None
  /\ UNCHANGED <<kind, value, posted, calling, greeting, accepted, reading, web>>

\* Faulty variant of SendAll: what has not changed is not repeated.
SendAllChanged ==
  /\ kind = "kernel" /\ taken # None
  /\ IF shadow # taken THEN Send(taken) ELSE UNCHANGED socket
  /\ shadow' = taken
  /\ taken' = None
  /\ UNCHANGED <<kind, value, posted, calling, greeting, accepted, reading, web>>

\* ... and in every twentieth loop all of it.
SendAll ==
  /\ kind = "kernel" /\ taken # None
  /\ Send(taken)
  /\ shadow' = taken
  /\ taken' = None
  /\ UNCHANGED <<kind, value, posted, calling, greeting, accepted, reading, web>>

-----------------------------------------------------------------------------
(* The client in pci.web *)

Connect ==
  /\ ~reading
  /\ reading' = TRUE /\ accepted' = TRUE /\ socket' = << >>
  /\ greeting' = IF kind = "queued" THEN Due ELSE None
  /\ UNCHANGED <<kind, value, posted, calling, taken, shadow, web>>

Greet ==
  \/ /\ greeting = Due
     /\ greeting' \in {value, None}
     /\ UNCHANGED <<kind, value, posted, calling, taken, shadow, wire, web>>
  \/ /\ greeting \in Values
     /\ Send(greeting)
     /\ greeting' = None
     /\ UNCHANGED <<kind, value, posted, calling, taken, shadow, accepted, reading, web>>

\* A page with room in its queue is told.
Deliver ==
  /\ reading /\ socket # << >>
  /\ subscribed => Len(page) < MaxPage
  /\ page' = IF subscribed THEN Append(page, Head(socket)) ELSE page
  /\ socket' = Tail(socket)
  /\ UNCHANGED <<server, accepted, reading, subscribed, open, shown>>

\* Faulty variant of Skip: the line is kept for when there is room.
SkipWaits ==
  /\ kind = "direct" /\ reading /\ socket # << >>
  /\ subscribed /\ Len(page) = MaxPage
  /\ UNCHANGED vars

\* agd, flir: a page without room misses a line.
Skip ==
  /\ kind = "direct" /\ reading /\ socket # << >>
  /\ subscribed /\ Len(page) = MaxPage
  /\ socket' = Tail(socket)
  /\ UNCHANGED <<server, accepted, reading, web>>

\* The other clients: it is taken off the list, which nobody tells it.
DropSlow ==
  /\ kind # "direct" /\ reading /\ socket # << >>
  /\ subscribed /\ Len(page) = MaxPage
  /\ subscribed' = FALSE
  /\ socket' = Tail(socket)
  /\ UNCHANGED <<server, accepted, reading, page, open, shown>>

\* The service is gone and everything has been read.
EndOfFile ==
  /\ reading /\ ~accepted /\ socket = << >>
  /\ reading' = FALSE
  /\ UNCHANGED <<server, accepted, socket, web>>

\* The service is started again.
Restart ==
  /\ value' \in Values
  /\ posted' = << >> /\ calling' = None /\ taken' = None /\ shadow' = None /\ greeting' = None
  /\ accepted' = FALSE
  /\ UNCHANGED <<kind, socket, reading, web>>

-----------------------------------------------------------------------------
(* The page: _pump *)

Open ==
  /\ ~open
  /\ open' = TRUE /\ subscribed' = TRUE /\ page' = << >> /\ shown' = None
  /\ UNCHANGED <<server, wire>>

\* "direct": the client has queued the line as it came, _pump encodes it a second
\* time, and the page, which decodes once, finds nothing in it to show.
Show ==
  /\ open /\ page # << >>
  /\ shown' = IF kind = "direct" THEN shown ELSE Head(page)
  /\ page' = Tail(page)
  /\ UNCHANGED <<server, wire, subscribed, open>>

Leave ==
  /\ open
  /\ open' = FALSE /\ subscribed' = FALSE /\ page' = << >> /\ shown' = None
  /\ UNCHANGED <<server, wire>>

-----------------------------------------------------------------------------
Loop == Drain \/ Take \/ SendSnap \/ SendChange \/ SendAll

Client == Connect \/ Deliver \/ Skip \/ DropSlow \/ EndOfFile

Next == Change \/ SendEvent \/ Loop \/ Client \/ Greet \/ Restart \/ Open \/ Show \/ Leave

Spec == Init /\ [][Next]_vars
-----------------------------------------------------------------------------
\* Every variable has its type.
TypeOK ==
  /\ kind \in {"queued", "kernel", "direct"} /\ value \in Values
  /\ posted \in Seq(Values) /\ Len(posted) <= MaxEvents
  /\ calling \in Values \cup {None} /\ taken \in Values \cup {None}
  /\ shadow \in Values \cup {None} /\ greeting \in Values \cup {None, Due}
  /\ accepted \in BOOLEAN /\ reading \in BOOLEAN /\ subscribed \in BOOLEAN /\ open \in BOOLEAN
  /\ socket \in Seq(Values) /\ Len(socket) <= MaxSocket
  /\ page \in Seq(Values) /\ Len(page) <= MaxPage
  /\ shown \in Values \cup {None}

\* A page of a service that is not "direct" (those pages show nothing, see Show),
\* that stays open, reads and is not dropped as slow ends up with what the
\* service shows, when that rests: whatever events, snapshots and greetings
\* overtake each other, and whatever is skipped (_push_loop, _connect_and_read,
\* _pump).
PageFollows ==
  \/ kind = "direct"
  \/ []<>~open \/ []<>~subscribed \/ <>[](page # << >>)
  \/ []<><<Restart>>_vars \/ []<><<Change>>_vars
  \/ <>[](shown = value)

\* A page that is not read never holds up a detector's thread (push_event of
\* agd and flir sends with the service's own thread).
NeverHeldUp == []<>(calling = None)
=============================================================================
