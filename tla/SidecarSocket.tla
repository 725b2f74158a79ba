---------------------------- MODULE SidecarSocket ----------------------------
(***************************************************************************)
(* The road of one question from the decision pipeline to the sidecar and  *)
(* of its answer back: the fabric gate, the client that holds one          *)
(* connection for all questions, the socket, and the server's framing.     *)
(*                                                                         *)
(*   v2/fabric.ts          createFabricGate, fabricDenial,                 *)
(*                         SidecarFabricDecider                            *)
(*   v2/sidecar-server.ts  startSidecarServer, FrameDecoder,               *)
(*                         connectSidecar                                  *)
(*                                                                         *)
(* An answer carries the id of the request it answers, and the client does *)
(* not look at it: whoever waits takes the next line.  Lines written at    *)
(* once may be read as one chunk; a line split between chunks is left out. *)
(* The server intercepts calls concurrently over the one client.           *)
(***************************************************************************)
EXTENDS Naturals, Sequences, SequencesExt, FiniteSets

CONSTANTS
    Asks,           \* questions: intercepted calls, each with its request id
    Allowed,        \* those the sidecar would allow
    Sockets,        \* connections the client may open, a bound of the model
    Nothing,        \* no connection, no answer
    Transport,      \* the denial without a request id sent on overflow
    Mode,           \* FABRIC_MODES
    OnExisting,     \* SocketPathPolicy.onExisting
    Size,           \* the length of each request
    MaxFrame,       \* MAX_FRAME_BYTES
    MaxDeaths       \* bound of the model

VARIABLES
    ask,        \* each question: where its check is, over which socket, the answer
    client,     \* SidecarFabricDecider.#client
    dialling,   \* #connecting: the socket being connected
    socket,     \* each socket: state, waiting senders, lines on their way, and (history)
                \* whether a question was ever sent over it while another waited
    server,     \* the server process: listening or not, its socket file
    deaths

vars == <<ask, client, dialling, socket, server, deaths>>

Unsettled == {"connect", "issue", "sent"}

SocketTypeOK ==
    /\ ask \in [Asks -> [pc : {"new", "answered", "unavailable"} \cup Unsettled,
                         via : Sockets \cup {Nothing},
                         answer : Asks \cup {Nothing, Transport}]]
    /\ client \in Sockets \cup {Nothing}
    /\ dialling \in Sockets \cup {Nothing}
    /\ socket \in [Sockets -> [state : {"unused", "open", "ended", "closed"},
                               waiting : SUBSET Asks, out : Seq(Asks),
                               back : Seq(Asks \cup {Transport}), shared : BOOLEAN]]
    /\ server \in [listening : BOOLEAN, file : BOOLEAN]
    /\ deaths \in 0..MaxDeaths

Unused == [state |-> "unused", waiting |-> {}, out |-> <<>>, back |-> <<>>, shared |-> FALSE]

Init ==
    /\ ask = [a \in Asks |-> [pc |-> "new", via |-> Nothing, answer |-> Nothing]]
    /\ client = Nothing /\ dialling = Nothing
    /\ socket = [k \in Sockets |-> Unused]
    /\ server \in [listening : {FALSE}, file : BOOLEAN]
    /\ deaths = 0

-----------------------------------------------------------------------------
(* The decider *)

Evaluates == Mode # "v1_compat"

Goto(a, pc) == ask' = [ask EXCEPT ![a].pc = pc]

(* FabricGate.evaluate, check, #connect: one attempt serves all who ask. *)
Check(a) ==
    /\ Evaluates
    /\ ask[a].pc = "new"
    /\ IF client # Nothing
       THEN /\ ask' = [ask EXCEPT ![a].pc = "issue", ![a].via = client]
            /\ UNCHANGED dialling
       ELSE /\ Goto(a, "connect")
            /\ IF dialling # Nothing THEN UNCHANGED dialling
               ELSE \E k \in Sockets : socket[k].state = "unused" /\ dialling' = k
    /\ UNCHANGED <<client, socket, server, deaths>>

Connected ==
    /\ dialling # Nothing
    /\ server.listening
    /\ client' = dialling /\ dialling' = Nothing
    /\ socket' = [socket EXCEPT ![dialling].state = "open"]
    /\ ask' = [a \in Asks |-> IF ask[a].pc = "connect"
                              THEN [ask[a] EXCEPT !.pc = "issue", !.via = dialling]
                              ELSE ask[a]]
    /\ UNCHANGED <<server, deaths>>

(* Refused, or timed out: every check that waited throws. *)
ConnectFails ==
    /\ dialling # Nothing
    /\ dialling' = Nothing
    /\ ask' = [a \in Asks |-> IF ask[a].pc = "connect"
                              THEN [ask[a] EXCEPT !.pc = "unavailable"] ELSE ask[a]]
    /\ UNCHANGED <<client, socket, server, deaths>>

(* issueIdentity is awaited before send is called, on the socket taken then. *)
Send(a) ==
    /\ ask[a].pc = "issue"
    /\ Goto(a, "sent")
    /\ LET k == ask[a].via
       IN  socket' = IF socket[k].state = "closed" THEN socket
                     ELSE [socket EXCEPT ![k].waiting = @ \cup {a},
                                         ![k].out = Append(@, a),
                                         ![k].shared = @ \/ socket[k].waiting # {}]
    /\ UNCHANGED <<client, dialling, server, deaths>>

Closed(k) ==
    [socket EXCEPT ![k] = [state |-> "closed", waiting |-> {}, out |-> <<>>, back |-> <<>>,
                           shared |-> socket[k].shared]]

(* The catch of check: the client is forgotten, whichever it is by now. *)
GiveUp(a) ==
    /\ Goto(a, "unavailable")
    /\ client' = Nothing
    /\ socket' = Closed(ask[a].via)
    /\ UNCHANGED <<dialling, server, deaths>>

IssueFails(a) == ask[a].pc = "issue" /\ GiveUp(a)

(* Faulty: a timeout that leaves the connection for the next question. *)
TimeoutKeeping(a) ==
    /\ ask[a].pc = "sent"
    /\ Goto(a, "unavailable")
    /\ socket' = [socket EXCEPT ![ask[a].via].waiting = @ \ {a}]
    /\ UNCHANGED <<client, dialling, server, deaths>>

(* The timer of send destroys the socket, whoever else waits on it. *)
Timeout(a) == ask[a].pc = "sent" /\ GiveUp(a)

(* A chunk of n lines: everyone waiting takes the first, nobody the rest. *)
Deliver(k, n) ==
    /\ socket[k].state \in {"open", "ended"}
    /\ n \in 1..Len(socket[k].back)
    /\ ask' = [a \in Asks |-> IF a \in socket[k].waiting
                              THEN [ask[a] EXCEPT !.pc = "answered",
                                                  !.answer = socket[k].back[1]]
                              ELSE ask[a]]
    /\ socket' = [socket EXCEPT ![k].waiting = {},
                                ![k].back = SubSeq(@, n + 1, Len(@))]
    /\ UNCHANGED <<client, dialling, server, deaths>>

(* The server ended the connection and all it wrote is read: no event here *)
(* rejects a send.                                                         *)
PeerEnded(k) ==
    /\ socket[k].state = "ended" /\ socket[k].back = <<>>
    /\ socket' = Closed(k)
    /\ UNCHANGED <<ask, client, dialling, server, deaths>>

-----------------------------------------------------------------------------
(* The server *)

TotalSize(s) == FoldLeft(LAMBDA sum, a : sum + Size[a], 0, s)

(* A chunk of n requests.  The limit applies to the whole chunk, before it *)
(* is split into frames.                                                   *)
Read(k, n) ==
    /\ socket[k].state = "open"
    /\ n \in 1..Len(socket[k].out)
    /\ LET chunk == SubSeq(socket[k].out, 1, n)
           rest  == SubSeq(socket[k].out, n + 1, Len(socket[k].out))
       IN  socket' = IF TotalSize(chunk) > MaxFrame
                     THEN [socket EXCEPT ![k].state = "ended", ![k].out = <<>>,
                                         ![k].back = Append(@, Transport)]
                     ELSE [socket EXCEPT ![k].out = rest, ![k].back = @ \o chunk]
    /\ UNCHANGED <<ask, client, dialling, server, deaths>>

Serve ==
    /\ ~server.listening
    /\ server.file => OnExisting # "refuse"
    /\ server' = [listening |-> TRUE, file |-> TRUE]
    /\ UNCHANGED <<ask, client, dialling, socket, deaths>>

(* close stops listening; connections go on until their clients leave. *)
Close ==
    /\ server.listening
    /\ deaths < MaxDeaths /\ deaths' = deaths + 1
    /\ server' = [listening |-> FALSE, file |-> FALSE]
    /\ UNCHANGED <<ask, client, dialling, socket>>

(* A crash leaves the file.  A reset rejects the sends that wait, a plain  *)
(* end of the stream does not.                                             *)
Die(reset) ==
    /\ server.listening
    /\ deaths < MaxDeaths /\ deaths' = deaths + 1
    /\ server' = [server EXCEPT !.listening = FALSE]
    /\ LET torn == {k \in Sockets : socket[k].state = "open"}
           hit  == {a \in Asks : reset /\ \E k \in torn : a \in socket[k].waiting}
       IN  /\ socket' = [k \in Sockets |->
                            IF k \in torn THEN Closed(k)[k] ELSE socket[k]]
           /\ ask' = [a \in Asks |->
                        IF a \in hit THEN [ask[a] EXCEPT !.pc = "unavailable"] ELSE ask[a]]
           /\ client' = IF hit # {} THEN Nothing ELSE client
    /\ UNCHANGED dialling

Next ==
    \/ \E a \in Asks : Check(a) \/ Send(a) \/ IssueFails(a) \/ Timeout(a)
    \/ Connected \/ ConnectFails
    \/ \E k \in Sockets : PeerEnded(k)
    \/ \E k \in Sockets, n \in 1..Cardinality(Asks) : Deliver(k, n) \/ Read(k, n)
    \/ Serve \/ Close
    \/ \E reset \in BOOLEAN : Die(reset)

Spec == Init /\ [][Next]_vars

-----------------------------------------------------------------------------
(* Properties *)

(* fabricDenial: only v2_enforce denies, on a denial and on no answer. *)
FabricDenies(a) ==
    /\ Mode = "v2_enforce"
    /\ \/ ask[a].pc = "unavailable"
       \/ ask[a].pc = "answered" /\ ask[a].answer \notin Allowed

Settled(a) == ask[a].pc \in {"answered", "unavailable"}

(* sidecar-server.ts "One request, one response, over a real socket": with *)
(* the fabric enforced, a call gets past the gate only if the sidecar      *)
(* allowed that very request, whatever timed out, reconnected or arrived   *)
(* late before it.  Calls that overlap on the connection make this false.  *)
OnlyAllowedProceed ==
    \A a \in Asks :
        /\ ask[a].pc = "answered" => ask[a].answer \in {a, Transport}
        /\ Settled(a) /\ ~FabricDenies(a) => Mode # "v2_enforce" \/ a \in Allowed

(* What send and the timeouts that destroy the connection do ensure, for   *)
(* calls intercepted concurrently: an answer is an error or answers what   *)
(* was asked over the same connection, and the very question if no two had *)
(* ever waited there at once when it came; so a call the sidecar would     *)
(* deny passes the gate only on a connection that two had shared.          *)
AnswersStayOnTheirConnection ==
    \A a \in Asks :
        /\ ask[a].pc = "answered" /\ ask[a].answer # Transport =>
              /\ ask[ask[a].answer].via = ask[a].via
              /\ ask[a].answer = a \/ socket[ask[a].via].shared
        /\ Settled(a) /\ ~FabricDenies(a)
              => Mode # "v2_enforce" \/ a \in Allowed \/ socket[ask[a].via].shared
=============================================================================
