------------------------------ MODULE Handshake ----------------------------
(***************************************************************************)
(* The opening of a transfer: dial_streams on one side, accept_streams on  *)
(* the other.  The dialer connects stream after stream and says on each    *)
(* which it is; the accepter takes connections as the kernel hands them    *)
(* out and files each under the stream it names.  Other programs may       *)
(* connect to the port as well (a port scan, a health check, the dialer of *)
(* another transfer), and say nothing, or anything.                        *)
(***************************************************************************)
EXTENDS Integers

CONSTANTS
    N,        \* streams accepted, the accepter's -s
    Dialed,   \* streams dialed, the dialer's -s
    Keys,     \* of "none", "own" (this transfer's), "shared" (-k or BBX_KEY,
              \* held by another command as well)
    Extra,    \* other connections to the port
    Foreign,  \* the connections BBX_PEER_ALLOW leaves out
    Slow      \* peers may stall past a timeout

ASSUME HandshakeAssumption ==
    /\ N \in 1..64 /\ Dialed \in 1..64
    /\ Keys \subseteq {"none", "own", "shared"} /\ Slow \in BOOLEAN
    /\ Extra \in Nat
    /\ Foreign \subseteq Dialed..(Dialed + Extra - 1)

Streams == 0..(N - 1)
\* The dialer's connections are numbered as it dials them, the others after them.
Strays == Dialed..(Dialed + Extra - 1)
Conns == 0..(Dialed + Extra - 1)
None == -1
Silent == [id |-> -1, mac |-> FALSE]

VARIABLES
    key,      \* which key there is; with one, stream ids carry a MAC
    dialer,   \* "connect", "announce", "ok" or "err"
    dialed,   \* the stream being dialed
    backlog,  \* connections the kernel has completed and not handed out
    said,     \* what each connection has said, Silent before
    accepter, \* "accept", "id", "ok" or "err"
    cur,      \* the connection whose id is being read
    slots     \* accepted connections, by stream

vars == <<key, dialer, dialed, backlog, said, accepter, cur, slots>>

Keyed == key # "none"

\* The listener lives as long as the accepting command.
Listening == accepter # "err"
Taken == {i \in Streams : slots[i] # None}

----------------------------------------------------------------------------
Connect ==
    /\ dialer = "connect" /\ Listening
    /\ backlog' = backlog \cup {dialed}
    /\ dialer' = "announce"
    /\ UNCHANGED <<key, dialed, said, accepter, cur, slots>>

\* A mistake: the dialer says one stream too many.
AnnounceOneMore ==
    /\ dialer = "announce"
    /\ said' = [said EXCEPT ![dialed] = [id |-> dialed, mac |-> Keyed]]
    /\ dialed' = dialed + 1
    /\ dialer' = IF dialed = Dialed THEN "ok" ELSE "connect"
    /\ UNCHANGED <<key, backlog, accepter, cur, slots>>

\* The id, and with a key its MAC.
Announce ==
    /\ dialer = "announce"
    /\ said' = [said EXCEPT ![dialed] = [id |-> dialed, mac |-> Keyed]]
    /\ dialed' = dialed + 1
    /\ dialer' = IF dialed + 1 = Dialed THEN "ok" ELSE "connect"
    /\ UNCHANGED <<key, backlog, accepter, cur, slots>>

\* Refused, reset, killed, or timed out.
DialFails ==
    /\ dialer \in {"connect", "announce"}
    /\ Slow \/ ~Listening
    /\ dialer' = "err"
    /\ UNCHANGED <<key, dialed, backlog, said, accepter, cur, slots>>

\* Anyone may connect, and say an id that is or is not a stream; a command that
\* holds the same key dials its streams in its turn, and its MACs are good.
Stray(c) ==
    /\ said[c] = Silent /\ c \notin backlog /\ cur # c /\ \A i \in Streams : slots[i] # c
    /\ Listening
    /\ backlog' = backlog \cup {c}
    /\ \E id \in -1..N, mac \in BOOLEAN :
          /\ mac => key = "shared" /\ id = c - Dialed
          /\ said' = [said EXCEPT ![c] = [id |-> id, mac |-> mac]]
    /\ UNCHANGED <<key, dialer, dialed, accepter, cur, slots>>

----------------------------------------------------------------------------
\* The kernel hands out any completed connection; a foreign one ends it all.
Accept(c) ==
    /\ accepter = "accept" /\ c \in backlog
    /\ backlog' = backlog \ {c}
    /\ IF c \in Foreign
       THEN accepter' = "err" /\ UNCHANGED cur
       ELSE accepter' = "id" /\ cur' = c
    /\ UNCHANGED <<key, dialer, dialed, said, slots>>

\* A mistake: connections are filed in the order they come.
FileInOrder ==
    /\ accepter = "id" /\ said[cur] # Silent
    /\ slots' = [i \in Streams |-> IF i \notin Taken /\ \A j \in 0..(i - 1) : j \in Taken
                                   THEN cur ELSE slots[i]]
    /\ accepter' = IF Streams = {i \in Streams : slots'[i] # None} THEN "ok" ELSE "accept"
    /\ cur' = None
    /\ UNCHANGED <<key, dialer, dialed, backlog, said>>

Admits(s) == s.id \in Streams /\ (Keyed => s.mac) /\ slots[s.id] = None

\* The connection is filed under the stream it names.
ReadId ==
    /\ accepter = "id" /\ said[cur] # Silent
    /\ Admits(said[cur])
    /\ slots' = [slots EXCEPT ![said[cur].id] = cur]
    /\ accepter' = IF Streams = Taken \cup {said[cur].id} THEN "ok" ELSE "accept"
    /\ cur' = None
    /\ UNCHANGED <<key, dialer, dialed, backlog, said>>

\* A bad id, a bad MAC or a stream named twice ends it all.
Reject ==
    /\ accepter = "id" /\ said[cur] # Silent
    /\ ~Admits(said[cur])
    /\ accepter' = "err"
    /\ UNCHANGED <<key, dialer, dialed, backlog, said, cur, slots>>

\* A mistake: the read of the id is not bounded.
AcceptTimeoutOnly ==
    /\ accepter = "accept" /\ backlog = {} /\ (Slow \/ dialer \in {"ok", "err"})
    /\ accepter' = "err"
    /\ UNCHANGED <<key, dialer, dialed, backlog, said, cur, slots>>

\* Nobody connects, or the connection does not say what it is.
AcceptTimeout ==
    /\ \/ accepter = "accept" /\ backlog = {} /\ (Slow \/ dialer \in {"ok", "err"})
       \/ accepter = "id" /\ said[cur] = Silent /\ (Slow \/ cur \in Strays \/ dialer = "err")
    /\ accepter' = "err"
    /\ UNCHANGED <<key, dialer, dialed, backlog, said, cur, slots>>

Init ==
    /\ key \in Keys
    /\ dialer = "connect" /\ dialed = 0
    /\ backlog = {} /\ said = [c \in Conns |-> Silent]
    /\ accepter = "accept" /\ cur = None
    /\ slots = [i \in Streams |-> None]

Dial == Connect \/ Announce \/ DialFails
Serve == (\E c \in Conns : Accept(c)) \/ ReadId \/ Reject \/ AcceptTimeout
Next == Dial \/ Serve \/ \E c \in Strays : Stray(c)

\* connect, write, accept and read are bounded by timeouts.
Spec == Init /\ [][Next]_vars /\ WF_vars(Dial) /\ WF_vars(Serve)

----------------------------------------------------------------------------
TypeOK ==
    /\ key \in Keys
    /\ dialer \in {"connect", "announce", "ok", "err"} /\ dialed \in 0..Dialed
    /\ backlog \subseteq Conns
    /\ said \in [Conns -> [id : -1..(IF N > Dialed THEN N ELSE Dialed), mac : BOOLEAN]]
    /\ accepter \in {"accept", "id", "ok", "err"}
    /\ cur \in Conns \cup {None}
    /\ slots \in [Streams -> Conns \cup {None}]

\* With a key of its own, a complete handshake gives every stream the connection the dialer
\* made for it, in whatever order they came and whoever else connected.
SlotsAreThePeers == accepter = "ok" /\ key = "own" => \A i \in Streams : slots[i] = i

\* Even without a key every stream has a connection of its own, one that names it.
SlotsDistinct ==
    accepter = "ok" =>
        /\ \A i \in Streams : said[slots[i]].id = i
        /\ \A i, j \in Streams : slots[i] = slots[j] => i = j

\* A connection filed under a stream is not displaced by a later one.
SlotsKept == [][\A i \in Streams : slots[i] # None => slots'[i] = slots[i]]_vars

\* accept_streams returns, whoever connects and says nothing.
AcceptEnds == <>(accepter \in {"ok", "err"})
============================================================================
