------------------------------ MODULE Sockets ------------------------------
(***************************************************************************)
(* A connection of the engine's (source/net_shim.c, bionic_errno.c).  The  *)
(* engine asks for bionic's sockets and gets the console's, whose numbers  *)
(* are others; it tries connect() again each frame until that says         *)
(* EISCONN, and takes a readable socket with no bytes in it for a closed   *)
(* one.  The engine and the network are external: the engine as net_shim.c *)
(* describes it, the network free to do what networks do.                  *)
(***************************************************************************)
EXTENDS Naturals

CONSTANT MaxBytes       \* bound: what the server sends, what the engine sends

VARIABLES
  addresses,      \* the families the server's name has
  counts,         \* the console's stack takes FIONREAD
  host,           \* the console's socket
  nonblocking,
  inbox, fin,     \* bytes waiting; the server has closed its side
  sent, room,     \* bytes the server sent; room in the send buffer
  phase, why,     \* the engine: where it is, why it gave up
  got, put        \* bytes the engine has read; has still to send

stack == <<host, nonblocking, inbox, fin, sent, room>>
engine == <<phase, why, got, put>>
vars == <<addresses, counts, stack, engine>>

Down == {"refused", "timedout", "reset"}
Phases == {"start", "resolved", "opened", "connecting", "connected", "polled",
           "reading", "gone", "stuck"}

TypeOK ==
  /\ addresses \subseteq {"v4", "v6"} /\ counts \in BOOLEAN
  /\ nonblocking \in BOOLEAN /\ fin \in BOOLEAN
  /\ host \in {"none", "fresh", "trying", "up"} \cup Down
  /\ phase \in Phases
  /\ inbox \in 0..MaxBytes /\ sent \in 0..MaxBytes /\ room \in 0..MaxBytes
  /\ got \in 0..MaxBytes /\ put \in 0..MaxBytes

Init ==
  /\ addresses \in SUBSET {"v4", "v6"} /\ counts \in BOOLEAN
  /\ host = "none" /\ nonblocking = FALSE /\ inbox = 0 /\ fin = FALSE
  /\ sent = 0 /\ room = MaxBytes
  /\ phase = "start" /\ why = "" /\ got = 0 /\ put = MaxBytes

GiveUp(reason) == phase' = "gone" /\ why' = reason /\ UNCHANGED <<got, put>>
Goes(to) == phase' = to /\ UNCHANGED <<why, got, put>>
Frozen == UNCHANGED <<addresses, counts>>

----------------------------------------------------------------------------
(* Error numbers                                                           *)

NewlibNo == [EAGAIN |-> 11, EPIPE |-> 32, ECONNRESET |-> 104, ECONNREFUSED |-> 111,
             ETIMEDOUT |-> 116, EINPROGRESS |-> 119, EALREADY |-> 120, EISCONN |-> 127]
BionicNo == [EAGAIN |-> 11, EPIPE |-> 32, ECONNRESET |-> 104, ECONNREFUSED |-> 111,
             ETIMEDOUT |-> 110, EINPROGRESS |-> 115, EALREADY |-> 114, EISCONN |-> 106]

PassedThrough(e) == e

\* sm127_errno_to_bionic: by what newlib means with the number.
ToBionic(e) ==
  IF \E k \in DOMAIN NewlibNo : NewlibNo[k] = e
  THEN BionicNo[CHOOSE k \in DOMAIN NewlibNo : NewlibNo[k] = e]
  ELSE e

\* The errno that a failed call leaves the engine, as the engine reads it.
Reads(error) ==
  LET e == ToBionic(NewlibNo[error])
  IN IF \E k \in DOMAIN BionicNo : BionicNo[k] = e
     THEN CHOOSE k \in DOMAIN BionicNo : BionicNo[k] = e
     ELSE "unknown"

----------------------------------------------------------------------------
(* Up to the connection                                                    *)

\* sm127_getaddrinfo: an unspecified family asks for IPv4.
Answers(asked) == addresses \cap {IF asked = "v6" THEN "v6" ELSE "v4"}

Resolve ==
  /\ phase = "start"
  /\ IF Answers("any") = {} THEN GiveUp("unresolved") ELSE Goes("resolved")
  /\ Frozen /\ UNCHANGED stack

\* sm127_socket: the first the engine asks for is IPv6, which the console has
\* not; the next is IPv4.
Socket ==
  /\ phase = "resolved"
  /\ host' = "fresh" /\ nonblocking' = FALSE
  /\ Goes("opened") /\ Frozen /\ UNCHANGED <<inbox, fin, sent, room>>

\* sm127_ioctl, FIONBIO: set_nonblocking
SetNonblocking ==
  /\ phase = "opened"
  /\ nonblocking' = TRUE
  /\ Goes("connecting") /\ Frozen /\ UNCHANGED <<host, inbox, fin, sent, room>>

\* What connect() says, none on success.
ConnectError ==
  CASE host = "fresh" -> "EINPROGRESS"
    [] host = "trying" -> "EALREADY"
    [] host = "up" -> "EISCONN"
    [] host = "reset" -> "ECONNRESET"
    [] host = "refused" -> "ECONNREFUSED"
    [] host = "timedout" -> "ETIMEDOUT"

\* sm127_connect, and what the engine makes of it.
Connect ==
  /\ phase = "connecting"
  /\ host' = IF host = "fresh" THEN "trying" ELSE host
  /\ IF ~nonblocking THEN Goes("stuck")
     ELSE CASE Reads(ConnectError) \in {"EINPROGRESS", "EALREADY", "EAGAIN"} -> UNCHANGED engine
            [] Reads(ConnectError) = "EISCONN" -> Goes("connected")
            [] OTHER -> GiveUp("connect")
  /\ Frozen /\ UNCHANGED <<nonblocking, inbox, fin, sent, room>>

----------------------------------------------------------------------------
(* The connection                                                          *)

\* sm127_poll for POLLIN; a socket that was reset may say POLLERR too.
Poll ==
  /\ phase = "connected"
  /\ \/ inbox = 0 /\ ~fin /\ host = "up" /\ UNCHANGED engine
     \/ (inbox > 0 \/ fin \/ host = "reset") /\ Goes("polled")
     \/ host = "reset" /\ GiveUp("error")
  /\ Frozen /\ UNCHANGED stack

\* Only what the stack itself counts.
CountWithoutPeek == [error |-> "", n |-> IF counts THEN inbox ELSE 0]

\* sm127_ioctl, FIONREAD: where the stack does not take it, the bytes are
\* peeked at; EAGAIN is none.
Count ==
  IF counts \/ inbox > 0 \/ host # "reset" THEN [error |-> "", n |-> inbox]
  ELSE [error |-> "ECONNRESET", n |-> 0]

\* None to read: the engine takes the server to have closed.
Available ==
  /\ phase = "polled"
  /\ IF Count.error = "" /\ Count.n = 0 THEN GiveUp("closed") ELSE Goes("reading")
  /\ Frozen /\ UNCHANGED stack

\* sm127_recv
Receive ==
  /\ phase = "reading"
  /\ CASE inbox > 0 -> /\ \E n \in 1..inbox : inbox' = inbox - n /\ got' = got + n
                       /\ phase' = "connected" /\ UNCHANGED <<why, put>>
       [] inbox = 0 /\ host = "reset" -> GiveUp("error") /\ UNCHANGED inbox
       [] inbox = 0 /\ host # "reset" /\ fin -> GiveUp("closed") /\ UNCHANGED inbox
       [] OTHER -> Goes(IF ~nonblocking THEN "stuck"
                        ELSE IF Reads("EAGAIN") = "EAGAIN" THEN "connected" ELSE "gone")
                   /\ UNCHANGED inbox
  /\ Frozen /\ UNCHANGED <<host, nonblocking, fin, sent, room>>

\* sm127_send; MSG_NOSIGNAL is dropped.  What does not fit is sent later.
Send ==
  /\ phase = "connected" /\ put > 0
  /\ CASE host = "reset" -> GiveUp("error") /\ UNCHANGED room
       [] host = "up" /\ room > 0 ->
            /\ \E n \in 1..put : n <= room /\ put' = put - n /\ room' = room - n
            /\ UNCHANGED <<phase, why, got>>
       [] OTHER -> UNCHANGED <<engine, room>>
  /\ Frozen /\ UNCHANGED <<host, nonblocking, inbox, fin, sent>>

----------------------------------------------------------------------------
(* The network                                                             *)

Network ==
  /\ \/ host = "trying" /\ host' \in {"up", "refused", "timedout"}
        /\ UNCHANGED <<inbox, fin, sent, room>>
     \/ host = "up" /\ ~fin /\ sent < MaxBytes /\ sent' = sent + 1 /\ inbox' = inbox + 1
        /\ UNCHANGED <<host, fin, room>>
     \/ host = "up" /\ ~fin /\ fin' = TRUE /\ UNCHANGED <<host, inbox, sent, room>>
     \/ host = "up" /\ host' = "reset" /\ inbox' = 0 /\ UNCHANGED <<fin, sent, room>>
     \/ host = "up" /\ room < MaxBytes /\ room' = room + 1 /\ UNCHANGED <<host, inbox, fin, sent>>
  /\ Frozen /\ UNCHANGED <<nonblocking, engine>>

Next ==
  Resolve \/ Socket \/ SetNonblocking \/ Connect \/ Poll \/ Available
  \/ Receive \/ Send \/ Network

Spec == Init /\ [][Next]_vars

----------------------------------------------------------------------------
(* Properties                                                              *)

\* The engine gives a server up only for something the server or the network
\* did: it has no IPv4 address, it refused or never answered, it reset the
\* connection, or it closed and every byte it sent has been read; until then no
\* call holds the engine up.
GivenUpRightly ==
  /\ phase # "stuck"
  /\ phase = "gone" =>
       \/ why = "unresolved" /\ "v4" \notin addresses
       \/ why = "connect" /\ host \in {"refused", "timedout", "reset"}
       \/ why = "closed" /\ ((fin /\ got = sent) \/ host = "reset")
       \/ why = "error" /\ host = "reset"
=============================================================================
