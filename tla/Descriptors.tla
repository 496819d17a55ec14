---------------------------- MODULE Descriptors ----------------------------
(***************************************************************************)
(* The engine's descriptors (source/libc_shim.c, open_fake to close_fake,  *)
(* and the socket marks of source/net_shim.c).  The libc's descriptors are *)
(* shared by all threads and a closed one's number is given out again;     *)
(* beside them the shim keeps a table of archive files, read ahead in      *)
(* blocks, and a bit for each descriptor that is a socket.                 *)
(*                                                                         *)
(* A file's data is counted in units, of which Page make 0x1000 bytes; the *)
(* unit at offset i of file f is <<f, i>>.                                 *)
(***************************************************************************)
EXTENDS Integers, Sequences, FiniteSets

CONSTANTS Threads,
          Readers,         \* those that also read and seek
          Fds,             \* the numbers the libc gives out, the lowest first
          Archives,        \* the files called main.obb, in one directory or other
          Size,            \* of a file, in units
          Page,            \* 0x1000 bytes
          RaMin, RaMax,    \* OBB_RA_MIN, OBB_RA_MAX
          MaxSlots         \* OBB_NFD

Slots == 1..MaxSlots
NoFd == -1
Closed == "closed"
Socket == "socket"
Loose == "loose"      \* a file that is not an archive
Fresh == [fd |-> NoFd, pos |-> 0, start |-> 0, buf |-> <<>>, ra |-> RaMin, seqNext |-> -1]

VARIABLES
  is,        \* what each descriptor is, to the libc
  pos,       \* the libc's position in it
  slots,     \* s_obb
  marks,     \* s_sock_bits
  pc,        \* the call each thread is in
  mine,      \* the descriptors each thread has
  view       \* where the thread left each of them: the position of a plain one

libc == <<is, pos>>
vars == <<is, pos, slots, marks, pc, mine, view>>

Idle == [call |-> "", fd |-> NoFd, slot |-> 0]

TypeOK ==
  /\ is \in [Fds -> Archives \cup {Closed, Socket, Loose}]
  /\ marks \subseteq Fds
  /\ mine \in [Threads -> SUBSET Fds]
  /\ \A s \in Slots : slots[s].fd \in Fds \cup {NoFd} /\ Len(slots[s].buf) <= Size

Init ==
  /\ is = [f \in Fds |-> Closed] /\ pos = [f \in Fds |-> 0]
  /\ slots = [s \in Slots |-> Fresh] /\ marks = {}
  /\ pc = [t \in Threads |-> Idle]
  /\ mine = [t \in Threads |-> {}] /\ view = [f \in Fds |-> 0]

Least(a, b) == IF a < b THEN a ELSE b
Lowest(S) == {i \in S : \A j \in S : i <= j}

\* What the libc reads of file f: up to n units from offset i on.
Content(f, i, n) == [k \in 1..Least(n, IF i < Size THEN Size - i ELSE 0) |-> <<f, i + k - 1>>]

\* obb_find
Tracked(fd) == Lowest({s \in Slots : slots[s].fd = fd})

----------------------------------------------------------------------------
(* open_fake, sm127_socket, sm127_accept                                   *)

\* open() or socket() returns the lowest free number; the position is 0.
Open(t, what) ==
  /\ pc[t] = Idle
  /\ \E fd \in Lowest({f \in Fds : is[f] = Closed}) :
       /\ is' = [is EXCEPT ![fd] = what]
       /\ pos' = [pos EXCEPT ![fd] = 0]
       /\ view' = [view EXCEPT ![fd] = 0]
       /\ pc' = [pc EXCEPT ![t] = [Idle EXCEPT !.call = "open", !.fd = fd]]
  /\ UNCHANGED <<slots, marks, mine>>

\* The buffered block of the descriptor that had the slot before is kept.
TrackOver(fd) ==
  slots' = [s \in Slots |->
              IF s \in Lowest({k \in Slots : slots[k].fd = NoFd})
              THEN [slots[s] EXCEPT !.fd = fd, !.pos = 0, !.ra = RaMin, !.seqNext = -1]
              ELSE slots[s]]

\* obb_track: the first free slot, if there is one and memory for its buffer.
Track(fd) ==
  slots' = [s \in Slots |->
              IF s \in Lowest({k \in Slots : slots[k].fd = NoFd})
              THEN [Fresh EXCEPT !.fd = fd]
              ELSE slots[s]]

\* The rest of the call: an archive is tracked, a socket is marked.
Opened(t) ==
  LET fd == pc[t].fd
  IN /\ pc[t].call = "open"
     /\ IF is[fd] \in Archives THEN Track(fd) \/ UNCHANGED slots ELSE UNCHANGED slots
     /\ marks' = IF is[fd] = Socket THEN marks \cup {fd} ELSE marks
     /\ mine' = [mine EXCEPT ![t] = @ \cup {fd}]
     /\ pc' = [pc EXCEPT ![t] = Idle]
     /\ UNCHANGED <<libc, view>>

----------------------------------------------------------------------------
(* read_fake, lseek_fake                                                   *)

\* A miss reads a block from the start of the page on; the block is doubled
\* while the misses follow each other and is the smallest one after a seek.
Filled(s, f) ==
  IF s.start <= s.pos /\ s.pos < s.start + Len(s.buf) THEN s
  ELSE LET ra == IF s.pos = s.seqNext THEN Least(2 * s.ra, RaMax) ELSE RaMin
           start == s.pos - (s.pos % Page)
           buf == Content(f, start, Least(ra + s.pos - start, RaMax + 2 * Page))
       IN [s EXCEPT !.ra = ra, !.start = start, !.buf = buf, !.seqNext = start + Len(buf)]

\* One unit, unless the end is reached.
OneServed(before, f) ==
  LET now == Filled(before.slot, f)
  IN IF before.slot.pos >= Size THEN before
     ELSE [slot |-> [now EXCEPT !.pos = @ + 1],
           out |-> Append(before.out, now.buf[now.pos - now.start + 1])]

\* n units, or as many as there are, through the buffer.
Served(s, f, n) ==
  LET step[k \in 0..n] == IF k = 0 THEN [slot |-> s, out |-> <<>>] ELSE OneServed(step[k - 1], f)
  IN step[n]

\* A refill leaves the libc's position behind its block.
Read(t, fd, n) ==
  /\ pc[t] = Idle /\ fd \in mine[t] /\ is[fd] # Socket
  /\ IF Tracked(fd) = {}
     THEN pos' = [pos EXCEPT ![fd] = @ + Len(Content(is[fd], @, n))] /\ UNCHANGED slots
     ELSE \E s \in Tracked(fd) :
          LET r == Served(slots[s], is[fd], n)
          IN /\ slots' = [slots EXCEPT ![s] = r.slot]
             /\ pos' = [pos EXCEPT ![fd] = IF r.slot.seqNext = -1 THEN @ ELSE r.slot.seqNext]
  /\ view' = [view EXCEPT ![fd] = IF @ < Size THEN Least(@ + n, Size) ELSE @]
  /\ UNCHANGED <<is, marks, pc, mine>>

\* To an offset from the start, or n on from where it is, or from the end.
Seek(t, fd, whence, n) ==
  LET from(cur) == CASE whence = "set" -> 0 [] whence = "cur" -> cur [] OTHER -> Size
      to(cur) == IF from(cur) + n < 0 THEN 0 ELSE from(cur) + n
  IN /\ pc[t] = Idle /\ fd \in mine[t] /\ is[fd] # Socket /\ from(view[fd]) + n \in 0..Size + 1
     /\ IF Tracked(fd) = {}
        THEN pos' = [pos EXCEPT ![fd] = to(@)] /\ UNCHANGED slots
        ELSE /\ slots' = [s \in Slots |-> IF s \in Tracked(fd)
                                          THEN [slots[s] EXCEPT !.pos = to(@)] ELSE slots[s]]
             /\ UNCHANGED pos
     /\ view' = [view EXCEPT ![fd] = to(@)]
     /\ UNCHANGED <<is, marks, pc, mine>>

----------------------------------------------------------------------------
(* close_fake                                                              *)

Close(t, fd) ==
  /\ pc[t] = Idle /\ fd \in mine[t]
  /\ mine' = [mine EXCEPT ![t] = @ \ {fd}]
  /\ pc' = [pc EXCEPT ![t] = [call |-> "untrack", fd |-> fd,
                              slot |-> IF Tracked(fd) = {} THEN 0 ELSE CHOOSE s \in Tracked(fd) : TRUE]]
  /\ UNCHANGED <<libc, slots, marks, view>>

\* The slot and the mark are given up first, each in a step of its own.
Untrack(t) ==
  /\ pc[t].call = "untrack"
  /\ slots' = [s \in Slots |-> IF s = pc[t].slot THEN [slots[s] EXCEPT !.fd = NoFd] ELSE slots[s]]
  /\ pc' = [pc EXCEPT ![t].call = "forget"]
  /\ UNCHANGED <<libc, marks, mine, view>>

\* sm127_net_forget_fd
Forget(t) ==
  /\ pc[t].call = "forget"
  /\ marks' = marks \ {pc[t].fd}
  /\ pc' = [pc EXCEPT ![t].call = "close"]
  /\ UNCHANGED <<libc, slots, mine, view>>

\* close(): from here on the number is given out again.
Closes(t) ==
  /\ pc[t].call = "close"
  /\ is' = [is EXCEPT ![pc[t].fd] = Closed]
  /\ pc' = [pc EXCEPT ![t] = Idle]
  /\ UNCHANGED <<pos, slots, marks, mine, view>>

----------------------------------------------------------------------------

Reads == {1, RaMin + 1}

Reader(t) == \E fd \in mine[t] :
  \/ \E n \in Reads : Read(t, fd, n)
  \/ Seek(t, fd, "set", 1) \/ Seek(t, fd, "cur", Page) \/ Seek(t, fd, "end", -1)

Next ==
  \/ \E t \in Threads :
       \/ \E what \in Archives \cup {Socket, Loose} : Open(t, what)
       \/ Opened(t) \/ Untrack(t) \/ Forget(t) \/ Closes(t)
       \/ \E fd \in mine[t] : Close(t, fd)
  \/ \E t \in Readers : Reader(t)

Spec == Init /\ [][Next]_vars

----------------------------------------------------------------------------
(* Properties                                                              *)

\* What read_fake would answer.
Answer(fd, n) ==
  IF Tracked(fd) = {} THEN Content(is[fd], pos[fd], n)
  ELSE Served(slots[CHOOSE s \in Tracked(fd) : TRUE], is[fd], n).out

\* Whatever is opened and closed meanwhile, by whom, and under which number: a
\* read answers with what a plain descriptor at the caller's position would,
\* and ioctl and poll take for sockets the descriptors that are.
ReadsLikeAFile ==
  \A t \in Threads : \A fd \in mine[t] :
    /\ fd \in marks <=> is[fd] = Socket
    /\ is[fd] # Socket => \A n \in Reads : Answer(fd, n) = Content(is[fd], view[fd], n)
=============================================================================
