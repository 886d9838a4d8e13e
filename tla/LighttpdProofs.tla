---------------------------- MODULE LighttpdProofs ----------------------------
(* For any peers, connections, limits and timeouts: descriptors are          *)
(* accounted for, nobody is forgotten when the server goes to sleep, no      *)
(* answer is cut off by the time stamp of another, and requests are answered *)
(* once each and in order.                                                   *)
(*                                                                           *)
(* The argument: Attended says that a connection in use rests (something     *)
(* that happens later wakes it), is in the state machine, or is in a queue   *)
(* that is run before the next poll.  A round of the state machine (Turn)    *)
(* changes one connection and lets it leave only when it rests or has queued *)
(* for a descriptor; every handler that changes one puts it on the job list, *)
(* and every timeout that changes one runs it at once.  Shape gives what     *)
(* that needs of a connection: an answer that nobody goes on writing is      *)
(* finished, one with an empty queue is not, and a state that has just been  *)
(* entered may write.  The order of answers needs a second invariant on top  *)
(* of it, OrderInv: where a connection is in the script of its peer.         *)
EXTENDS Lighttpd, FiniteSetTheorems, SequenceTheorems, TLAPS

-----------------------------------------------------------------------------
(* The shape of a connection, which every operator on one connection keeps,  *)
(* the invariant, and what a change of one connection, a close and an accept *)
(* do to its core (the array of connections, their owners and the descriptor *)
(* counter).                                                                 *)

(* A connection, a peer, and what they are at any time.                      *)
ConFields == {"st", "fd", "rd", "wr", "rq", "wq", "keep_alive", "count", "req", "status", "mode",
              "backend", "answer", "finished", "in_error_handler", "paused", "retries", "ev",
              "age", "write_ts", "since"}
ClientFields == {"st", "script", "sent", "read", "fin", "full", "answers"}

IsCon(k) ==
  /\ DOMAIN k = ConFields
  /\ k.st \in States /\ k.fd \in Clients \cup {"none"}
  /\ k.mode \in {"DIRECT", "plugin"} /\ k.backend \in {"none", "wait_fd", "busy", "started"}
  /\ k.ev \in {"", "in", "out"} /\ k.wq \in Nat
  /\ k.age \in 0..Expired /\ k.since \in 0..Expired /\ k.write_ts \in 0..(Expired + 1)

IsClient(q) ==
  /\ DOMAIN q = ClientFields
  /\ q.script \in Seq(Tokens) /\ q.sent \in 0..Len(q.script) /\ q.read \in 0..q.sent
  /\ q.st = "away" => q.read = 0

Shape(k) ==
  /\ k.mode = "DIRECT" => k.backend = "none"
  /\ k.mode = "plugin" /\ k.backend = "none" /\ k.st # "ERROR" => k.finished
  /\ k.st \in {"CONNECT", "CLOSE"} => k.backend = "none"
  /\ k.st = "RESPONSE_START" =>
       /\ k.mode = "DIRECT" /\ k.status = "ok" => k.finished
       /\ k.backend \in {"none", "started"}
  /\ k.st = "WRITE" =>
       /\ k.backend \in {"none", "started"}
       /\ k.backend = "none" => k.finished
       /\ k.wq = 0 => ~k.finished
  /\ k.st \notin {"WRITE", "RESPONSE_END", "ERROR"} \/ k.backend \in {"busy", "wait_fd"} => k.wr

Good(k) == IsCon(k) /\ Shape(k)

(* q may take the place of k: same peer, same descriptors.                   *)
Keeps(k, q) == Good(q) /\ q.fd = k.fd /\ BackendFd(q) = BackendFd(k)

(* The bounds are numbers, and a timer can expire.                           *)
LEMMA Numbers == Idle \in Nat /\ Expired \in Nat /\ Expired > 0 /\ MaxKeepAlive \in Nat
  BY SizesAssumption DEF Expired

(* What most steps leave alone in a connection.                              *)
Near(k, q) ==
  /\ DOMAIN q = ConFields /\ q.age \in 0..Expired
  /\ q.fd = k.fd /\ q.mode = k.mode /\ q.backend = k.backend /\ q.wq = k.wq /\ q.ev = k.ev
  /\ q.since = k.since /\ q.write_ts = k.write_ts
  /\ q.finished = k.finished /\ (k.wr => q.wr)

(* The states in which nothing of an answer has been written.                *)
Calm == {"REQUEST_START", "READ", "REQUEST_END", "READ_POST", "HANDLE_REQUEST"}

(* A step that is near keeps the connection well-formed, if the answer has not begun. *)
LEMMA NearGood ==
  ASSUME NEW k, Good(k), NEW q, Near(k, q),
         \/ q.st = "ERROR"
         \/ k.st \in Calm /\ q.st \in Calm
         \/ q.st = k.st /\ (k.st = "RESPONSE_START" => q.status = k.status)
  PROVE  Keeps(k, q)
<1>1. IsCon(q)
  BY DEF Near, Good, IsCon, States, Calm
<1>2. BackendFd(q) = BackendFd(k) /\ q.fd = k.fd
  BY DEF Near, BackendFd
<1>3. Shape(q)
  BY DEF Near, Good, Shape, IsCon, Calm
<1> QED BY <1>1, <1>2, <1>3 DEF Keeps, Good

(* Near is transitive.                                                       *)
LEMMA NearTrans ==
  ASSUME NEW k, NEW q, NEW r, Near(k, q), Near(q, r)
  PROVE  Near(k, r)
BY DEF Near

(* Near is reflexive.                                                        *)
LEMMA NearSelf ==
  ASSUME NEW k, IsCon(k)
  PROVE  Near(k, k)
BY DEF Near, IsCon

(* A change of st alone is Near.                                             *)
LEMMA NearState ==
  ASSUME NEW k, IsCon(k), NEW x
  PROVE  Near(k, [k EXCEPT !.st = x]) /\ [k EXCEPT !.st = x].st = x
BY DEF Near, IsCon, ConFields

(* connection_reset leaves no backend behind.                                *)
LEMMA ResetGood ==
  ASSUME NEW k, IsCon(k)
  PROVE  LET q == connection_reset(k) IN
         /\ IsCon(q) /\ q.fd = k.fd /\ q.st = k.st /\ q.backend = "none" /\ q.mode = "DIRECT"
            /\ q.wr /\ ~q.finished
<1> DEFINE q == connection_reset(k)
<1>1. DOMAIN q = ConFields
  BY DEF IsCon, ConFields, connection_reset
<1>2. q.fd = k.fd /\ q.st = k.st /\ q.ev = k.ev /\ q.age = k.age /\ q.write_ts = k.write_ts
  BY DEF IsCon, ConFields, connection_reset
<1>3. q.backend = "none" /\ q.mode = "DIRECT"
  BY DEF IsCon, ConFields, connection_reset
<1>6. q.wq = 0 /\ q.since = 0
  BY DEF IsCon, ConFields, connection_reset
<1> HIDE DEF q
<1>7. q.wq \in Nat /\ q.since \in 0..Expired
  BY <1>6, Numbers
<1>4. IsCon(q)
  BY <1>1, <1>2, <1>3, <1>7 DEF IsCon
<1>5. q.wr /\ ~q.finished
  BY DEF IsCon, ConFields, connection_reset, q
<1> QED BY <1>2, <1>3, <1>4, <1>5 DEF q

(* An answer that is prepared has something to write and may write it.       *)
LEMMA PrepareGood ==
  ASSUME NEW k, Good(k), k.st = "RESPONSE_START", NEW body \in {"known", "unknown", "none"}
  PROVE  LET q == connection_handle_write_prepare(k, body) IN
         /\ Keeps(k, q) /\ q.st = "WRITE" /\ q.wr /\ q.wq = 2
<1> DEFINE q == connection_handle_write_prepare(k, body)
<1>1. DOMAIN q = ConFields
  BY DEF Good, IsCon, ConFields, connection_handle_write_prepare
<1>2. q.fd = k.fd /\ q.st = "WRITE" /\ q.ev = k.ev /\ q.age = k.age /\ q.write_ts = k.write_ts
  BY DEF Good, IsCon, ConFields, connection_handle_write_prepare
<1>3. q.backend = k.backend /\ q.mode = k.mode
  BY DEF Good, IsCon, ConFields, connection_handle_write_prepare
<1>9. q.wq = 2 /\ q.since = 0
  BY DEF Good, IsCon, ConFields, connection_handle_write_prepare
<1>4. k.finished \/ (k.mode = "DIRECT" /\ k.status # "ok") => q.finished
  BY DEF Good, IsCon, ConFields, connection_handle_write_prepare
<1>8. q.wr <=> k.wr
  BY DEF Good, IsCon, ConFields, connection_handle_write_prepare
<1> HIDE DEF q
<1>10. q.wq \in Nat /\ q.wq # 0 /\ q.since \in 0..Expired
  BY <1>9, Numbers
<1>5. IsCon(q)
  BY <1>1, <1>2, <1>3, <1>10 DEF IsCon, Good, States
<1>6. Shape(q) /\ q.wr
  BY <1>2, <1>3, <1>4, <1>8, <1>10 DEF Shape, Good, IsCon
<1>7. BackendFd(q) = BackendFd(k)
  BY <1>3 DEF BackendFd
<1> QED BY <1>2, <1>3, <1>5, <1>6, <1>7, <1>9 DEF q, Keeps, Good

-----------------------------------------------------------------------------
(* Reading.                                                                  *)

(* What the socket holds is as long as its counters say.                     *)
LEMMA UnreadLength ==
  ASSUME NEW p \in Clients, IsClient(client[p])
  PROVE  /\ Unread(p) \in Seq(Tokens) /\ Len(Unread(p)) = client[p].sent - client[p].read
         /\ client[p].sent \in Nat /\ client[p].read \in Nat
<1> DEFINE s == client[p].script
           m == client[p].read
           n == client[p].sent
<1>1. s \in Seq(Tokens) /\ n \in 0..Len(s) /\ m \in 0..n /\ Len(s) \in Nat
  BY DEF IsClient
<1> HIDE DEF s, m, n
<1>2. m + 1 \in 1..Len(s) + 1 /\ n \in m + 1 - 1..Len(s)
  BY <1>1
<1>3. SubSeq(s, m + 1, n) \in Seq(Tokens) /\ Len(SubSeq(s, m + 1, n)) = n - (m + 1) + 1
  BY <1>1, <1>2, SubSeqProperties
<1>4. n \in Nat /\ m \in Nat /\ n - (m + 1) + 1 = n - m
  BY <1>1
<1> QED BY <1>3, <1>4 DEF Unread, s, m, n

(* One read: what it takes is there, and the state stays or is ERROR.        *)
RawRead(k, r) ==
  /\ Near(k, r.k) /\ r.k.st \in {k.st, "ERROR"}
  /\ r.taken \in Nat /\ client[k.fd].read + r.taken <= client[k.fd].sent

(* One read is near, and takes what is there.                                *)
LEMMA ReadRaw ==
  ASSUME NEW k, Good(k), k.fd \in Clients, IsClient(client[k.fd]),
         NEW r \in connection_handle_read(k)
  PROVE  RawRead(k, r)
<1> DEFINE fresh == [k EXCEPT !.age = 0]
           dry   == [fresh EXCEPT !.rd = FALSE]
           data  == Unread(k.fd)
<1>0. IsCon(k)
  BY DEF Good
<1>1. Near(k, fresh) /\ fresh.st = k.st /\ DOMAIN fresh = ConFields
  <2>1. fresh.age = 0
    BY <1>0 DEF IsCon, ConFields
  <2>2. fresh.age \in 0..Expired
    BY <2>1, Numbers
  <2> QED BY <1>0, <2>2 DEF Near, IsCon, ConFields
<1> HIDE DEF fresh
<1>2. Near(k, dry) /\ dry.st = k.st /\ DOMAIN dry = ConFields
  BY <1>1 DEF Near, ConFields
<1>3. client[k.fd].read \in Nat /\ client[k.fd].sent \in Nat
      /\ client[k.fd].read <= client[k.fd].sent
  BY DEF IsClient
<1> HIDE DEF dry
<1>4. CASE client[k.fd].fin = "reset"
  <2>1. r = [k |-> [dry EXCEPT !.st = "ERROR"], taken |-> 0, closed |-> FALSE]
    BY <1>4 DEF connection_handle_read, dry, fresh
  <2>2. Near(k, [dry EXCEPT !.st = "ERROR"]) /\ [dry EXCEPT !.st = "ERROR"].st = "ERROR"
    BY <1>2 DEF Near, ConFields
  <2>3. r.k = [dry EXCEPT !.st = "ERROR"] /\ r.taken = 0
    BY <2>1
  <2>4. Near(k, r.k) /\ r.k.st = "ERROR"
    BY <2>2, <2>3, <1>2, NearTrans
  <2> QED BY <2>3, <2>4, <1>3 DEF RawRead
<1>5. CASE client[k.fd].fin # "reset" /\ data = <<>>
  <2>1. r = [k |-> dry, taken |-> 0, closed |-> client[k.fd].fin = "eof"]
    BY <1>5 DEF connection_handle_read, dry, fresh
  <2> QED BY <2>1, <1>2, <1>3 DEF RawRead
<1>6. CASE client[k.fd].fin # "reset" /\ data # <<>>
  <2>1. PICK n \in 1..Len(data) :
          r = [k |-> [fresh EXCEPT !.rd = (n < Len(data)), !.rq = @ \o SubSeq(data, 1, n)],
               taken |-> n, closed |-> FALSE]
    BY <1>6 DEF connection_handle_read, fresh
  <2>2. Near(k, [fresh EXCEPT !.rd = (n < Len(data)), !.rq = @ \o SubSeq(data, 1, n)])
    BY <1>1 DEF Near, ConFields
  <2>3. [fresh EXCEPT !.rd = (n < Len(data)), !.rq = @ \o SubSeq(data, 1, n)].st = k.st
    BY <1>1 DEF ConFields
  <2>4. n \in Nat /\ client[k.fd].read + n <= client[k.fd].sent
    BY <1>3, UnreadLength
  <2> QED BY <2>1, <2>2, <2>3, <2>4 DEF RawRead
<1> QED BY <1>4, <1>5, <1>6

(* Taking a header or a body from the read queue is near.                    *)
LEMMA TakeHeaderNear ==
  ASSUME NEW k, IsCon(k), NEW q \in TakeHeader(k)
  PROVE  Near(k, q) /\ q.st \in {k.st, "HANDLE_REQUEST", "REQUEST_END"}
<1>1. CASE k.rq = <<>>
  BY <1>1, NearSelf DEF TakeHeader
<1>2. CASE k.rq # <<>> /\ Head(k.rq) = "big"
  <2>1. q = [k EXCEPT !.status = "error", !.keep_alive = FALSE, !.st = "HANDLE_REQUEST"]
    BY <1>2 DEF TakeHeader
  <2> QED BY <2>1 DEF Near, IsCon, ConFields
<1>3. CASE k.rq # <<>> /\ Head(k.rq) # "big"
  <2>1. q = [k EXCEPT !.req = Head(k.rq), !.rq = Tail(@), !.st = "REQUEST_END"]
    BY <1>3 DEF TakeHeader
  <2> QED BY <2>1 DEF Near, IsCon, ConFields
<1> QED BY <1>1, <1>2, <1>3

(* Taking a body from the queue leaves what Near compares.                   *)
LEMMA TakeBodyNear ==
  ASSUME NEW k, IsCon(k), NEW q \in TakeBody(k)
  PROVE  Near(k, q) /\ q.st \in {k.st, "HANDLE_REQUEST"}
<1>1. CASE k.rq = <<>>
  BY <1>1, NearSelf DEF TakeBody
<1>2. CASE k.rq # <<>> /\ q = [k EXCEPT !.rq = Tail(@), !.st = "HANDLE_REQUEST"]
  BY <1>2 DEF Near, IsCon, ConFields
<1>3. CASE k.rq # <<>> /\ q = [k EXCEPT !.status = "error", !.keep_alive = FALSE, !.st = "HANDLE_REQUEST"]
  BY <1>3 DEF Near, IsCon, ConFields
<1> QED BY <1>1, <1>2, <1>3 DEF TakeBody

(* What a call on a connection gives back to the state machine.              *)
GoodResult(k, r) ==
  /\ Keeps(k, r.k)
  /\ r.taken \in Nat /\ client[k.fd].read + r.taken <= client[k.fd].sent

(* A whole read keeps the connection well-formed.                            *)
LEMMA ReadGood ==
  ASSUME NEW k, Good(k), k.st \in {"READ", "READ_POST"}, k.fd \in Clients,
         IsClient(client[k.fd]), NEW r \in connection_handle_read_state(k)
  PROVE  GoodResult(k, r) /\ r.k.st \in Calm \cup {"ERROR"} /\ r.job = FALSE
<1> DEFINE reads == IF k.rd THEN connection_handle_read(k)
                            ELSE {[k |-> k, taken |-> 0, closed |-> FALSE]}
           Parsed(s) == IF s.k.st = "READ" THEN TakeHeader(s.k)
                        ELSE IF s.k.st = "READ_POST" THEN TakeBody(s.k) ELSE {s.k}
           Ended(s, q) == IF s.closed /\ q.st = k.st THEN [q EXCEPT !.st = "ERROR"] ELSE q
<1>0. connection_handle_read_state(k) =
        UNION {{Result(Ended(s, q), s.taken, client[k.fd].full, FALSE) : q \in Parsed(s)} : s \in reads}
  BY DEF connection_handle_read_state
<1> HIDE DEF reads, Parsed, Ended
<1>1. PICK s \in reads : \E q \in Parsed(s) : r = Result(Ended(s, q), s.taken, client[k.fd].full, FALSE)
  BY <1>0
<1> USE DEF reads, Parsed, Ended
<1>2. PICK q \in Parsed(s) : r = Result(Ended(s, q), s.taken, client[k.fd].full, FALSE)
  BY <1>1
<1>3. RawRead(k, s)
  <2>1. CASE k.rd
    BY <2>1, ReadRaw
  <2>2. CASE ~k.rd
    <3>1. s = [k |-> k, taken |-> 0, closed |-> FALSE]
      BY <2>2
    <3>2. client[k.fd].read \in Nat /\ client[k.fd].sent \in Nat
          /\ client[k.fd].read <= client[k.fd].sent
      BY DEF IsClient
    <3>3. s.taken = 0 /\ s.k = k /\ Near(k, k)
      BY <3>1, NearSelf DEF Good
    <3> QED BY <3>2, <3>3 DEF RawRead
  <2> QED BY <2>1, <2>2
<1>4. IsCon(s.k)
  <2>1. Keeps(k, s.k)
    BY <1>3, NearGood DEF RawRead
  <2> QED BY <2>1 DEF Keeps, Good
<1>5. Near(s.k, q) /\ q.st \in {s.k.st, "HANDLE_REQUEST", "REQUEST_END"}
  BY <1>4, NearSelf, TakeHeaderNear, TakeBodyNear
<1>6. Near(k, q) /\ q.st \in Calm \cup {"ERROR"}
  BY <1>3, <1>5, NearTrans DEF RawRead, Calm
<1>7. Near(k, Ended(s, q)) /\ Ended(s, q).st \in Calm \cup {"ERROR"}
  <2>1. Near(k, [q EXCEPT !.st = "ERROR"]) /\ [q EXCEPT !.st = "ERROR"].st = "ERROR"
    BY <1>6 DEF Near, ConFields
  <2> QED BY <1>6, <2>1
<1> HIDE DEF Ended
<1>8. Keeps(k, Ended(s, q))
  BY <1>7, NearGood DEF Calm
<1>9. r.k = Ended(s, q) /\ r.taken = s.taken /\ r.job = FALSE
  BY <1>2 DEF Result
<1> QED BY <1>3, <1>7, <1>8, <1>9 DEF GoodResult, RawRead

-----------------------------------------------------------------------------
(* Writing, and the other operators on one connection.                       *)

Fresh(k) == k.write_ts \in 1..(k.since + 1)

(* The connection sleeps: something that happens later will run it.          *)
Rests(k) ==
  \/ k.st \in {"READ", "READ_POST", "CLOSE"} /\ k.ev = "in"
  \/ k.st = "HANDLE_REQUEST" /\ k.backend \in {"busy", "started"}
  \/ k.st = "WRITE" /\ (IF k.wq > 0 THEN k.ev = "out" \/ k.paused = "yes"
                                    ELSE k.backend \in {"busy", "started"})

(* Asking for events changes nothing else, and asks where it must.           *)
LEMMA InterestGood ==
  ASSUME NEW k, Good(k)
  PROVE  LET q == Interest(k) IN
         /\ Keeps(k, q) /\ q.st = k.st /\ q.write_ts = k.write_ts /\ q.since = k.since
         /\ q.backend = k.backend /\ q.wq = k.wq /\ q.paused = k.paused
         /\ k.st \in {"READ", "READ_POST", "CLOSE"} => q.ev = "in"
         /\ k.st = "WRITE" /\ k.wq > 0 /\ ~k.wr /\ k.paused # "yes" => q.ev = "out"
         /\ k.st = "CONNECT" => q.ev = ""
<1> DEFINE q == Interest(k)
<1>1. DOMAIN q = ConFields /\ q.ev \in {"", "in", "out"}
  BY DEF Interest, Good, IsCon, ConFields
<1>2. q.st = k.st /\ q.fd = k.fd /\ q.mode = k.mode /\ q.backend = k.backend /\ q.wq = k.wq
  BY DEF Interest, Good, IsCon, ConFields
<1>3. q.write_ts = k.write_ts /\ q.since = k.since /\ q.age = k.age /\ q.paused = k.paused
  BY DEF Interest, Good, IsCon, ConFields
<1>4. q.finished = k.finished /\ q.wr = k.wr /\ q.status = k.status
  BY DEF Interest, Good, IsCon, ConFields
<1>5. /\ k.st \in {"READ", "READ_POST", "CLOSE"} => q.ev = "in"
      /\ k.st = "WRITE" /\ k.wq > 0 /\ ~k.wr /\ k.paused # "yes" => q.ev = "out"
      /\ k.st = "CONNECT" => q.ev = ""
  BY DEF Interest, Good, IsCon, ConFields
<1> HIDE DEF q
<1>6. IsCon(q)
  BY <1>1, <1>2, <1>3 DEF Good, IsCon
<1>7. Shape(q) /\ BackendFd(q) = BackendFd(k)
  BY <1>2, <1>4 DEF Good, Shape, BackendFd
<1> QED BY <1>2, <1>3, <1>5, <1>6, <1>7 DEF q, Keeps, Good

(* A write changes the queue, the timer and what may be written.             *)
Wrote(k, q) ==
  /\ DOMAIN q = ConFields /\ q.wq \in Nat
  /\ q.fd = k.fd /\ q.mode = k.mode /\ q.backend = k.backend /\ q.ev = k.ev
  /\ q.since = k.since /\ q.age = k.age /\ q.write_ts = 1 /\ q.finished = k.finished

(* A write that goes on has something left to write or a backend to wait for. *)
LEMMA WroteGood ==
  ASSUME NEW k, Good(k), k.st = "WRITE", NEW q, Wrote(k, q),
         \/ q.st = "WRITE" /\ (q.wq = 0 => ~k.finished)
         \/ q.st = "RESPONSE_END"
  PROVE  Keeps(k, q)
<1>1. q.write_ts \in 0..(Expired + 1)
  BY Numbers DEF Wrote
<1>2. IsCon(q)
  BY <1>1 DEF Wrote, Good, IsCon, States
<1>3. Shape(q)
  BY DEF Wrote, Good, IsCon, Shape
<1>4. BackendFd(q) = BackendFd(k) /\ q.fd = k.fd
  BY DEF Wrote, BackendFd
<1> QED BY <1>2, <1>3, <1>4 DEF Keeps, Good

(* A whole write ends the answer, blocks, or waits for its backend.          *)
LEMMA WriteGood ==
  ASSUME NEW k, Good(k), k.st = "WRITE", k.fd \in Clients, IsClient(client[k.fd]), k.wq > 0,
         NEW r \in connection_handle_write(k)
  PROVE  /\ GoodResult(k, r) /\ r.k.st \in {"WRITE", "RESPONSE_END", "ERROR"}
         /\ r.k.st = "WRITE" => r.k.write_ts = 1 /\ (r.k.wq = 0 \/ ~r.k.wr)
<1> DEFINE sent == [k EXCEPT !.wq = 0, !.write_ts = 1]
           held == [k EXCEPT !.wr = FALSE, !.write_ts = 1]
<1>0. IsCon(k) /\ client[k.fd].read \in Nat /\ client[k.fd].sent \in Nat
      /\ client[k.fd].read <= client[k.fd].sent
  BY DEF Good, IsClient
<1>1. Wrote(k, sent) /\ sent.st = "WRITE" /\ sent.wq = 0 /\ sent.write_ts = 1
      /\ DOMAIN sent = ConFields
  <2>1. sent.wq = 0 /\ sent.write_ts = 1 /\ sent.st = "WRITE" /\ DOMAIN sent = ConFields
    BY <1>0 DEF IsCon, ConFields
  <2>2. sent.wq \in Nat
    BY <2>1
  <2> QED BY <1>0, <2>1, <2>2 DEF Wrote, IsCon, ConFields
<1>2. Wrote(k, held) /\ held.st = "WRITE" /\ held.wq = k.wq /\ held.write_ts = 1 /\ ~held.wr
      /\ DOMAIN held = ConFields
  BY <1>0 DEF Wrote, IsCon, ConFields
<1> HIDE DEF sent, held
<1>3. CASE r = Result([k EXCEPT !.st = "ERROR"], 0, FALSE, TRUE)
  <2>1. r.k = [k EXCEPT !.st = "ERROR"] /\ r.taken = 0
    BY <1>3 DEF Result
  <2>3. Near(k, [k EXCEPT !.st = "ERROR"]) /\ [k EXCEPT !.st = "ERROR"].st = "ERROR"
    BY <1>0, NearState
  <2>2. Keeps(k, r.k) /\ r.k.st = "ERROR"
    BY <2>1, <2>3, NearGood
  <2> QED BY <2>1, <2>2, <1>0 DEF GoodResult
<1>4. CASE k.finished /\ r = Result([sent EXCEPT !.st = "RESPONSE_END"], 0, FALSE, TRUE)
  <2>1. r.k = [sent EXCEPT !.st = "RESPONSE_END"] /\ r.taken = 0
    BY <1>4 DEF Result
  <2>2. Wrote(k, r.k) /\ r.k.st = "RESPONSE_END"
    BY <2>1, <1>1 DEF Wrote, ConFields
  <2>3. Keeps(k, r.k)
    BY <2>2, WroteGood
  <2> QED BY <2>1, <2>2, <2>3, <1>0 DEF GoodResult
<1>5. CASE ~k.finished /\ r = Result(sent, 0, FALSE, FALSE)
  <2>1. r.k = sent /\ r.taken = 0
    BY <1>5 DEF Result
  <2> QED BY <2>1, <1>0, <1>1, <1>5, WroteGood DEF GoodResult
<1>6. CASE r = Result([held EXCEPT !.wq = 1], 0, TRUE, FALSE)
  <2>1. r.k = [held EXCEPT !.wq = 1] /\ r.taken = 0
    BY <1>6 DEF Result
  <2>2. r.k.wq = 1 /\ r.k.st = "WRITE" /\ ~r.k.wr
    BY <2>1, <1>2 DEF ConFields
  <2>3. r.k.wq \in Nat /\ r.k.wq # 0
    BY <2>2
  <2>4. Wrote(k, r.k)
    BY <2>1, <2>3, <1>2 DEF Wrote, ConFields
  <2>5. Keeps(k, r.k)
    BY <2>2, <2>3, <2>4, WroteGood
  <2> QED BY <2>1, <2>2, <2>4, <2>5, <1>0 DEF GoodResult, Wrote
<1>7. CASE r = Result([held EXCEPT !.paused = "yes"], 0, client[k.fd].full, TRUE)
  <2>1. r.k = [held EXCEPT !.paused = "yes"] /\ r.taken = 0
    BY <1>7 DEF Result
  <2>2. Wrote(k, r.k) /\ r.k.st = "WRITE" /\ ~r.k.wr /\ r.k.wq = k.wq
    BY <2>1, <1>2 DEF Wrote, ConFields
  <2>3. r.k.wq # 0
    <3>1. k.wq \in Nat
      BY <1>0 DEF IsCon
    <3>2. k.wq # 0
      BY <3>1
    <3> QED BY <2>2, <3>2
  <2>4. Keeps(k, r.k)
    BY <2>2, <2>3, WroteGood
  <2> QED BY <2>1, <2>2, <2>4, <1>0 DEF GoodResult, Wrote
<1> QED BY <1>3, <1>4, <1>5, <1>6, <1>7 DEF connection_handle_write, sent, held

(* Lingering throws away what is there.                                      *)
LEMMA FlushGood ==
  ASSUME NEW k, Good(k), k.st = "CLOSE", k.fd \in Clients, IsClient(client[k.fd])
  PROVE  GoodResult(k, FlushOnClose(k)) /\ FlushOnClose(k).k.st = "CLOSE"
<1> DEFINE r == FlushOnClose(k)
           q == [k EXCEPT !.age = Expired]
<1>1. client[k.fd].read \in Nat /\ client[k.fd].sent \in Nat
      /\ client[k.fd].read <= client[k.fd].sent
  BY DEF IsClient
<1>2. Near(k, q) /\ q.st = "CLOSE" /\ Near(k, k)
  <2>1. q.age = Expired /\ IsCon(k)
    BY DEF Good, IsCon, ConFields
  <2>2. q.age \in 0..Expired
    BY <2>1, Numbers
  <2> QED BY <2>1, <2>2, NearSelf DEF Near, IsCon, ConFields
<1>3. Keeps(k, q) /\ Keeps(k, k)
  BY <1>2, NearGood
<1> HIDE DEF q
<1>4. CASE r = Result(q, 0, client[k.fd].full, FALSE)
  BY <1>1, <1>2, <1>3, <1>4 DEF GoodResult, Result
<1>5. CASE r = Result(k, client[k.fd].sent - client[k.fd].read, client[k.fd].full, FALSE)
  <2>1. r.k = k /\ r.taken = client[k.fd].sent - client[k.fd].read
    BY <1>5 DEF Result
  <2>2. r.taken \in Nat /\ client[k.fd].read + r.taken <= client[k.fd].sent
    BY <2>1, <1>1
  <2> QED BY <2>1, <2>2, <1>3 DEF GoodResult
<1> QED BY <1>4, <1>5 DEF FlushOnClose, q

(* Readiness that is noted does not change the peer, the backend or the timer. *)
LEMMA WokenGood ==
  ASSUME NEW c \in Cons, Good(con[c]), con[c].fd \in Clients
  PROVE  Keeps(con[c], Woken(c)) /\ Woken(c).st \in {con[c].st, "ERROR"}
         /\ (Woken(c).write_ts = con[c].write_ts /\ Woken(c).since = con[c].since)
<1> DEFINE k == con[c]
           r == [k EXCEPT !.rd = @ \/ k.ev = "in", !.wr = @ \/ (k.ev = "out" /\ ~client[k.fd].full)]
<1>1. Near(k, r) /\ r.st = k.st /\ DOMAIN r = ConFields /\ r.status = k.status
  BY DEF Near, Good, IsCon, ConFields
<1> HIDE DEF r
<1>2. Near(k, [r EXCEPT !.age = Expired]) /\ [r EXCEPT !.age = Expired].st = k.st
      /\ [r EXCEPT !.age = Expired].status = k.status
  BY <1>1, Numbers DEF Near, ConFields
<1>3. Near(k, [r EXCEPT !.st = "ERROR"]) /\ [r EXCEPT !.st = "ERROR"].st = "ERROR"
  BY <1>1 DEF Near, ConFields
<1>4. Woken(c) \in {r, [r EXCEPT !.age = Expired], [r EXCEPT !.st = "ERROR"]}
  BY DEF Woken, r
<1> QED BY <1>1, <1>2, <1>3, <1>4, NearGood DEF Near

(* A timeout leaves the connection well-formed, and is acted on if anything changes. *)
LEMMA TimeoutsGood ==
  ASSUME NEW k, Good(k), NEW t \in Timeouts(k)
  PROVE  /\ Keeps(k, t.k) /\ t.k.st \in {k.st, "ERROR"}
         /\ t.k.write_ts = k.write_ts /\ t.k.since = k.since
         /\ ~t.changed => t.k = k
<1> DEFINE k1 == IF TimedOut(k) THEN [k EXCEPT !.st = "ERROR"] ELSE k
           changed == TimedOut(k) \/ (k.st = "CLOSE" /\ k.age = Expired)
<1>1. Near(k, k1) /\ k1.st \in {k.st, "ERROR"} /\ DOMAIN k1 = ConFields
      /\ (k1.st = k.st => k1.status = k.status)
  BY NearSelf, NearState DEF Good, IsCon, ConFields
<1>2. CASE t = [k |-> k1, changed |-> changed]
  BY <1>1, <1>2, NearGood DEF Near
<1>3. CASE t = [k |-> Resumed(k1), changed |-> TRUE]
  <2> HIDE DEF k1
  <2>1. Near(k, Resumed(k1)) /\ Resumed(k1).st = k1.st
        /\ Resumed(k1).status = k1.status
    BY <1>1 DEF Near, ConFields, Resumed
  <2> QED BY <1>1, <1>3, <2>1, NearGood DEF Near
<1> QED BY <1>2, <1>3 DEF Timeouts

(* Whatever a backend answers, the connection stays well-formed.             *)
LEMMA BackendGood ==
  ASSUME NEW k, Good(k), k.backend \in {"busy", "started"}, NEW q \in BackendStep(k)
  PROVE  /\ Good(q) /\ q.fd = k.fd /\ q.st \in {k.st, "ERROR", "HANDLE_REQUEST"}
         /\ q.write_ts = k.write_ts /\ q.since = k.since
<1> DEFINE more == IF k.wq = 0 THEN 1 ELSE k.wq
<1>0. IsCon(k) /\ k.mode = "plugin"
  BY DEF Good, IsCon, Shape
<1>1. more \in Nat /\ more # 0
  <2>1. k.wq \in Nat
    BY <1>0 DEF IsCon
  <2> QED BY <2>1
<1> HIDE DEF more
<1>2. CASE q = [k EXCEPT !.backend = "started", !.wq = more, !.answer = FALSE] /\ k.backend = "busy"
  <2>1. /\ DOMAIN q = ConFields /\ q.backend = "started" /\ q.wq = more /\ q.st = k.st
        /\ q.fd = k.fd
        /\ q.mode = k.mode /\ q.ev = k.ev /\ q.age = k.age /\ q.since = k.since
           /\ q.write_ts = k.write_ts
    BY <1>2, <1>0 DEF IsCon, ConFields
  <2>2. q.finished = k.finished /\ q.wr = k.wr
    BY <1>2, <1>0 DEF IsCon, ConFields
  <2>3. IsCon(q)
    BY <2>1, <1>1, <1>0 DEF IsCon
  <2>4. Shape(q)
    BY <2>1, <2>2, <1>0, <1>1, <1>2 DEF Shape, Good
  <2> QED BY <2>1, <2>3, <2>4 DEF Good
<1>3. CASE q = [k EXCEPT !.backend = "none", !.wq = more, !.finished = TRUE, !.answer = FALSE]
  <2>1. /\ DOMAIN q = ConFields /\ q.backend = "none" /\ q.wq = more /\ q.st = k.st /\ q.fd = k.fd
        /\ q.mode = k.mode /\ q.ev = k.ev /\ q.age = k.age /\ q.since = k.since
           /\ q.write_ts = k.write_ts
    BY <1>3, <1>0 DEF IsCon, ConFields
  <2>2. q.finished /\ q.wr = k.wr
    BY <1>3, <1>0 DEF IsCon, ConFields
  <2>3. IsCon(q)
    BY <2>1, <1>1, <1>0 DEF IsCon
  <2>4. Shape(q)
    BY <2>1, <2>2, <1>0, <1>1 DEF Shape, Good
  <2> QED BY <2>1, <2>3, <2>4 DEF Good
<1>4. CASE q = [k EXCEPT !.backend = "none", !.answer = FALSE, !.st = "ERROR"]
  <2>1. /\ DOMAIN q = ConFields /\ q.backend = "none" /\ q.wq = k.wq /\ q.st = "ERROR"
        /\ q.fd = k.fd
        /\ q.mode = k.mode /\ q.ev = k.ev /\ q.age = k.age /\ q.since = k.since
           /\ q.write_ts = k.write_ts
    BY <1>4, <1>0 DEF IsCon, ConFields
  <2>3. IsCon(q)
    BY <2>1, <1>0 DEF IsCon, States
  <2>4. Shape(q)
    BY <2>1, <1>0 DEF Shape, Good
  <2> QED BY <2>1, <2>3, <2>4 DEF Good
<1>5. CASE q = [k EXCEPT !.backend = "none", !.answer = FALSE, !.mode = "DIRECT", !.status = "error",
                         !.st = "HANDLE_REQUEST"] /\ k.backend = "busy"
  <2>1. /\ DOMAIN q = ConFields /\ q.backend = "none" /\ q.wq = k.wq /\ q.st = "HANDLE_REQUEST"
        /\ q.fd = k.fd
        /\ q.mode = "DIRECT" /\ q.ev = k.ev /\ q.age = k.age /\ q.since = k.since
           /\ q.write_ts = k.write_ts
    BY <1>5, <1>0 DEF IsCon, ConFields
  <2>2. q.wr = k.wr
    BY <1>5, <1>0 DEF IsCon, ConFields
  <2>3. IsCon(q)
    BY <2>1, <1>0 DEF IsCon, States
  <2>4. Shape(q)
    BY <2>1, <2>2, <1>0, <1>5 DEF Shape, Good
  <2> QED BY <2>1, <2>3, <2>4 DEF Good
<1>6. CASE q = [k EXCEPT !.backend = "wait_fd", !.answer = FALSE, !.retries = @ + 1]
           /\ k.backend = "busy"
  <2>1. /\ DOMAIN q = ConFields /\ q.backend = "wait_fd" /\ q.wq = k.wq /\ q.st = k.st
        /\ q.fd = k.fd
        /\ q.mode = k.mode /\ q.ev = k.ev /\ q.age = k.age /\ q.since = k.since
           /\ q.write_ts = k.write_ts
    BY <1>6, <1>0 DEF IsCon, ConFields
  <2>2. q.finished = k.finished /\ q.wr = k.wr
    BY <1>6, <1>0 DEF IsCon, ConFields
  <2>3. IsCon(q)
    BY <2>1, <1>0 DEF IsCon
  <2>4. Shape(q)
    BY <2>1, <2>2, <1>0, <1>6 DEF Shape, Good
  <2> QED BY <2>1, <2>3, <2>4 DEF Good
<1> QED BY <1>2, <1>3, <1>4, <1>5, <1>6 DEF BackendStep, more

(* A parsed request is decided, or waits for its body.                       *)
LEMMA ParseGood ==
  ASSUME NEW k, Good(k), k.st = "REQUEST_END", NEW q \in http_request_parse(k)
  PROVE  Keeps(k, q) /\ q.st \in {"HANDLE_REQUEST", "READ_POST"}
<1>0. IsCon(k)
  BY DEF Good
<1>1. CASE q = [k EXCEPT !.status = "error", !.keep_alive = FALSE, !.st = "HANDLE_REQUEST"]
  <2>1. Near(k, q) /\ q.st = "HANDLE_REQUEST"
    BY <1>0, <1>1 DEF Near, IsCon, ConFields
  <2> QED BY <2>1, NearGood DEF Calm
<1>2. CASE q = [k EXCEPT !.keep_alive = TRUE, !.st = "READ_POST"]
  <2>1. Near(k, q) /\ q.st = "READ_POST"
    BY <1>0, <1>2 DEF Near, IsCon, ConFields
  <2> QED BY <2>1, NearGood DEF Calm
<1>3. CASE q = [k EXCEPT !.keep_alive = (k.req = "get"), !.st = "HANDLE_REQUEST"]
  <2>1. Near(k, q) /\ q.st = "HANDLE_REQUEST"
    BY <1>0, <1>3 DEF Near, IsCon, ConFields
  <2> QED BY <2>1, NearGood DEF Calm
<1> QED BY <1>1, <1>2, <1>3 DEF http_request_parse

(* The answer is decided: RESPONSE_START.                                    *)
LEMMA DecidedGood ==
  ASSUME NEW k, Good(k), k.st = "HANDLE_REQUEST", k.backend \in {"none", "started"},
         k.mode = "DIRECT" => k.finished \/ k.status \notin {"none", "ok"}
  PROVE  LET q == [k EXCEPT !.st = "RESPONSE_START", !.status = IF @ = "none" THEN "ok" ELSE @]
         IN  Keeps(k, q) /\ q.st = "RESPONSE_START"
<1> DEFINE q == [k EXCEPT !.st = "RESPONSE_START", !.status = IF @ = "none" THEN "ok" ELSE @]
<1>1. /\ DOMAIN q = ConFields /\ q.backend = k.backend /\ q.wq = k.wq /\ q.st = "RESPONSE_START"
      /\ q.fd = k.fd
      /\ q.mode = k.mode /\ q.ev = k.ev /\ q.age = k.age /\ q.since = k.since
         /\ q.write_ts = k.write_ts
  BY DEF Good, IsCon, ConFields
<1>2. q.finished = k.finished /\ q.wr = k.wr
  BY DEF Good, IsCon, ConFields
<1>3. q.status = "ok" => k.status \in {"none", "ok"}
  BY DEF Good, IsCon, ConFields
<1> HIDE DEF q
<1>4. IsCon(q)
  BY <1>1 DEF Good, IsCon, States
<1>5. Shape(q) /\ BackendFd(q) = BackendFd(k)
  BY <1>1, <1>2, <1>3 DEF Good, Shape, BackendFd
<1> QED BY <1>1, <1>4, <1>5 DEF q, Keeps, Good

(* A connection without a request: a new one, or one after a reset.          *)
LEMMA ClearedGood ==
  ASSUME NEW q, IsCon(q), q.mode = "DIRECT", q.backend = "none", q.wr,
         q.st \in {"REQUEST_START", "CLOSE", "CONNECT"}
  PROVE  Good(q) /\ BackendFd(q) = 0
BY DEF Good, Shape, BackendFd

-----------------------------------------------------------------------------
(* The invariant.                                                            *)

Size == Cardinality(Cons)
Busy == {c \in Cons : BackendFd(con[c]) = 1}

(* Every connection has one place in the array; the first ones are in use.   *)
ArrayInv ==
  /\ ptr \in [1..Size -> Cons] /\ used \in 0..MaxConns
  /\ \A i, j \in 1..Size : ptr[i] = ptr[j] => i = j
  /\ \A c \in Cons : \E i \in 1..Size : ptr[i] = c

ConsInv ==
  /\ DOMAIN con = Cons /\ \A c \in Cons : Good(con[c])
  /\ \A c \in Open : con[c].st # "CONNECT"
  /\ \A c \in Cons \ Open : con[c].st = "CONNECT" /\ con[c].ev = ""

ClientsInv == DOMAIN client = Clients /\ \A p \in Clients : IsClient(client[p])

(* The connections in use and the accepted peers belong to each other.       *)
OwnersInv ==
  /\ \A c \in Open : con[c].fd \in Clients /\ client[con[c].fd].st = "accepted"
  /\ \A c, d \in Open : con[c].fd = con[d].fd => c = d
  /\ \A p \in Clients : client[p].st = "accepted" => \E c \in Open : con[c].fd = p

FdsInv == cur_fds = BaseFds + used + Cardinality(Busy)

Core == ArrayInv /\ ConsInv /\ ClientsInv /\ OwnersInv /\ FdsInv

LoopInv ==
  /\ pc \in {"top", "trigger", "sockets", "fdwait", "fdwaited", "poll", "events", "accept",
              "jobs", "machine", "stopped"}
  /\ run \in [con : Cons, ret : {"top", "trigger", "fdwaited", "accept", "jobs"}]
  /\ pc # "machine" => run = NoRun
  /\ pc = "machine" => run.ret # "top"
  /\ listening \in {"polled", "idle", "closed"}
  /\ joblist \in Seq(Cons) /\ fdwaitqueue \in Seq(Cons) /\ tix \in Nat \ {0}
     /\ fcntl_failures \in Nat
  /\ want_fds = Len(fdwaitqueue) + (IF run.ret = "fdwaited" \/ pc = "fdwaited" THEN 1 ELSE 0)

(* The results of a poll: of connections in use, and nobody closes one while *)
(* there are results left.                                                   *)
EventsInv ==
  /\ events # {} => pc \in {"events", "accept"} \/ (pc = "machine" /\ run.ret = "accept")
  /\ \A c \in Cons : <<"con", c>> \in events => c \in Open
  /\ \A c \in Cons : <<"backend", c>> \in events => con[c].backend \in {"busy", "started"}
  /\ pc = "machine" => <<"con", run.con>> \notin events /\ <<"backend", run.con>> \notin events

Queued(q) == {q[i] : i \in 1..Len(q)}
Working == pc \in {"events", "accept", "jobs"} \/ (pc = "machine" /\ run.ret \in {"accept", "jobs"})

(* A connection in use rests, is in hand, or is in a queue that is run       *)
(* before the next poll, or waits for a descriptor.                          *)
Attended(c) ==
  \/ Rests(con[c])
  \/ con[c].st = "HANDLE_REQUEST" /\ c \in Queued(fdwaitqueue)
  \/ con[c].st = "REQUEST_START" /\ fcntl_failures > 0
  \/ pc = "machine" /\ run.con = c
  \/ Working /\ c \in Queued(joblist)
AttendedInv == \A c \in Open : Attended(c)

(* An answer is stamped by its first write, which follows at once.           *)
FreshInv ==
  \A c \in Cons : con[c].st = "WRITE" =>
    Fresh(con[c]) \/ (pc = "machine" /\ run.con = c /\ con[c].wr /\ con[c].wq > 0)

Inv == Core /\ LoopInv /\ EventsInv /\ AttendedInv /\ FreshInv

-----------------------------------------------------------------------------
(* Counting.                                                                 *)

(* Two sets that differ in r at most differ in size by r at most.            *)
LEMMA OneElement ==
  ASSUME NEW S, NEW T, NEW r, IsFiniteSet(S), S \ {r} = T \ {r}
  PROVE  Cardinality(T) = Cardinality(S) + (IF r \in T THEN 1 ELSE 0) - (IF r \in S THEN 1 ELSE 0)
<1>1. IsFiniteSet(S \ {r}) /\ Cardinality(S \ {r}) \in Nat /\ Cardinality(S) \in Nat
  BY FS_RemoveElement, FS_CardinalityType
<1>2. Cardinality(S \ {r}) = IF r \in S THEN Cardinality(S) - 1 ELSE Cardinality(S)
  BY FS_RemoveElement
<1>3. IsFiniteSet(T) /\ Cardinality(T) \in Nat
  <2>1. CASE r \in T
    <3>1. T = (S \ {r}) \cup {r}
      BY <2>1
    <3> QED BY <1>1, <3>1, FS_AddElement, FS_CardinalityType
  <2>2. CASE r \notin T
    <3>1. T = S \ {r}
      BY <2>2
    <3> QED BY <1>1, <3>1, FS_CardinalityType
  <2> QED BY <2>1, <2>2
<1>4. Cardinality(T \ {r}) = IF r \in T THEN Cardinality(T) - 1 ELSE Cardinality(T)
  BY <1>3, FS_RemoveElement
<1> DEFINE cs == Cardinality(S)
           ct == Cardinality(T)
           cd == Cardinality(S \ {r})
<1>5. cs \in Nat /\ ct \in Nat /\ cd \in Nat
  BY <1>1, <1>3
<1>6. cd = (IF r \in S THEN cs - 1 ELSE cs) /\ cd = (IF r \in T THEN ct - 1 ELSE ct)
  BY <1>2, <1>4
<1> HIDE DEF cs, ct, cd
<1>7. ct = cs + (IF r \in T THEN 1 ELSE 0) - (IF r \in S THEN 1 ELSE 0)
  BY <1>5, <1>6
<1> QED BY <1>7 DEF cs, ct

(* The sizes are numbers.                                                    *)
LEMMA SizeType == Size \in Nat /\ MaxConns \in 1..Size /\ BaseFds \in Nat /\ IsFiniteSet(Cons)
  BY SizesAssumption, FS_CardinalityType DEF Size

(* A connection holds no or one backend descriptor.                          *)
LEMMA FdRange == ASSUME NEW k PROVE BackendFd(k) \in {0, 1}
  BY DEF BackendFd

(* The busy backends can be counted.                                         *)
LEMMA CountType == Cardinality(Busy) \in Nat /\ IsFiniteSet(Busy)
<1>1. Busy \subseteq Cons
  BY DEF Busy
<1> QED BY <1>1, SizeType, FS_Subset, FS_CardinalityType

(* One connection changes: the number of busy backends follows.              *)
LEMMA BusyStep ==
  ASSUME DOMAIN con = Cons, NEW c \in Cons, NEW q, con' = [con EXCEPT ![c] = q]
  PROVE  Cardinality(Busy') = Cardinality(Busy) + BackendFd(q) - BackendFd(con[c])
<1>1. Busy \ {c} = Busy' \ {c}
  BY DEF Busy
<1>2. (c \in Busy <=> BackendFd(con[c]) = 1) /\ (c \in Busy' <=> BackendFd(q) = 1)
  BY DEF Busy
<1>3. Cardinality(Busy') = Cardinality(Busy) + (IF c \in Busy' THEN 1 ELSE 0) - (IF c \in Busy THEN 1 ELSE 0)
  BY <1>1, CountType, OneElement
<1> DEFINE a == BackendFd(q)
           b == BackendFd(con[c])
<1>4. a \in {0, 1} /\ b \in {0, 1}
  BY FdRange
<1>5. Cardinality(Busy') = Cardinality(Busy) + (IF a = 1 THEN 1 ELSE 0) - (IF b = 1 THEN 1 ELSE 0)
  BY <1>2, <1>3
<1> HIDE DEF a, b
<1>6. Cardinality(Busy') = Cardinality(Busy) + a - b
  BY <1>4, <1>5
<1> QED BY <1>6 DEF a, b

(* What happens to peers does not accept or close one.                       *)
ClientsKept ==
  /\ DOMAIN client' = Clients
  /\ \A p \in Clients : IsClient(client'[p])
     /\ (client'[p].st = "accepted" <=> client[p].st = "accepted")

(* The connections in use are connections.                                   *)
LEMMA OpenType == ASSUME ArrayInv PROVE Open \subseteq Cons /\ used \in 0..Size
<1>1. used \in 0..Size /\ 1..used \subseteq 1..Size
  BY SizeType DEF ArrayInv
<1> QED BY <1>1 DEF Open, ArrayInv

(* A connection in use changes.                                              *)
LEMMA ConChange ==
  ASSUME Core, NEW c \in Open, NEW q, Good(q), q.fd = con[c].fd, q.st # "CONNECT",
         con' = [con EXCEPT ![c] = q],
         cur_fds' = cur_fds + BackendFd(q) - BackendFd(con[c]),
         ClientsKept, UNCHANGED <<ptr, used>>
  PROVE  Core'
<1>0. c \in Cons /\ Open' = Open
  BY OpenType DEF Open, Core
<1>1. ArrayInv'
  BY DEF Core, ArrayInv
<1>2. ConsInv'
  <2>1. DOMAIN con' = Cons /\ \A d \in Cons : con'[d] = IF d = c THEN q ELSE con[d]
    BY <1>0 DEF Core, ConsInv
  <2>2. \A d \in Cons : Good(con'[d])
    BY <2>1 DEF Core, ConsInv
  <2>3. \A d \in Open : con'[d].st # "CONNECT"
    BY <1>0, <2>1, OpenType DEF Core, ConsInv
  <2>4. \A d \in Cons \ Open : con'[d].st = "CONNECT" /\ con'[d].ev = ""
    BY <1>0, <2>1 DEF Core, ConsInv
  <2> QED BY <1>0, <2>1, <2>2, <2>3, <2>4 DEF ConsInv
<1>3. ClientsInv'
  BY DEF ClientsInv, ClientsKept
<1>4. OwnersInv'
  <2>1. \A d \in Open : con'[d].fd = con[d].fd
    BY <1>0, OpenType DEF Core, ConsInv
  <2> QED BY <1>0, <2>1 DEF Core, OwnersInv, ClientsKept
<1>5. FdsInv'
  <2>1. Cardinality(Busy') = Cardinality(Busy) + BackendFd(q) - BackendFd(con[c])
    BY <1>0, BusyStep DEF Core, ConsInv
  <2> DEFINE a == BackendFd(q)
             b == BackendFd(con[c])
             n == Cardinality(Busy)
             m == Cardinality(Busy')
  <2>2. a \in {0, 1} /\ b \in {0, 1} /\ n \in Nat /\ used \in Nat /\ used' = used
    BY FdRange, CountType, OpenType DEF Core
  <2>3. cur_fds = BaseFds + used + n /\ m = n + a - b /\ cur_fds' = cur_fds + a - b
        /\ BaseFds \in Nat
    BY <2>1, SizeType DEF Core, FdsInv
  <2> HIDE DEF a, b, n, m
  <2>4. cur_fds' = BaseFds + used' + m
    BY <2>2, <2>3
  <2> QED BY <2>4 DEF FdsInv, m
<1> QED BY <1>1, <1>2, <1>3, <1>4, <1>5 DEF Core

(* Nothing changes but peers that stay what they are.                        *)
LEMMA CoreFrame ==
  ASSUME Core, ClientsKept, UNCHANGED <<ptr, used, con, cur_fds>>
  PROVE  Core'
<1>1. ArrayInv' /\ Open' = Open /\ Busy' = Busy
  BY DEF Core, ArrayInv, Open, Busy
<1>2. ConsInv' /\ ClientsInv' /\ FdsInv'
  BY <1>1 DEF Core, ConsInv, ClientsInv, ClientsKept, FdsInv
<1>3. OwnersInv'
  BY <1>1 DEF Core, OwnersInv, ClientsKept
<1> QED BY <1>1, <1>2, <1>3 DEF Core

-----------------------------------------------------------------------------
(* The connection array.                                                     *)

(* connection_del takes c out of the part in use, and nothing else.          *)
LEMMA DelStep ==
  ASSUME ArrayInv, NEW c \in Open, connection_del(c)
  PROVE  ArrayInv' /\ Open' = Open \ {c} /\ used' = used - 1 /\ used \in Nat
<1> DEFINE i == CHOOSE j \in 1..used : ptr[j] = c
<1>1. i \in 1..used /\ ptr[i] = c
  BY DEF Open
<1>2. ptr' = [ptr EXCEPT ![i] = ptr[used], ![used] = c] /\ used' = used - 1
  BY DEF connection_del
<1> HIDE DEF i
<1>3. used \in 1..Size /\ i \in 1..Size /\ used \in 0..MaxConns /\ MaxConns \in Nat /\ Size \in Nat
  BY <1>1, OpenType, SizeType DEF ArrayInv
<1>4. c \in Cons
  BY OpenType
<1>5. /\ ptr' \in [1..Size -> Cons]
      /\ \A j \in 1..Size : ptr'[j] = IF j = used THEN c ELSE IF j = i THEN ptr[used] ELSE ptr[j]
  BY <1>2, <1>3, <1>4 DEF ArrayInv
<1>6. \A j, k \in 1..Size : ptr'[j] = ptr'[k] => j = k
  BY <1>1, <1>3, <1>5 DEF ArrayInv
<1>7. \A d \in Cons : \E j \in 1..Size : ptr'[j] = d
  <2> TAKE d \in Cons
  <2>1. PICK j \in 1..Size : ptr[j] = d
    BY DEF ArrayInv
  <2>2. CASE j = i
    BY <2>1, <2>2, <1>1, <1>3, <1>5
  <2>3. CASE j # i /\ j = used
    BY <2>1, <2>3, <1>3, <1>5
  <2>4. CASE j # i /\ j # used
    BY <2>1, <2>4, <1>5
  <2> QED BY <2>2, <2>3, <2>4
<1>8. used' \in 0..MaxConns /\ Size' = Size
  BY <1>2, <1>3
<1>9. Open' = Open \ {c}
  <2>1. ASSUME NEW d \in Open' PROVE d \in Open \ {c}
    <3>1. PICK j \in 1..used - 1 : ptr'[j] = d
      BY <1>2 DEF Open
    <3>2. j \in 1..Size /\ j # used /\ j \in 1..used
      BY <1>3
    <3>3. CASE j = i
      BY <3>1, <3>2, <3>3, <1>1, <1>3, <1>5 DEF Open, ArrayInv
    <3>4. CASE j # i
      BY <3>1, <3>2, <3>4, <1>1, <1>3, <1>5 DEF Open, ArrayInv
    <3> QED BY <3>3, <3>4
  <2>2. ASSUME NEW d \in Open \ {c} PROVE d \in Open'
    <3>1. PICK j \in 1..used : ptr[j] = d
      BY DEF Open
    <3>2. j # i /\ j \in 1..Size
      BY <3>1, <1>1, <1>3
    <3>3. CASE j = used
      <4>1. i \in 1..used - 1 /\ ptr'[i] = d
        BY <3>1, <3>2, <3>3, <1>1, <1>3, <1>5
      <4> QED BY <4>1, <1>2 DEF Open
    <3>4. CASE j # used
      <4>1. j \in 1..used - 1 /\ ptr'[j] = d
        BY <3>1, <3>2, <3>4, <1>3, <1>5
      <4> QED BY <4>1, <1>2 DEF Open
    <3> QED BY <3>3, <3>4
  <2> QED BY <2>1, <2>2
<1> QED BY <1>2, <1>3, <1>5, <1>6, <1>7, <1>8, <1>9 DEF ArrayInv

(* The peer of a connection that is closed.                                  *)
Gone == [st |-> "closed", script |-> <<>>, sent |-> 0, read |-> 0, fin |-> "no", full |-> FALSE, answers |-> 0]

(* A peer that is gone is a peer.                                            *)
LEMMA GoneClient == IsClient(Gone) /\ Gone.st = "closed"
<1>1. <<>> \in Seq(Tokens) /\ Len(<<>>) = 0
  OBVIOUS
<1>2. DOMAIN Gone = ClientFields /\ Gone.script = <<>> /\ Gone.sent = 0 /\ Gone.read = 0
      /\ Gone.st = "closed"
  BY DEF Gone, ClientFields
<1> QED BY <1>1, <1>2 DEF IsClient

(* The arithmetic of a close.                                                *)
LEMMA CloseCount ==
  ASSUME NEW b \in {0, 1}, NEW n \in Nat, NEW u \in Nat, NEW base \in Nat
  PROVE  (base + u + n) - 1 - b = base + (u - 1) + (n + 0 - b)
OBVIOUS

(* A connection is closed.                                                   *)
LEMMA CloseStep ==
  ASSUME Core, NEW c \in Open, NEW q, Good(q), q.st = "CONNECT", q.ev = "",
         con' = [con EXCEPT ![c] = q], connection_close(c, BackendFd(con[c]))
  PROVE  Core' /\ Open' = Open \ {c}
<1>0. c \in Cons /\ con[c].fd \in Clients /\ client[con[c].fd].st = "accepted"
  BY OpenType DEF Core, OwnersInv
<1>1. ArrayInv' /\ Open' = Open \ {c} /\ used' = used - 1 /\ used \in Nat
  BY DelStep DEF Core, connection_close
<1>2. client' = [client EXCEPT ![con[c].fd] = Gone]
  BY DEF connection_close, Gone
<1>3. ConsInv'
  <2>1. DOMAIN con' = Cons /\ \A d \in Cons : con'[d] = IF d = c THEN q ELSE con[d]
    BY <1>0 DEF Core, ConsInv
  <2>2. \A d \in Cons : Good(con'[d])
    BY <2>1 DEF Core, ConsInv
  <2>3. \A d \in Open \ {c} : con'[d].st # "CONNECT"
    BY <2>1, OpenType DEF Core, ConsInv
  <2>4. \A d \in Cons \ (Open \ {c}) : con'[d].st = "CONNECT" /\ con'[d].ev = ""
    BY <2>1 DEF Core, ConsInv
  <2> QED BY <1>1, <2>1, <2>2, <2>3, <2>4 DEF ConsInv
<1>4. ClientsInv'
  BY <1>0, <1>2, GoneClient DEF Core, ClientsInv
<1>5. OwnersInv'
  <2>1. \A d \in Open \ {c} : con'[d].fd = con[d].fd /\ con[d].fd # con[c].fd
    BY <1>0, OpenType DEF Core, ConsInv, OwnersInv
  <2>2. \A p \in Clients : client'[p].st = IF p = con[c].fd THEN "closed" ELSE client[p].st
    BY <1>0, <1>2, GoneClient DEF Core, ClientsInv
  <2>3. ASSUME NEW d \in Open \ {c}
        PROVE  con'[d].fd \in Clients /\ client'[con'[d].fd].st = "accepted"
    <3>1. con[d].fd \in Clients /\ client[con[d].fd].st = "accepted"
      BY DEF Core, OwnersInv
    <3>2. con'[d].fd = con[d].fd /\ con[d].fd # con[c].fd
      BY <2>1
    <3> QED BY <3>1, <3>2, <2>2
  <2>4. ASSUME NEW d \in Open \ {c}, NEW e \in Open \ {c}, con'[d].fd = con'[e].fd
        PROVE  d = e
    <3>1. con[d].fd = con[e].fd
      BY <2>1, <2>4
    <3> QED BY <3>1 DEF Core, OwnersInv
  <2>5. \A p \in Clients : client'[p].st = "accepted" => \E d \in Open \ {c} : con'[d].fd = p
    <3> SUFFICES ASSUME NEW p \in Clients, client'[p].st = "accepted"
                 PROVE  \E d \in Open \ {c} : con'[d].fd = p
      OBVIOUS
    <3>1. p # con[c].fd /\ client[p].st = "accepted"
      BY <2>2
    <3>2. PICK d \in Open : con[d].fd = p
      BY <3>1 DEF Core, OwnersInv
    <3> QED BY <3>1, <3>2, <2>1
  <2> QED BY <1>1, <2>3, <2>4, <2>5 DEF OwnersInv
<1>6. FdsInv'
  <2>1. Cardinality(Busy') = Cardinality(Busy) + BackendFd(q) - BackendFd(con[c])
    BY <1>0, BusyStep DEF Core, ConsInv
  <2>2. BackendFd(q) = 0
    BY DEF Good, Shape, BackendFd
  <2> DEFINE b == BackendFd(con[c])
             n == Cardinality(Busy)
             m == Cardinality(Busy')
  <2>3. b \in {0, 1} /\ n \in Nat /\ BaseFds \in Nat
    BY FdRange, CountType, SizeType
  <2>4. cur_fds = BaseFds + used + n /\ m = n + 0 - b /\ cur_fds' = cur_fds - 1 - b
    BY <2>1, <2>2 DEF Core, FdsInv, connection_close
  <2> HIDE DEF b, n, m
  <2>6. used' = used - 1 /\ used \in Nat
    BY <1>1
  <2>7. (BaseFds + used + n) - 1 - b = BaseFds + (used - 1) + (n + 0 - b)
    BY <2>3, <2>6, CloseCount, Zenon
  <2>8. cur_fds' = (BaseFds + used + n) - 1 - b
    BY <2>4, Zenon
  <2>5. cur_fds' = BaseFds + used' + m
    BY <2>4, <2>6, <2>7, <2>8, Zenon
  <2> QED BY <2>5 DEF FdsInv, m
<1> QED BY <1>1, <1>3, <1>4, <1>5, <1>6 DEF Core

(* A peer is accepted into the first unused place.                           *)
LEMMA NewConnection ==
  ASSUME Core, used < MaxConns
  PROVE  /\ connections_get_new_connection \in Cons \ Open
         /\ used + 1 \in 1..Size /\ used + 1 \in 0..MaxConns
<1>1. used + 1 \in 1..Size /\ used \in Nat /\ used + 1 \in 0..MaxConns
  BY SizeType DEF Core, ArrayInv
<1>2. ptr[used + 1] \in Cons
  BY <1>1 DEF Core, ArrayInv
<1>3. ASSUME NEW j \in 1..used, ptr[j] = ptr[used + 1] PROVE FALSE
  <2>1. j \in 1..Size /\ j # used + 1
    BY <1>1, SizeType
  <2> QED BY <1>1, <1>3, <2>1 DEF Core, ArrayInv
<1> QED BY <1>1, <1>2, <1>3 DEF Open, connections_get_new_connection

(* ... and becomes a connection in use.                                      *)
LEMMA AcceptStep ==
  ASSUME Core, used < MaxConns, NEW p \in Clients, client[p].st = "connecting",
         NEW c, c = connections_get_new_connection,
         NEW q, Good(q), q.fd = p, q.st = "REQUEST_START", BackendFd(q) = 0,
         con' = [con EXCEPT ![c] = q], client' = [client EXCEPT ![p].st = "accepted"],
         used' = used + 1, cur_fds' = cur_fds + 1, UNCHANGED ptr
  PROVE  Core' /\ Open' = Open \cup {c}
<1>0. /\ c \in Cons /\ c \notin Open /\ used + 1 \in 1..Size /\ used + 1 \in 0..MaxConns
      /\ used \in Nat
      /\ c = ptr[used + 1]
  BY NewConnection, SizeType DEF Core, ArrayInv, connections_get_new_connection
<1>1. ArrayInv'
  BY <1>0 DEF Core, ArrayInv
<1>2. Open' = Open \cup {c}
  <2>1. 1..used' = 1..used \cup {used + 1}
    BY <1>0
  <2> QED BY <1>0, <2>1 DEF Open
<1>3. /\ DOMAIN client' = Clients
      /\ \A o \in Clients : IsClient(client'[o])
      /\ \A o \in Clients : client'[o].st = IF o = p THEN "accepted" ELSE client[o].st
  <2>1. IsClient(client[p]) /\ DOMAIN client = Clients
    BY DEF Core, ClientsInv
  <2>2. IsClient([client[p] EXCEPT !.st = "accepted"])
        /\ [client[p] EXCEPT !.st = "accepted"].st = "accepted"
    BY <2>1 DEF IsClient, ClientFields
  <2> HIDE DEF IsClient
  <2>3. client' = [client EXCEPT ![p] = [client[p] EXCEPT !.st = "accepted"]]
    OBVIOUS
  <2> QED BY <2>1, <2>2, <2>3 DEF Core, ClientsInv
<1>4. ClientsInv'
  BY <1>3 DEF ClientsInv
<1>5. DOMAIN con' = Cons /\ \A d \in Cons : con'[d] = IF d = c THEN q ELSE con[d]
  BY <1>0 DEF Core, ConsInv
<1>6. ConsInv'
  <2>1. \A d \in Cons : Good(con'[d])
    BY <1>5 DEF Core, ConsInv
  <2>2. \A d \in Open \cup {c} : con'[d].st # "CONNECT"
    BY <1>0, <1>5, OpenType DEF Core, ConsInv
  <2>3. \A d \in Cons \ (Open \cup {c}) : con'[d].st = "CONNECT" /\ con'[d].ev = ""
    BY <1>5 DEF Core, ConsInv
  <2> QED BY <1>2, <1>5, <2>1, <2>2, <2>3 DEF ConsInv
<1>7. OwnersInv'
  <2>1. con'[c].fd = p /\ client'[p].st = "accepted"
    BY <1>0, <1>3, <1>5
  <2>2. ASSUME NEW d \in Open
        PROVE  /\ con'[d].fd = con[d].fd /\ con[d].fd # p /\ con[d].fd \in Clients
               /\ client'[con[d].fd].st = "accepted"
    <3>1. con[d].fd \in Clients /\ client[con[d].fd].st = "accepted" /\ d \in Cons
      BY OpenType DEF Core, OwnersInv
    <3>2. con[d].fd # p
      BY <3>1
    <3> QED BY <3>1, <3>2, <1>0, <1>3, <1>5
  <2>3. \A d \in Open \cup {c} : con'[d].fd \in Clients /\ client'[con'[d].fd].st = "accepted"
    BY <2>1, <2>2
  <2>4. ASSUME NEW d \in Open \cup {c}, NEW e \in Open \cup {c}, con'[d].fd = con'[e].fd
        PROVE  d = e
    BY <2>1, <2>2, <2>4 DEF Core, OwnersInv
  <2>5. ASSUME NEW o \in Clients, client'[o].st = "accepted"
        PROVE  \E d \in Open \cup {c} : con'[d].fd = o
    <3>1. CASE o = p
      BY <3>1, <2>1
    <3>2. CASE o # p
      <4>1. client[o].st = "accepted"
        BY <3>2, <2>5, <1>3
      <4>2. PICK d \in Open : con[d].fd = o
        BY <4>1 DEF Core, OwnersInv
      <4> QED BY <4>2, <2>2
    <3> QED BY <3>1, <3>2
  <2> QED BY <1>2, <2>3, <2>4, <2>5 DEF OwnersInv
<1>8. FdsInv'
  <2>1. Cardinality(Busy') = Cardinality(Busy) + BackendFd(q) - BackendFd(con[c])
    BY <1>0, BusyStep DEF Core, ConsInv
  <2>2. BackendFd(con[c]) = 0
    BY <1>0 DEF Core, ConsInv, Good, Shape, BackendFd
  <2> DEFINE n == Cardinality(Busy)
             m == Cardinality(Busy')
  <2>3. n \in Nat /\ BaseFds \in Nat /\ used \in Nat
    BY CountType, SizeType, <1>0
  <2>4. cur_fds = BaseFds + used + n /\ m = n + 0 - 0
    BY <2>1, <2>2 DEF Core, FdsInv
  <2> HIDE DEF n, m
  <2>5. m = n
    BY <2>3, <2>4
  <2>6. cur_fds' = BaseFds + used' + m
    BY <2>3, <2>4, <2>5
  <2> QED BY <2>6 DEF FdsInv, m
<1> QED BY <1>1, <1>2, <1>4, <1>6, <1>7, <1>8 DEF Core

-----------------------------------------------------------------------------
(* Queues and peers.                                                         *)

(* What append and tail do to the members of a queue.                        *)
LEMMA QueueFacts ==
  ASSUME NEW s \in Seq(Cons), NEW c \in Cons
  PROVE  /\ Append(s, c) \in Seq(Cons) /\ Len(Append(s, c)) = Len(s) + 1
         /\ Queued(Append(s, c)) = Queued(s) \cup {c}
         /\ s # <<>> => /\ Head(s) \in Cons /\ Tail(s) \in Seq(Cons) /\ Len(Tail(s)) = Len(s) - 1
                        /\ Queued(s) = {Head(s)} \cup Queued(Tail(s))
<1>1. Append(s, c) \in Seq(Cons) /\ Len(Append(s, c)) = Len(s) + 1 /\ Len(s) \in Nat
  OBVIOUS
<1>2. Queued(Append(s, c)) = Queued(s) \cup {c}
  <2>1. \A i \in 1..Len(s) : Append(s, c)[i] = s[i]
    OBVIOUS
  <2>2. Append(s, c)[Len(s) + 1] = c
    OBVIOUS
  <2>3. 1..(Len(s) + 1) = 1..Len(s) \cup {Len(s) + 1}
    BY <1>1
  <2> QED BY <1>1, <2>1, <2>2, <2>3 DEF Queued
<1>3. ASSUME s # <<>>
      PROVE  /\ Head(s) \in Cons /\ Tail(s) \in Seq(Cons) /\ Len(Tail(s)) = Len(s) - 1
             /\ Queued(s) = {Head(s)} \cup Queued(Tail(s))
  <2>1. Head(s) \in Cons /\ Tail(s) \in Seq(Cons) /\ Len(Tail(s)) = Len(s) - 1 /\ Head(s) = s[1]
        /\ Len(s) > 0
    BY <1>3
  <2>2. \A i \in 1..Len(Tail(s)) : Tail(s)[i] = s[i + 1]
    BY <1>3
  <2>3. ASSUME NEW i \in 1..Len(s) PROVE s[i] \in {Head(s)} \cup Queued(Tail(s))
    <3>1. CASE i = 1
      BY <2>1, <3>1
    <3>2. CASE i # 1
      <4>1. i - 1 \in 1..Len(Tail(s)) /\ (i - 1) + 1 = i
        BY <1>1, <2>1, <3>2
      <4>2. Tail(s)[i - 1] = s[i]
        BY <2>2, <4>1
      <4> QED BY <4>1, <4>2 DEF Queued
    <3> QED BY <3>1, <3>2
  <2>4. ASSUME NEW i \in 1..Len(Tail(s)) PROVE Tail(s)[i] \in Queued(s)
    <3>1. i + 1 \in 1..Len(s)
      BY <1>1, <2>1
    <3> QED BY <2>2, <3>1 DEF Queued
  <2>5. Head(s) \in Queued(s)
    <3>1. 1 \in 1..Len(s)
      BY <1>1, <2>1
    <3> QED BY <2>1, <3>1 DEF Queued
  <2>6. Queued(s) \subseteq {Head(s)} \cup Queued(Tail(s))
    BY <2>3 DEF Queued
  <2>7. Queued(Tail(s)) \subseteq Queued(s)
    BY <2>4 DEF Queued
  <2> QED BY <2>1, <2>5, <2>6, <2>7
<1> QED BY <1>1, <1>2, <1>3

(* A call that took what was there leaves the peer accepted.                 *)
LEMMA TookKept ==
  ASSUME ClientsInv, NEW k, k.fd \in Clients, client[k.fd].st = "accepted", NEW r,
         GoodResult(k, r), Took(r)
  PROVE  ClientsKept
<1> DEFINE p == k.fd
           a == IF r.k.st = "RESPONSE_END" THEN 1 ELSE 0
           e == [client[p] EXCEPT !.read = @ + r.taken, !.full = r.full, !.answers = @ + a]
<1>1. r.k.fd = p /\ r.taken \in Nat /\ client[p].read + r.taken <= client[p].sent
  BY DEF GoodResult, Keeps
<1>2. client' = [client EXCEPT ![p] = e]
  BY <1>1 DEF Took
<1>3. /\ IsClient(client[p]) /\ DOMAIN client[p] = ClientFields
      /\ client[p].read \in Nat /\ client[p].sent \in Nat
  BY DEF ClientsInv, IsClient
<1>4. /\ DOMAIN e = ClientFields /\ e.read = client[p].read + r.taken /\ e.sent = client[p].sent
      /\ e.script = client[p].script /\ e.st = client[p].st
  BY <1>3 DEF ClientFields
<1> HIDE DEF e
<1>5. e.read \in 0..e.sent
  <2>1. client[p].read + r.taken \in 0..client[p].sent
    BY <1>1, <1>3
  <2> QED BY <1>4, <2>1
<1>6. IsClient(e)
  BY <1>3, <1>4, <1>5 DEF IsClient, ClientFields
<1>7. DOMAIN client' = Clients /\ \A o \in Clients : client'[o] = IF o = p THEN e ELSE client[o]
  BY <1>2 DEF ClientsInv
<1> HIDE DEF p
<1> QED BY <1>4, <1>6, <1>7 DEF ClientsKept, ClientsInv

-----------------------------------------------------------------------------
(* The state machine.                                                        *)

Stay == UNCHANGED <<pc, run>>
GoBack == pc' = run.ret /\ run' = NoRun

(* What leaves the state machine rests or has queued for a descriptor.       *)
Settled(q) == Rests(q) \/ (q.st = "HANDLE_REQUEST" /\ run.con \in Queued(fdwaitqueue)')

Queues ==
  /\ joblist' \in Seq(Cons) /\ Queued(joblist) \subseteq Queued(joblist)'
  /\ fdwaitqueue' \in Seq(Cons) /\ Queued(fdwaitqueue) \subseteq Queued(fdwaitqueue)'
  /\ want_fds' = want_fds + (Len(fdwaitqueue') - Len(fdwaitqueue))

(* A round of the state machine changes its connection to q.                 *)
Turn(q) ==
  /\ pc = "machine" /\ con' = [con EXCEPT ![run.con] = q]
  /\ Stay \/ (GoBack /\ (run.con \in Open' => Settled(q)))
  /\ q.st = "WRITE" => Fresh(q) \/ (Stay /\ q.wr /\ q.wq > 0)
  /\ Queues /\ Open' \cup {run.con} = Open \cup {run.con}
  /\ UNCHANGED <<events, tix, listening, fcntl_failures>>

(* A round of the state machine keeps the invariant, if it keeps its core.   *)
LEMMA TurnStep ==
  ASSUME Inv, NEW q, Turn(q), Core'
  PROVE  Inv'
<1>0. pc = "machine" /\ run.con \in Cons /\ LoopInv /\ DOMAIN con = Cons
  BY DEF Inv, Core, ConsInv, LoopInv, Turn
<1>1. \A d \in Cons : con'[d] = IF d = run.con THEN q ELSE con[d]
  BY <1>0 DEF Turn
<1>2. run \in [con : Cons, ret : {"top", "trigger", "fdwaited", "accept", "jobs"}]
      /\ run.ret \in {"trigger", "fdwaited", "accept", "jobs"}
  BY <1>0 DEF LoopInv
<1>3. NoRun.ret = "top"
  BY DEF NoRun
<1>4. LoopInv'
  <2>1. CASE Stay
    <3>1. want_fds' = Len(fdwaitqueue') + (IF run.ret = "fdwaited" \/ pc = "fdwaited" THEN 1 ELSE 0)
      <4> DEFINE i == IF run.ret = "fdwaited" \/ pc = "fdwaited" THEN 1 ELSE 0
      <4>1. want_fds = Len(fdwaitqueue) + i /\ i \in {0, 1}
        BY DEF Inv, LoopInv
      <4>2. want_fds' = want_fds + (Len(fdwaitqueue') - Len(fdwaitqueue))
        BY DEF Turn, Queues
      <4>3. Len(fdwaitqueue) \in Nat /\ Len(fdwaitqueue') \in Nat
        BY DEF Inv, LoopInv, Turn, Queues
      <4> HIDE DEF i
      <4>4. want_fds' = Len(fdwaitqueue') + i
        BY <4>1, <4>2, <4>3
      <4> QED BY <4>4 DEF i
    <3> QED BY <1>0, <2>1, <3>1 DEF LoopInv, Turn, Queues, Stay
  <2>2. CASE GoBack
    <3>1. want_fds' = Len(fdwaitqueue') + (IF run.ret = "fdwaited" THEN 1 ELSE 0)
      <4> DEFINE i == IF run.ret = "fdwaited" THEN 1 ELSE 0
      <4>1. want_fds = Len(fdwaitqueue) + i /\ i \in {0, 1}
        BY <1>0 DEF LoopInv
      <4>2. want_fds' = want_fds + (Len(fdwaitqueue') - Len(fdwaitqueue))
        BY DEF Turn, Queues
      <4>3. Len(fdwaitqueue) \in Nat /\ Len(fdwaitqueue') \in Nat
        BY DEF Inv, LoopInv, Turn, Queues
      <4> HIDE DEF i
      <4>4. want_fds' = Len(fdwaitqueue') + i
        BY <4>1, <4>2, <4>3
      <4> QED BY <4>4 DEF i
    <3>2. pc' = run.ret /\ run' = NoRun
      BY <2>2 DEF GoBack
    <3>3. NoRun \in [con : Cons, ret : {"top", "trigger", "fdwaited", "accept", "jobs"}]
      BY <1>0 DEF NoRun
    <3>4. tix' = tix /\ listening' = listening /\ fcntl_failures' = fcntl_failures
          /\ joblist' \in Seq(Cons) /\ fdwaitqueue' \in Seq(Cons)
      BY DEF Turn, Queues
    <3> QED BY <1>0, <1>2, <1>3, <3>1, <3>2, <3>3, <3>4 DEF LoopInv
  <2> QED BY <2>1, <2>2 DEF Turn
<1>5. EventsInv'
  <2>1. EventsInv /\ events' = events
    BY DEF Inv, Turn
  <2>2. events # {} => pc' \in {"accept"} \/ (pc' = "machine" /\ run'.ret = "accept")
    BY <1>0, <2>1 DEF EventsInv, Turn, Stay, GoBack
  <2>3. ASSUME NEW c \in Cons, <<"con", c>> \in events PROVE c \in Open'
    BY <1>0, <2>1, <2>3 DEF EventsInv, Turn
  <2>4. ASSUME NEW c \in Cons, <<"backend", c>> \in events
        PROVE  con'[c].backend \in {"busy", "started"}
    BY <1>0, <1>1, <2>1, <2>4 DEF EventsInv
  <2>5. pc' = "machine" => <<"con", run'.con>> \notin events
        /\ <<"backend", run'.con>> \notin events
    BY <1>0, <1>2, <2>1 DEF EventsInv, Turn, Stay, GoBack
  <2> QED BY <2>1, <2>2, <2>3, <2>4, <2>5 DEF EventsInv
<1>6. AttendedInv'
  <2> SUFFICES ASSUME NEW d \in Open' PROVE Attended(d)'
    BY DEF AttendedInv
  <2>0. d \in Cons
    BY <1>0, OpenType DEF Inv, Core, Turn
  <2>1. CASE d = run.con
    <3>1. CASE Stay
      BY <1>0, <2>1, <3>1 DEF Attended, Stay
    <3>2. CASE GoBack
      <4>1. Settled(q) /\ con'[d] = q
        BY <1>0, <1>1, <2>0, <2>1, <3>2, <1>2 DEF Turn, Stay, GoBack
      <4> QED BY <4>1, <2>1 DEF Settled, Attended, Rests
    <3> QED BY <3>1, <3>2 DEF Turn
  <2>2. CASE d # run.con
    <3>1. d \in Open /\ con'[d] = con[d]
      BY <1>1, <2>0, <2>2 DEF Turn
    <3>2. Attended(d)
      BY <3>1 DEF Inv, AttendedInv
    <3>3. Working => Working'
      BY <1>0, <1>2 DEF Working, Turn, Stay, GoBack
    <3>4. Queued(joblist) \subseteq Queued(joblist)'
          /\ Queued(fdwaitqueue) \subseteq Queued(fdwaitqueue)'
          /\ fcntl_failures' = fcntl_failures
      BY DEF Turn, Queues
    <3>5. Rests(con[d]) => Rests(con[d])'
      BY <3>1 DEF Rests
    <3>6. Rests(con[d]) \/ (con[d].st = "HANDLE_REQUEST" /\ d \in Queued(fdwaitqueue))
          \/ (con[d].st = "REQUEST_START" /\ fcntl_failures > 0)
          \/ (Working /\ d \in Queued(joblist))
      BY <2>2, <3>2 DEF Attended
    <3> QED BY <3>1, <3>3, <3>4, <3>5, <3>6 DEF Attended
  <2> QED BY <2>1, <2>2
<1>7. FreshInv'
  <2> SUFFICES ASSUME NEW d \in Cons, con'[d].st = "WRITE"
               PROVE  Fresh(con'[d]) \/ (pc' = "machine" /\ run'.con = d /\ con'[d].wr /\ con'[d].wq > 0)
    BY DEF FreshInv, Fresh
  <2>1. CASE d = run.con
    BY <1>0, <1>1, <2>1 DEF Turn, Stay
  <2>2. CASE d # run.con
    BY <1>1, <2>2 DEF Inv, FreshInv
  <2> QED BY <2>1, <2>2
<1> QED BY <1>4, <1>5, <1>6, <1>7 DEF Inv

(* The connection in the state machine, unless it was closed.                *)
LEMMA InMachine ==
  ASSUME Inv, pc = "machine", con[run.con].st # "CONNECT"
  PROVE  /\ run.con \in Cons /\ run.con \in Open /\ Good(con[run.con]) /\ IsCon(con[run.con])
         /\ con[run.con].fd \in Clients /\ IsClient(client[con[run.con].fd])
         /\ client[con[run.con].fd].st = "accepted" /\ ClientsInv
<1>1. run.con \in Cons
  BY DEF Inv, LoopInv
<1> QED BY <1>1 DEF Inv, Core, ConsInv, OwnersInv, ClientsInv, Good

(* No peer changes: all are kept.                                            *)
LEMMA UnchangedClients == ASSUME ClientsInv, UNCHANGED client PROVE ClientsKept
BY DEF ClientsInv, ClientsKept

(* A round that leaves the queues alone, or appends its connection to the job list. *)
LEMMA SameQueues ==
  ASSUME Inv, UNCHANGED <<want_fds, fdwaitqueue>>,
         joblist' = joblist \/ joblist' = Append(joblist, run.con)
  PROVE  Queues
<1>1. joblist \in Seq(Cons) /\ fdwaitqueue \in Seq(Cons) /\ run.con \in Cons
      /\ want_fds = Len(fdwaitqueue) + (IF run.ret = "fdwaited" \/ pc = "fdwaited" THEN 1 ELSE 0)
  BY DEF Inv, LoopInv
<1>2. joblist' \in Seq(Cons) /\ Queued(joblist) \subseteq Queued(joblist)'
  <2>1. CASE joblist' = joblist
    BY <1>1, <2>1 DEF Queued
  <2>2. CASE joblist' = Append(joblist, run.con)
    BY <1>1, <2>2, QueueFacts DEF Queued
  <2> QED BY <2>1, <2>2
<1>3. want_fds' = want_fds + (Len(fdwaitqueue') - Len(fdwaitqueue))
  <2>1. Len(fdwaitqueue) \in Nat
    BY <1>1
  <2>2. want_fds \in Nat
    BY <1>1, <2>1
  <2> QED BY <2>1, <2>2
<1> QED BY <1>1, <1>2, <1>3 DEF Queues, Queued

(* A round changes the connection in hand: the core of the invariant holds   *)
(* after it.                                                                 *)
LEMMA CoreOfTurn ==
  ASSUME Inv, run.con \in Open, NEW q, Good(q), q.fd = con[run.con].fd, q.st # "CONNECT",
         con' = [con EXCEPT ![run.con] = q],
         cur_fds' = cur_fds + BackendFd(q) - BackendFd(con[run.con]),
         ClientsKept, UNCHANGED <<ptr, used>>
  PROVE  Core' /\ Open' = Open
BY ConChange DEF Inv, Open

(* A connection that keeps its backend descriptor or its lack of one: as     *)
(* many in use.                                                              *)
LEMMA SameFds ==
  ASSUME Inv, UNCHANGED cur_fds, NEW k, NEW q, BackendFd(k) = BackendFd(q)
  PROVE  cur_fds' = cur_fds + BackendFd(q) - BackendFd(k)
<1>1. cur_fds = BaseFds + used + Cardinality(Busy) /\ BaseFds \in Nat /\ used \in Nat
      /\ Cardinality(Busy) \in Nat
  BY CountType, SizeType, OpenType DEF Inv, Core, FdsInv
<1> DEFINE a == BackendFd(k)
           b == BackendFd(q)
           n == Cardinality(Busy)
<1>2. a \in {0, 1} /\ b = a
  BY FdRange
<1> HIDE DEF a, b, n
<1>3. cur_fds \in Nat
  BY <1>1 DEF n
<1>4. cur_fds' = cur_fds + b - a
  BY <1>2, <1>3
<1> QED BY <1>4 DEF a, b

(* A round that only changes the connection.                                 *)
LEMMA RoundStep ==
  ASSUME Inv, pc = "machine", run.con \in Open, NEW k, Keeps(con[run.con], k), k.st # "CONNECT",
         Round(k),
         k.st = con[run.con].st =>
           k.st \in {"READ", "READ_POST", "CLOSE"} \/ (k.st = "WRITE" /\ (k.wq = 0 \/ ~k.wr)),
         k.st = "WRITE" => Fresh(k) \/ (k.st # con[run.con].st /\ k.wr /\ k.wq > 0),
         ClientsKept, joblist' = joblist \/ joblist' = Append(joblist, run.con),
         UNCHANGED <<machineRest, ptr, used, cur_fds>>
  PROVE  Inv'
<1>1. Queues /\ UNCHANGED <<events, tix, listening, fcntl_failures>>
  BY SameQueues DEF machineRest, loopVars, ctlVars
<1>2. Good(k) /\ k.fd = con[run.con].fd /\ BackendFd(k) = BackendFd(con[run.con])
  BY DEF Keeps
<1>3. CASE k.st # con[run.con].st
  <2>1. con' = [con EXCEPT ![run.con] = k] /\ Stay
    BY <1>3 DEF Round, Again, Stay
  <2>2. Core' /\ Open' = Open
    BY <1>2, <2>1, CoreOfTurn, SameFds
  <2>3. Turn(k)
    BY <1>1, <1>3, <2>1, <2>2 DEF Turn
  <2> QED BY <2>2, <2>3, TurnStep
<1>4. CASE k.st = con[run.con].st
  <2> DEFINE q == Interest(k)
  <2>1. con' = [con EXCEPT ![run.con] = q] /\ GoBack
    BY <1>4 DEF Round, Leave, GoBack
  <2>2. /\ Keeps(k, q) /\ q.st = k.st /\ q.write_ts = k.write_ts /\ q.since = k.since
        /\ q.backend = k.backend /\ q.wq = k.wq /\ q.paused = k.paused
        /\ k.st \in {"READ", "READ_POST", "CLOSE"} => q.ev = "in"
        /\ k.st = "WRITE" /\ k.wq > 0 /\ ~k.wr /\ k.paused # "yes" => q.ev = "out"
    BY <1>2, InterestGood
  <2> HIDE DEF q
  <2>3. Good(q) /\ q.fd = con[run.con].fd /\ BackendFd(q) = BackendFd(con[run.con])
    BY <1>2, <2>2 DEF Keeps
  <2>4. Core' /\ Open' = Open
    BY <2>1, <2>2, <2>3, CoreOfTurn, SameFds
  <2>5. Rests(q)
    <3>1. CASE k.st \in {"READ", "READ_POST", "CLOSE"}
      BY <2>2, <3>1 DEF Rests
    <3>2. CASE k.st = "WRITE" /\ k.wq > 0
      <4>1. ~k.wr
        <5>1. k.wq # 0
          BY <3>2
        <5> QED BY <1>4, <3>2, <5>1
      <4> QED BY <2>2, <3>2, <4>1 DEF Rests
    <3>3. CASE k.st = "WRITE" /\ ~(k.wq > 0)
      <4>0. k.wq \in Nat
        BY <1>2 DEF Good, IsCon
      <4>1. k.wq = 0
        BY <4>0, <3>3
      <4>2. k.backend = "started"
        BY <1>2, <3>3, <4>1 DEF Good, Shape
      <4> QED BY <2>2, <3>3, <4>2 DEF Rests
    <3> QED BY <1>4, <3>1, <3>2, <3>3
  <2>6. q.st = "WRITE" => Fresh(q)
    BY <1>4, <2>2 DEF Fresh
  <2>7. Turn(q)
    BY <1>1, <2>1, <2>4, <2>5, <2>6 DEF Turn, Settled
  <2> QED BY <2>4, <2>7, TurnStep
<1> QED BY <1>3, <1>4

(* The states of the machine, one lemma each.                                *)
LEMMA RequestStartStep == ASSUME Inv, RequestStart PROVE Inv'
<1> DEFINE k == [con[run.con] EXCEPT !.st = "READ", !.count = @ + 1, !.age = 0]
<1>1. pc = "machine" /\ con[run.con].st = "REQUEST_START"
  BY DEF RequestStart, In
<1>2. run.con \in Open /\ Good(con[run.con]) /\ IsCon(con[run.con]) /\ ClientsInv
  BY <1>1, InMachine
<1>3. k.st = "READ" /\ Near(con[run.con], k)
  <2>1. k.age = 0 /\ k.st = "READ"
    BY <1>2 DEF IsCon, ConFields
  <2>2. k.age \in 0..Expired
    BY <2>1, Numbers
  <2> QED BY <1>2, <2>1, <2>2 DEF Near, IsCon, ConFields
<1>4. Round(k) /\ UNCHANGED <<machineRest, ptr, used, cur_fds, joblist, client>>
  BY DEF RequestStart
<1> HIDE DEF k
<1>5. Keeps(con[run.con], k)
  BY <1>1, <1>2, <1>3, NearGood DEF Calm
<1>6. ClientsKept
  BY <1>2, <1>4, UnchangedClients
<1> QED BY <1>1, <1>2, <1>3, <1>4, <1>5, <1>6, RoundStep

(* READ and READ_POST.                                                       *)
LEMMA ReadStateStep == ASSUME Inv, ReadState PROVE Inv'
<1>1. pc = "machine" /\ con[run.con].st \in {"READ", "READ_POST"}
  BY DEF ReadState, In
<1>2. /\ run.con \in Open /\ Good(con[run.con]) /\ ClientsInv
      /\ con[run.con].fd \in Clients /\ IsClient(client[con[run.con].fd])
      /\ client[con[run.con].fd].st = "accepted"
  BY <1>1, InMachine
<1>3. PICK r \in connection_handle_read_state(con[run.con]) : Round(r.k) /\ Took(r)
  BY DEF ReadState
<1>4. GoodResult(con[run.con], r) /\ r.k.st \in Calm \cup {"ERROR"}
  BY <1>1, <1>2, ReadGood
<1>5. ClientsKept
  BY <1>2, <1>3, <1>4, TookKept
<1>6. UNCHANGED <<machineRest, ptr, used, cur_fds, joblist>>
  BY DEF ReadState
<1> DEFINE k == r.k
<1>7. Round(k) /\ Keeps(con[run.con], k) /\ k.st \in Calm \cup {"ERROR"}
  BY <1>3, <1>4 DEF GoodResult
<1> HIDE DEF k
<1> QED BY <1>1, <1>2, <1>5, <1>6, <1>7, RoundStep DEF Calm

(* REQUEST_END.                                                              *)
LEMMA RequestEndStep == ASSUME Inv, RequestEnd PROVE Inv'
<1>1. pc = "machine" /\ con[run.con].st = "REQUEST_END"
  BY DEF RequestEnd, In
<1>2. run.con \in Open /\ Good(con[run.con]) /\ ClientsInv
  BY <1>1, InMachine
<1>3. PICK k \in http_request_parse(con[run.con]) : Round(k)
  BY DEF RequestEnd
<1>4. Keeps(con[run.con], k) /\ k.st \in {"HANDLE_REQUEST", "READ_POST"}
  BY <1>1, <1>2, ParseGood
<1>5. UNCHANGED <<machineRest, ptr, used, cur_fds, joblist, client>>
  BY DEF RequestEnd
<1>6. ClientsKept
  BY <1>2, <1>5, UnchangedClients
<1> QED BY <1>1, <1>2, <1>3, <1>4, <1>5, <1>6, RoundStep

(* An answer is there: a 404 is looked at again, the rest goes out.          *)
LEMMA PreparedStep ==
  ASSUME Inv, pc = "machine", con[run.con].st = "HANDLE_REQUEST",
         NEW k, Keeps(con[run.con], k), k.st = "HANDLE_REQUEST", k.backend \in {"none", "started"},
         k.mode = "DIRECT" => k.finished \/ k.status \notin {"none", "ok"},
         Prepared(k), UNCHANGED <<machineRest, ptr, used, cur_fds, joblist, client>>
  PROVE  Inv'
<1>2. run.con \in Open /\ Good(con[run.con]) /\ ClientsInv
  BY InMachine
<1>3. Good(k) /\ IsCon(k) /\ k.fd = con[run.con].fd /\ BackendFd(k) = BackendFd(con[run.con])
  BY DEF Keeps, Good
<1>6. ClientsKept
  BY <1>2, UnchangedClients
<1>7. CASE k.mode = "DIRECT" /\ k.status = "missing" /\ ~k.in_error_handler
  <2> DEFINE q == [k EXCEPT !.status = "none", !.in_error_handler = TRUE]
  <2>1. con' = [con EXCEPT ![run.con] = q] /\ Stay
    BY <1>7 DEF Prepared, Again, Stay
  <2>2. Near(k, q) /\ q.st = "HANDLE_REQUEST"
    BY <1>3 DEF Near, IsCon, ConFields
  <2> HIDE DEF q
  <2>3. Keeps(k, q)
    BY <1>3, <2>2, NearGood
  <2>4. Good(q) /\ q.fd = con[run.con].fd /\ BackendFd(q) = BackendFd(con[run.con])
    BY <1>3, <2>3 DEF Keeps
  <2>5. Core' /\ Open' = Open
    BY <1>2, <1>6, <2>1, <2>2, <2>4, CoreOfTurn, SameFds
  <2>6. Queues /\ UNCHANGED <<events, tix, listening, fcntl_failures>>
    BY SameQueues DEF machineRest, loopVars, ctlVars
  <2>7. Turn(q)
    BY <2>1, <2>2, <2>5, <2>6 DEF Turn
  <2> QED BY <2>5, <2>7, TurnStep
<1>8. CASE ~(k.mode = "DIRECT" /\ k.status = "missing" /\ ~k.in_error_handler)
  <2> DEFINE q == [k EXCEPT !.st = "RESPONSE_START", !.status = IF @ = "none" THEN "ok" ELSE @]
  <2>1. Round(q)
    BY <1>8 DEF Prepared
  <2>2. Keeps(k, q) /\ q.st = "RESPONSE_START"
    BY <1>3, DecidedGood
  <2> HIDE DEF q
  <2>3. Keeps(con[run.con], q)
    BY <1>3, <2>2 DEF Keeps
  <2> QED BY <1>2, <1>6, <2>1, <2>2, <2>3, RoundStep
<1> QED BY <1>7, <1>8

(* What an answer puts into the connection before it goes out.               *)
Filled(k, q) ==
  /\ DOMAIN q = ConFields /\ q.wq \in Nat
  /\ q.st = k.st /\ q.fd = k.fd /\ q.mode = k.mode /\ q.backend = k.backend /\ q.ev = k.ev
  /\ q.since = k.since /\ q.write_ts = k.write_ts /\ q.age = k.age
  /\ (k.finished => q.finished) /\ (k.wr => q.wr)

(* Filling in an answer keeps the connection well-formed.                    *)
LEMMA FilledGood ==
  ASSUME NEW k, Good(k), k.st = "HANDLE_REQUEST", NEW q, Filled(k, q)
  PROVE  Keeps(k, q)
<1>1. IsCon(q)
  BY DEF Filled, Good, IsCon
<1>2. Shape(q)
  BY DEF Filled, Good, Shape
<1>3. BackendFd(q) = BackendFd(k) /\ q.fd = k.fd
  BY DEF Filled, BackendFd
<1> QED BY <1>1, <1>2, <1>3 DEF Keeps, Good

(* HANDLE_REQUEST, the answer decided.                                       *)
LEMMA HandleDecidedStep == ASSUME Inv, HandleDecided PROVE Inv'
<1> DEFINE k == con[run.con]
<1>1. pc = "machine" /\ k.st = "HANDLE_REQUEST"
  BY DEF HandleDecided, In
<1>2. run.con \in Open /\ Good(k) /\ IsCon(k)
  BY <1>1, InMachine
<1>3. UNCHANGED <<machineRest, ptr, used, cur_fds, joblist, client>>
  BY DEF HandleDecided
<1>4. \/ k.mode = "DIRECT" /\ k.status = "error"
         /\ Prepared([k EXCEPT !.wq = IF k.finished THEN @ ELSE 0])
      \/ k.mode = "plugin" /\ k.backend \in {"none", "started"} /\ Prepared(k)
  BY DEF HandleDecided
<1>5. CASE k.mode = "DIRECT" /\ k.status = "error"
           /\ Prepared([k EXCEPT !.wq = IF k.finished THEN @ ELSE 0])
  <2> DEFINE q == [k EXCEPT !.wq = IF k.finished THEN @ ELSE 0]
  <2>1. Prepared(q)
    BY <1>5
  <2>2. /\ DOMAIN q = ConFields /\ q.st = k.st /\ q.fd = k.fd /\ q.mode = k.mode
        /\ q.backend = k.backend
        /\ q.ev = k.ev /\ q.since = k.since /\ q.write_ts = k.write_ts /\ q.age = k.age
           /\ q.status = k.status
    BY <1>2 DEF IsCon, ConFields
  <2>3. q.finished = k.finished /\ q.wr = k.wr
    BY <1>2 DEF IsCon, ConFields
  <2>4. q.wq = k.wq \/ q.wq = 0
    BY <1>2 DEF IsCon, ConFields
  <2> HIDE DEF q
  <2>5. k.wq \in Nat
    BY <1>2 DEF IsCon
  <2> HIDE DEF k
  <2>6. q.wq \in Nat
    BY <2>4, <2>5
  <2>7. Filled(k, q)
    BY <2>2, <2>3, <2>6 DEF Filled
  <2>8. Keeps(k, q) /\ q.backend = "none"
    BY <1>1, <1>2, <1>5, <2>2, <2>7, FilledGood DEF Good, Shape
  <2> QED BY <1>1, <1>3, <1>5, <2>1, <2>2, <2>8, PreparedStep DEF k
<1>6. CASE k.mode = "plugin" /\ k.backend \in {"none", "started"} /\ Prepared(k)
  <2>1. Keeps(k, k)
    BY <1>2 DEF Keeps
  <2> QED BY <1>1, <1>3, <1>6, <2>1, PreparedStep
<1> QED BY <1>4, <1>5, <1>6

(* HANDLE_REQUEST, answered by the server itself.                            *)
LEMMA HandleDirectStep == ASSUME Inv, HandleDirect PROVE Inv'
<1> DEFINE k == con[run.con]
           full == [k EXCEPT !.wq = 1, !.finished = TRUE]
           missing == [k EXCEPT !.status = "missing"]
           failed == [k EXCEPT !.st = "ERROR"]
<1>1. pc = "machine" /\ k.st = "HANDLE_REQUEST" /\ k.mode = "DIRECT"
  BY DEF HandleDirect, In
<1>2. run.con \in Open /\ Good(k) /\ IsCon(k) /\ ClientsInv
  BY <1>1, InMachine
<1>3. UNCHANGED <<machineRest, ptr, used, cur_fds, joblist, client>> /\ ClientsKept
  BY <1>2, UnchangedClients DEF HandleDirect
<1>4. Prepared(full) \/ Prepared(missing) \/ Round(failed)
  BY DEF HandleDirect
<1>5. k.backend = "none"
  BY <1>1, <1>2 DEF Good, Shape
<1>6. CASE Prepared(full)
  <2>1. /\ DOMAIN full = ConFields /\ full.st = k.st /\ full.fd = k.fd /\ full.mode = k.mode
        /\ full.backend = k.backend /\ full.ev = k.ev /\ full.since = k.since
        /\ full.write_ts = k.write_ts /\ full.age = k.age
    BY <1>2 DEF IsCon, ConFields
  <2>2. full.finished /\ full.wr = k.wr
    BY <1>2 DEF IsCon, ConFields
  <2>3. full.wq = 1
    BY <1>2 DEF IsCon, ConFields
  <2> HIDE DEF full, k
  <2>4. full.wq \in Nat
    BY <2>3
  <2>5. Filled(k, full)
    BY <2>1, <2>2, <2>4 DEF Filled
  <2>6. Keeps(k, full)
    BY <1>1, <1>2, <2>5, FilledGood
  <2> QED BY <1>1, <1>3, <1>5, <1>6, <2>1, <2>2, <2>6, PreparedStep DEF k
<1>7. CASE Prepared(missing)
  <2>1. Near(k, missing) /\ missing.st = k.st /\ missing.status = "missing"
    BY <1>2 DEF Near, IsCon, ConFields
  <2> HIDE DEF missing
  <2>2. Keeps(k, missing) /\ missing.backend = "none"
    BY <1>1, <1>2, <1>5, <2>1, NearGood DEF Near, Calm
  <2> QED BY <1>1, <1>3, <1>7, <2>1, <2>2, PreparedStep
<1>8. CASE Round(failed)
  <2>1. Near(k, failed) /\ failed.st = "ERROR"
    BY <1>2, NearState
  <2> HIDE DEF failed
  <2>2. Keeps(k, failed)
    BY <1>2, <2>1, NearGood
  <2> QED BY <1>1, <1>2, <1>3, <1>8, <2>1, <2>2, RoundStep
<1> QED BY <1>4, <1>6, <1>7, <1>8

(* The backend's handler leaves the state machine, or the answer is an error. *)
LEMMA HandleBackendStep == ASSUME Inv, HandleBackend PROVE Inv'
<1> DEFINE k == con[run.con]
           busy == [k EXCEPT !.mode = "plugin", !.backend = "busy"]
           waits == [k EXCEPT !.mode = "plugin", !.backend = "wait_fd", !.retries = @ + 1]
           fails == [k EXCEPT !.mode = "DIRECT", !.backend = "none", !.status = "error"]
<1>1. /\ pc = "machine" /\ k.st = "HANDLE_REQUEST"
      /\ (k.mode = "DIRECT" /\ k.status = "none") \/ (k.mode = "plugin" /\ k.backend = "wait_fd")
  BY DEF HandleBackend, In
<1>2. run.con \in Open /\ Good(k) /\ IsCon(k) /\ ClientsInv /\ run.con \in Cons
  BY <1>1, InMachine
<1>3. UNCHANGED <<loopVars, ctlVars, fcntl_failures, ptr, used, joblist, client>> /\ ClientsKept
  BY <1>2, UnchangedClients DEF HandleBackend
<1>4. \/ Leave(busy) /\ cur_fds' = cur_fds + 1 /\ UNCHANGED <<want_fds, fdwaitqueue>>
      \/ /\ Leave(waits) /\ want_fds' = want_fds + 1 /\ fdwaitqueue' = Append(fdwaitqueue, run.con)
         /\ UNCHANGED cur_fds
      \/ Prepared(fails) /\ UNCHANGED <<cur_fds, want_fds, fdwaitqueue>>
  BY DEF HandleBackend
<1>5. k.backend \in {"none", "wait_fd"} /\ k.wr /\ BackendFd(k) = 0
  BY <1>1, <1>2 DEF Good, Shape, BackendFd
<1>6. /\ Good(busy) /\ busy.st = "HANDLE_REQUEST" /\ busy.fd = k.fd /\ busy.backend = "busy"
      /\ BackendFd(busy) = 1
      /\ Good(waits) /\ waits.st = "HANDLE_REQUEST" /\ waits.fd = k.fd /\ BackendFd(waits) = 0
      /\ Keeps(k, fails) /\ fails.st = "HANDLE_REQUEST" /\ fails.backend = "none"
         /\ fails.status = "error"
  <2>1. /\ DOMAIN busy = ConFields /\ busy.st = k.st /\ busy.fd = k.fd /\ busy.mode = "plugin"
        /\ busy.backend = "busy" /\ busy.ev = k.ev /\ busy.since = k.since /\ busy.wq = k.wq
        /\ busy.write_ts = k.write_ts /\ busy.age = k.age
    BY <1>2 DEF IsCon, ConFields
  <2>2. /\ DOMAIN waits = ConFields /\ waits.st = k.st /\ waits.fd = k.fd /\ waits.mode = "plugin"
        /\ waits.backend = "wait_fd" /\ waits.ev = k.ev /\ waits.since = k.since /\ waits.wq = k.wq
        /\ waits.write_ts = k.write_ts /\ waits.age = k.age
    BY <1>2 DEF IsCon, ConFields
  <2>3. /\ DOMAIN fails = ConFields /\ fails.st = k.st /\ fails.fd = k.fd /\ fails.mode = "DIRECT"
        /\ fails.backend = "none" /\ fails.ev = k.ev /\ fails.since = k.since /\ fails.wq = k.wq
        /\ fails.write_ts = k.write_ts /\ fails.age = k.age /\ fails.status = "error"
    BY <1>2 DEF IsCon, ConFields
  <2>4. busy.wr = k.wr /\ waits.wr = k.wr /\ fails.wr = k.wr
    BY <1>2 DEF IsCon, ConFields
  <2> HIDE DEF busy, waits, fails, k
  <2>5. IsCon(busy) /\ IsCon(waits) /\ IsCon(fails)
    BY <1>2, <2>1, <2>2, <2>3 DEF IsCon
  <2>6. Shape(busy) /\ Shape(waits) /\ Shape(fails)
    BY <1>1, <1>5, <2>1, <2>2, <2>3, <2>4 DEF Shape
  <2>7. BackendFd(busy) = 1 /\ BackendFd(waits) = 0 /\ BackendFd(fails) = 0
    BY <2>1, <2>2, <2>3 DEF BackendFd
  <2> QED BY <1>1, <1>5, <2>1, <2>2, <2>3, <2>5, <2>6, <2>7 DEF Good, Keeps
<1> HIDE DEF busy, waits, fails
<1>7. cur_fds \in Nat
  <2>1. cur_fds = BaseFds + used + Cardinality(Busy) /\ BaseFds \in Nat /\ used \in Nat
        /\ Cardinality(Busy) \in Nat
    BY CountType, SizeType, OpenType DEF Inv, Core, FdsInv
  <2> QED BY <2>1
<1>8. CASE Leave(busy) /\ cur_fds' = cur_fds + 1 /\ UNCHANGED <<want_fds, fdwaitqueue>>
  <2> DEFINE q == Interest(busy)
  <2>1. con' = [con EXCEPT ![run.con] = q] /\ GoBack
    BY <1>8 DEF Leave, GoBack
  <2>2. Keeps(busy, q) /\ q.st = "HANDLE_REQUEST" /\ q.backend = "busy"
    BY <1>6, InterestGood
  <2> HIDE DEF q
  <2>3. Good(q) /\ q.fd = k.fd /\ BackendFd(q) = 1
    BY <1>6, <2>2 DEF Keeps
  <2>4. cur_fds' = cur_fds + BackendFd(q) - BackendFd(k)
    <3> DEFINE a == BackendFd(q)
               b == BackendFd(k)
    <3>1. a = 1 /\ b = 0
      BY <1>5, <2>3
    <3> HIDE DEF a, b
    <3>2. cur_fds' = cur_fds + a - b
      BY <1>7, <1>8, <3>1
    <3> QED BY <3>2 DEF a, b
  <2>5. Core' /\ Open' = Open
    BY <1>2, <1>3, <2>1, <2>2, <2>3, <2>4, CoreOfTurn
  <2>6. Queues /\ UNCHANGED <<events, tix, listening, fcntl_failures>>
    BY <1>3, <1>8, SameQueues DEF loopVars, ctlVars
  <2>7. Turn(q)
    BY <1>1, <2>1, <2>2, <2>5, <2>6 DEF Turn, Settled, Rests
  <2> QED BY <2>5, <2>7, TurnStep
<1>9. CASE /\ Leave(waits) /\ want_fds' = want_fds + 1
           /\ fdwaitqueue' = Append(fdwaitqueue, run.con)
           /\ UNCHANGED cur_fds
  <2> DEFINE q == Interest(waits)
  <2>1. con' = [con EXCEPT ![run.con] = q] /\ GoBack
    BY <1>9 DEF Leave, GoBack
  <2>2. Keeps(waits, q) /\ q.st = "HANDLE_REQUEST"
    BY <1>6, InterestGood
  <2> HIDE DEF q
  <2>3. Good(q) /\ q.fd = k.fd /\ BackendFd(q) = BackendFd(k)
    BY <1>5, <1>6, <2>2 DEF Keeps
  <2>4. Core' /\ Open' = Open
    BY <1>2, <1>3, <1>9, <2>1, <2>2, <2>3, CoreOfTurn, SameFds
  <2>5. Queues /\ run.con \in Queued(fdwaitqueue)'
    <3>1. fdwaitqueue \in Seq(Cons) /\ joblist \in Seq(Cons) /\ joblist' = joblist
          /\ want_fds = Len(fdwaitqueue) + (IF run.ret = "fdwaited" \/ pc = "fdwaited" THEN 1 ELSE 0)
      BY <1>3 DEF Inv, LoopInv
    <3>2. fdwaitqueue' \in Seq(Cons) /\ Len(fdwaitqueue') = Len(fdwaitqueue) + 1
          /\ Queued(fdwaitqueue)' = Queued(fdwaitqueue) \cup {run.con}
      BY <1>2, <1>9, <3>1, QueueFacts DEF Queued
    <3>3. Len(fdwaitqueue) \in Nat
      BY <3>1
    <3>4. want_fds \in Nat
      BY <3>1, <3>3
    <3>5. want_fds' = want_fds + (Len(fdwaitqueue') - Len(fdwaitqueue))
      BY <1>9, <3>2, <3>3, <3>4
    <3> QED BY <3>1, <3>2, <3>5 DEF Queues, Queued
  <2>6. UNCHANGED <<events, tix, listening, fcntl_failures>>
    BY <1>3 DEF loopVars, ctlVars
  <2>7. Turn(q)
    BY <1>1, <2>1, <2>2, <2>4, <2>5, <2>6 DEF Turn, Settled
  <2> QED BY <2>4, <2>7, TurnStep
<1>10. CASE Prepared(fails) /\ UNCHANGED <<cur_fds, want_fds, fdwaitqueue>>
  <2>1. UNCHANGED <<machineRest, ptr, used, cur_fds, joblist, client>>
    BY <1>3, <1>10 DEF machineRest
  <2> QED BY <1>1, <1>6, <1>10, <2>1, PreparedStep
<1> QED BY <1>4, <1>8, <1>9, <1>10

(* A connection whose backend works leaves, and rests.                       *)
LEMMA HandleWaitingStep == ASSUME Inv, HandleWaiting PROVE Inv'
<1> DEFINE k == con[run.con]
           q == Interest(k)
<1>1. pc = "machine" /\ k.st = "HANDLE_REQUEST" /\ k.backend = "busy" /\ Leave(k)
  BY DEF HandleWaiting, In
<1>2. run.con \in Open /\ Good(k) /\ ClientsInv
  BY <1>1, InMachine
<1>3. UNCHANGED <<machineRest, ptr, used, cur_fds, joblist, client>> /\ ClientsKept
  BY <1>2, UnchangedClients DEF HandleWaiting
<1>4. con' = [con EXCEPT ![run.con] = q] /\ GoBack
  BY <1>1 DEF Leave, GoBack
<1>5. Keeps(k, q) /\ q.st = "HANDLE_REQUEST" /\ q.backend = "busy"
  BY <1>1, <1>2, InterestGood
<1> HIDE DEF q
<1>6. Core' /\ Open' = Open
  BY <1>2, <1>3, <1>4, <1>5, CoreOfTurn, SameFds DEF Keeps
<1>7. Queues /\ UNCHANGED <<events, tix, listening, fcntl_failures>>
  BY <1>3, SameQueues DEF machineRest, loopVars, ctlVars
<1>8. Turn(q)
  BY <1>1, <1>4, <1>5, <1>6, <1>7 DEF Turn, Settled, Rests
<1> QED BY <1>6, <1>8, TurnStep

(* The first write follows at once, so that the timer may be stale for one round. *)
LEMMA ResponseStartStep == ASSUME Inv, ResponseStart PROVE Inv'
<1>1. pc = "machine" /\ con[run.con].st = "RESPONSE_START"
  BY DEF ResponseStart, In
<1>2. run.con \in Open /\ Good(con[run.con]) /\ ClientsInv
  BY <1>1, InMachine
<1>3. UNCHANGED <<machineRest, ptr, used, cur_fds, joblist, client>> /\ ClientsKept
  BY <1>2, UnchangedClients DEF ResponseStart
<1>4. PICK body \in {"known", "unknown", "none"} : Round(connection_handle_write_prepare(con[run.con], body))
  BY DEF ResponseStart
<1> DEFINE q == connection_handle_write_prepare(con[run.con], body)
<1>5. Round(q) /\ Keeps(con[run.con], q) /\ q.st = "WRITE" /\ q.wr /\ q.wq = 2
  BY <1>1, <1>2, <1>4, PrepareGood
<1> HIDE DEF q
<1>6. q.wq > 0
  BY <1>5
<1> QED BY <1>1, <1>2, <1>3, <1>5, <1>6, RoundStep

(* A write stamps the timer; what leaves the machine afterwards is blocked or waits. *)
LEMMA WriteStep == ASSUME Inv, Write PROVE Inv'
<1> DEFINE k == con[run.con]
<1>1. pc = "machine" /\ k.st = "WRITE"
  BY DEF Write, In
<1>2. /\ run.con \in Open /\ run.con \in Cons /\ Good(k) /\ IsCon(k) /\ ClientsInv
      /\ k.fd \in Clients /\ IsClient(client[k.fd]) /\ client[k.fd].st = "accepted"
  BY <1>1, InMachine
<1>3. UNCHANGED <<machineRest, ptr, used, cur_fds>>
  BY DEF Write
<1>4. CASE k.wq > 0 /\ k.wr
  <2>1. PICK r \in connection_handle_write(k) :
          Round(r.k) /\ Took(r) /\ joblist' = IF r.job THEN Append(joblist, run.con) ELSE joblist
    BY <1>4 DEF Write
  <2>2. /\ GoodResult(k, r) /\ r.k.st \in {"WRITE", "RESPONSE_END", "ERROR"}
        /\ r.k.st = "WRITE" => r.k.write_ts = 1 /\ (r.k.wq = 0 \/ ~r.k.wr)
    BY <1>1, <1>2, <1>4, WriteGood
  <2>3. ClientsKept
    BY <1>2, <2>1, <2>2, TookKept
  <2> DEFINE q == r.k
  <2>4. Round(q) /\ Keeps(k, q) /\ IsCon(q) /\ q.st \in {"WRITE", "RESPONSE_END", "ERROR"}
        /\ (q.st = "WRITE" => q.write_ts = 1 /\ (q.wq = 0 \/ ~q.wr))
    BY <2>1, <2>2 DEF GoodResult, Keeps, Good
  <2>5. joblist' = joblist \/ joblist' = Append(joblist, run.con)
    BY <2>1
  <2> HIDE DEF q
  <2>6. q.st = "WRITE" => Fresh(q)
    <3>1. q.since \in 0..Expired
      BY <2>4 DEF IsCon
    <3>2. q.since \in Nat
      BY <3>1, Numbers
    <3> QED BY <2>4, <3>2 DEF Fresh
  <2> QED BY <1>1, <1>2, <1>3, <2>3, <2>4, <2>5, <2>6, RoundStep
<1>5. CASE ~(k.wq > 0 /\ k.wr)
  <2>1. Round(k) /\ UNCHANGED <<joblist, client>>
    BY <1>5 DEF Write
  <2>2. ClientsKept /\ Keeps(k, k)
    BY <1>2, <2>1, UnchangedClients DEF Keeps
  <2>3. k.wq = 0 \/ ~k.wr
    <3>1. k.wq \in Nat
      BY <1>2 DEF IsCon
    <3> HIDE DEF k
    <3>2. k.wq = 0 \/ k.wq > 0
      BY <3>1
    <3> QED BY <1>5, <3>2
  <2>4. Fresh(k)
    BY <1>1, <1>2, <1>5 DEF Inv, FreshInv
  <2> QED BY <1>1, <1>2, <1>3, <2>1, <2>2, <2>3, <2>4, RoundStep
<1> QED BY <1>4, <1>5

(* shutdown: the connection lingers, or is closed at once.                   *)
LEMMA ShutdownStep ==
  ASSUME Inv, pc = "machine", run.con \in Open,
         NEW k, IsCon(k), k.mode = "DIRECT", k.backend = "none", k.wr, k.fd = con[run.con].fd,
         ShutdownOrClose(run.con, k, BackendFd(con[run.con])), Again,
         UNCHANGED <<machineRest, joblist>>
  PROVE  Inv'
<1> DEFINE shut == [k EXCEPT !.st = "CONNECT", !.ev = ""]
           lingers == [k EXCEPT !.st = "CLOSE", !.age = 0]
           fds == BackendFd(con[run.con])
<1>0. Core /\ ClientsInv
  BY DEF Inv, Core
<1>1. Queues /\ Stay /\ UNCHANGED <<events, tix, listening, fcntl_failures>>
  BY SameQueues DEF machineRest, loopVars, ctlVars, Again, Stay
<1>2. Good(shut) /\ shut.st = "CONNECT" /\ shut.ev = ""
  <2>1. IsCon(shut) /\ shut.mode = "DIRECT" /\ shut.backend = "none" /\ shut.wr
        /\ shut.st = "CONNECT" /\ shut.ev = ""
    BY DEF IsCon, ConFields, States
  <2> QED BY <2>1, ClearedGood
<1>3. Good(lingers) /\ lingers.st = "CLOSE" /\ lingers.fd = con[run.con].fd
      /\ BackendFd(lingers) = 0
  <2>1. lingers.age = 0 /\ lingers.st = "CLOSE" /\ DOMAIN lingers = ConFields
    BY DEF IsCon, ConFields
  <2>2. lingers.age \in 0..Expired
    BY <2>1, Numbers
  <2>3. /\ lingers.fd = k.fd /\ lingers.mode = k.mode /\ lingers.backend = k.backend
        /\ lingers.wr = k.wr
        /\ lingers.ev = k.ev /\ lingers.wq = k.wq /\ lingers.since = k.since
           /\ lingers.write_ts = k.write_ts
    BY DEF IsCon, ConFields
  <2> HIDE DEF lingers
  <2>4. IsCon(lingers)
    BY <2>1, <2>2, <2>3 DEF IsCon, States
  <2> QED BY <2>1, <2>3, <2>4, ClearedGood
<1> HIDE DEF shut, lingers
<1>4. CASE connection_close(run.con, fds) /\ con' = [con EXCEPT ![run.con] = shut]
  <2>1. Core' /\ Open' = Open \ {run.con}
    BY <1>0, <1>2, <1>4, CloseStep
  <2>2. Turn(shut)
    BY <1>1, <1>2, <1>4, <2>1 DEF Turn
  <2> QED BY <2>1, <2>2, TurnStep
<1>5. CASE /\ con' = [con EXCEPT ![run.con] = lingers]
           /\ cur_fds' = cur_fds - fds
           /\ UNCHANGED <<ptr, used, client>>
  <2>1. cur_fds' = cur_fds + BackendFd(lingers) - fds
    <3>1. cur_fds = BaseFds + used + Cardinality(Busy) /\ BaseFds \in Nat /\ used \in Nat
          /\ Cardinality(Busy) \in Nat
      BY <1>0, CountType, SizeType, OpenType DEF Core, FdsInv
    <3>2. cur_fds \in Nat
      BY <3>1
    <3>3. fds \in {0, 1}
      BY FdRange
    <3> HIDE DEF fds
    <3> QED BY <1>3, <1>5, <3>2, <3>3
  <2>2. ClientsKept
    BY <1>0, <1>5, UnchangedClients
  <2>3. Core' /\ Open' = Open
    BY <1>3, <1>5, <2>1, <2>2, CoreOfTurn
  <2>4. Turn(lingers)
    BY <1>1, <1>3, <1>5, <2>3 DEF Turn
  <2> QED BY <2>3, <2>4, TurnStep
<1> QED BY <1>4, <1>5 DEF ShutdownOrClose, shut, lingers

(* The next request, or the end of the connection; its backend goes first.   *)
LEMMA ResponseEndStep == ASSUME Inv, ResponseEnd PROVE Inv'
<1> DEFINE k == connection_reset(con[run.con])
           fds == BackendFd(con[run.con])
           q == [k EXCEPT !.st = "REQUEST_START"]
<1>1. pc = "machine" /\ con[run.con].st = "RESPONSE_END"
  BY DEF ResponseEnd, In
<1>2. run.con \in Open /\ IsCon(con[run.con]) /\ ClientsInv
  BY <1>1, InMachine
<1>3. Again /\ UNCHANGED <<machineRest, joblist>>
  BY DEF ResponseEnd
<1>4. IsCon(k) /\ k.fd = con[run.con].fd /\ k.backend = "none" /\ k.mode = "DIRECT" /\ k.wr
  BY <1>2, ResetGood
<1>5. \/ con' = [con EXCEPT ![run.con] = q] /\ cur_fds' = cur_fds - fds
         /\ UNCHANGED <<ptr, used, client>>
      \/ ShutdownOrClose(run.con, k, fds)
  BY DEF ResponseEnd
<1> HIDE DEF k
<1>6. CASE con' = [con EXCEPT ![run.con] = q] /\ cur_fds' = cur_fds - fds
           /\ UNCHANGED <<ptr, used, client>>
  <2>1. IsCon(q) /\ q.st = "REQUEST_START" /\ q.mode = "DIRECT" /\ q.backend = "none" /\ q.wr
        /\ q.fd = k.fd
    BY <1>4 DEF IsCon, ConFields, States
  <2> HIDE DEF q
  <2>2. Good(q) /\ BackendFd(q) = 0
    BY <2>1, ClearedGood
  <2>3. cur_fds' = cur_fds + BackendFd(q) - fds
    <3>1. cur_fds = BaseFds + used + Cardinality(Busy) /\ BaseFds \in Nat /\ used \in Nat
          /\ Cardinality(Busy) \in Nat
      BY CountType, SizeType, OpenType DEF Inv, Core, FdsInv
    <3>2. cur_fds \in Nat
      BY <3>1
    <3>3. fds \in {0, 1}
      BY FdRange
    <3> HIDE DEF fds
    <3> QED BY <1>6, <2>2, <3>2, <3>3
  <2>4. ClientsKept
    BY <1>2, <1>6, UnchangedClients
  <2>5. Core' /\ Open' = Open
    BY <1>2, <1>4, <1>6, <2>1, <2>2, <2>3, <2>4, CoreOfTurn
  <2>6. Queues /\ Stay /\ UNCHANGED <<events, tix, listening, fcntl_failures>>
    BY <1>3, SameQueues DEF machineRest, loopVars, ctlVars, Again, Stay
  <2>7. Turn(q)
    BY <1>1, <1>6, <2>1, <2>5, <2>6 DEF Turn
  <2> QED BY <2>5, <2>7, TurnStep
<1>7. CASE ShutdownOrClose(run.con, k, fds)
  BY <1>1, <1>2, <1>3, <1>4, <1>7, ShutdownStep
<1> QED BY <1>5, <1>6, <1>7

(* ERROR.                                                                    *)
LEMMA ErrorStep == ASSUME Inv, Error PROVE Inv'
<1> DEFINE k == connection_reset(con[run.con])
           q == [k EXCEPT !.keep_alive = FALSE]
<1>1. pc = "machine" /\ con[run.con].st = "ERROR"
  BY DEF Error, In
<1>2. run.con \in Open /\ IsCon(con[run.con])
  BY <1>1, InMachine
<1>3. ShutdownOrClose(run.con, q, BackendFd(con[run.con])) /\ Again
      /\ UNCHANGED <<machineRest, joblist>>
  BY DEF Error
<1>4. IsCon(k) /\ k.fd = con[run.con].fd /\ k.backend = "none" /\ k.mode = "DIRECT" /\ k.wr
  BY <1>2, ResetGood
<1> HIDE DEF k
<1>5. IsCon(q) /\ q.fd = con[run.con].fd /\ q.backend = "none" /\ q.mode = "DIRECT" /\ q.wr
  BY <1>4 DEF IsCon, ConFields
<1> HIDE DEF q
<1> QED BY <1>1, <1>2, <1>3, <1>5, ShutdownStep

(* An entry of a queue whose connection is closed by now.                    *)
LEMMA ConnectStep == ASSUME Inv, Connect PROVE Inv'
<1> DEFINE c == run.con
           k == [con[c] EXCEPT !.rq = <<>>, !.count = 0]
           q == Interest(k)
<1>0. Core /\ LoopInv
  BY DEF Inv
<1>1. pc = "machine" /\ con[c].st = "CONNECT" /\ Leave(k)
  BY DEF Connect, In
<1>2. c \in Cons \ Open /\ Good(con[c]) /\ IsCon(con[c])
  BY <1>0, <1>1 DEF LoopInv, Core, ConsInv, Good
<1>3. UNCHANGED <<machineRest, ptr, used, cur_fds, joblist, client>>
  BY DEF Connect
<1>4. con' = [con EXCEPT ![c] = q] /\ GoBack
  BY <1>1 DEF Leave, GoBack
<1>5. Near(con[c], k) /\ k.st = "CONNECT"
  BY <1>1, <1>2 DEF Near, IsCon, ConFields
<1> HIDE DEF k
<1>6. Good(k) /\ BackendFd(k) = BackendFd(con[c])
  BY <1>1, <1>2, <1>5, NearGood DEF Keeps
<1>7. Keeps(k, q) /\ q.st = "CONNECT" /\ q.ev = ""
  BY <1>5, <1>6, InterestGood
<1> HIDE DEF q
<1>8. Open' = Open /\ ArrayInv'
  BY <1>0, <1>3 DEF Open, Core, ArrayInv
<1>9. DOMAIN con' = Cons /\ \A d \in Cons : con'[d] = IF d = c THEN q ELSE con[d]
  BY <1>0, <1>2, <1>4 DEF Core, ConsInv
<1>10. Core'
  <2>1. ConsInv'
    <3>1. \A d \in Cons : Good(con'[d])
      BY <1>0, <1>7, <1>9 DEF Core, ConsInv, Keeps
    <3>2. \A d \in Open : con'[d].st # "CONNECT"
      BY <1>0, <1>2, <1>9, OpenType DEF Core, ConsInv
    <3>3. \A d \in Cons \ Open : con'[d].st = "CONNECT" /\ con'[d].ev = ""
      BY <1>0, <1>7, <1>9 DEF Core, ConsInv
    <3> QED BY <1>8, <1>9, <3>1, <3>2, <3>3 DEF ConsInv
  <2>2. ClientsInv'
    BY <1>0, <1>3 DEF Core, ClientsInv
  <2>3. OwnersInv'
    <3>1. \A d \in Open : con'[d].fd = con[d].fd
      BY <1>0, <1>2, <1>9, OpenType DEF Core
    <3> QED BY <1>0, <1>3, <1>8, <3>1 DEF Core, OwnersInv
  <2>4. FdsInv'
    <3>1. \A d \in Cons : BackendFd(con'[d]) = BackendFd(con[d])
      BY <1>6, <1>7, <1>9 DEF Keeps
    <3>2. Busy' = Busy
      BY <3>1 DEF Busy
    <3> QED BY <1>0, <1>3, <3>2 DEF Core, FdsInv
  <2> QED BY <1>8, <2>1, <2>2, <2>3, <2>4 DEF Core
<1>11. Queues /\ UNCHANGED <<events, tix, listening, fcntl_failures>>
  BY <1>3, SameQueues DEF machineRest, loopVars, ctlVars
<1>12. Turn(q)
  BY <1>1, <1>2, <1>4, <1>7, <1>8, <1>11 DEF Turn
<1> QED BY <1>10, <1>12, TurnStep

(* A lingering connection goes on lingering, or is closed.                   *)
LEMMA CloseActionStep == ASSUME Inv, Close PROVE Inv'
<1> DEFINE k == con[run.con]
           r == FlushOnClose(k)
<1>1. pc = "machine" /\ k.st = "CLOSE"
  BY DEF Close, In
<1>2. /\ run.con \in Open /\ run.con \in Cons /\ Good(k) /\ ClientsInv /\ Core
      /\ k.fd \in Clients /\ IsClient(client[k.fd]) /\ client[k.fd].st = "accepted"
  BY <1>1, InMachine DEF Inv
<1>3. UNCHANGED <<machineRest, joblist>>
  BY DEF Close
<1>4. GoodResult(k, r) /\ r.k.st = "CLOSE"
  BY <1>1, <1>2, FlushGood
<1>5. CASE r.k.age = Expired
  <2> DEFINE q == [r.k EXCEPT !.st = "CONNECT", !.ev = ""]
  <2>1. connection_close(run.con, 0) /\ Round(q)
    BY <1>5 DEF Close
  <2>2. IsCon(r.k) /\ Shape(r.k)
    BY <1>4 DEF GoodResult, Keeps, Good
  <2> HIDE DEF r
  <2>3. DOMAIN q = ConFields /\ q.st = "CONNECT" /\ q.ev = "" /\ q.backend = r.k.backend
        /\ q.mode = r.k.mode /\ q.fd = r.k.fd /\ q.wq = r.k.wq /\ q.age = r.k.age
           /\ q.since = r.k.since
        /\ q.write_ts = r.k.write_ts /\ q.wr = r.k.wr /\ q.finished = r.k.finished
    BY <2>2 DEF IsCon, ConFields
  <2> HIDE DEF q
  <2>4. IsCon(q)
    BY <2>2, <2>3 DEF IsCon, States
  <2>5. Shape(q)
    BY <1>4, <2>2, <2>3 DEF Shape
  <2>6. con' = [con EXCEPT ![run.con] = q] /\ Stay
    BY <1>1, <2>1, <2>3 DEF Round, Again, Stay
  <2>7. BackendFd(k) = 0
    BY <1>1, <1>2 DEF Good, Shape, BackendFd
  <2>8. Core' /\ Open' = Open \ {run.con}
    BY <1>2, <2>1, <2>3, <2>4, <2>5, <2>6, <2>7, CloseStep DEF Good
  <2>9. Queues /\ UNCHANGED <<events, tix, listening, fcntl_failures>>
    BY <1>3, SameQueues DEF machineRest, loopVars, ctlVars
  <2>10. Turn(q)
    BY <1>1, <1>2, <2>3, <2>6, <2>8, <2>9 DEF Turn
  <2> QED BY <2>8, <2>10, TurnStep
<1>6. CASE r.k.age # Expired
  <2>1. Round(r.k) /\ Took(r) /\ UNCHANGED <<ptr, used, cur_fds>>
    BY <1>6 DEF Close
  <2>2. ClientsKept
    BY <1>2, <1>4, <2>1, TookKept
  <2> DEFINE q == r.k
  <2>3. Round(q) /\ Keeps(k, q) /\ q.st = "CLOSE"
    BY <1>4, <2>1 DEF GoodResult
  <2> HIDE DEF q
  <2> QED BY <1>1, <1>2, <1>3, <2>1, <2>2, <2>3, RoundStep DEF machineRest
<1> QED BY <1>5, <1>6

(* A round of the state machine, in any state.                               *)
LEMMA MachineStep == ASSUME Inv, connection_state_machine PROVE Inv'
BY RequestStartStep, ReadStateStep, RequestEndStep, HandleDecidedStep, HandleDirectStep,
   HandleBackendStep, HandleWaitingStep, ResponseStartStep, WriteStep, ResponseEndStep,
   ErrorStep, ConnectStep, CloseActionStep DEF connection_state_machine

-----------------------------------------------------------------------------
(* The main loop.                                                            *)

(* A step of the loop that changes no connection.                            *)
LEMMA LoopStep ==
  ASSUME Inv, pc # "machine", ClientsKept, UNCHANGED <<ptr, used, con, cur_fds, fcntl_failures>>,
         LoopInv', EventsInv',
         \A d \in Open : d \in Queued(fdwaitqueue) =>
           d \in Queued(fdwaitqueue)' \/ (pc' = "machine" /\ run'.con = d),
         \A d \in Open : Working /\ d \in Queued(joblist) =>
           (Working' /\ d \in Queued(joblist)') \/ (pc' = "machine" /\ run'.con = d)
  PROVE  Inv'
<1>1. Core' /\ Open' = Open
  BY CoreFrame DEF Inv, Open
<1>2. AttendedInv'
  <2> SUFFICES ASSUME NEW d \in Open PROVE Attended(d)'
    BY <1>1 DEF AttendedInv
  <2>1. Attended(d)
    BY DEF Inv, AttendedInv
  <2>2. Rests(con[d]) => Rests(con[d])'
    BY DEF Rests
  <2> QED BY <2>1, <2>2 DEF Attended
<1>3. FreshInv'
  BY DEF Inv, FreshInv, Fresh
<1> QED BY <1>1, <1>2, <1>3 DEF Inv

(* A step of the loop that changes one connection in use.                    *)
LEMMA ConStep ==
  ASSUME Inv, pc # "machine", NEW c \in Open, NEW q, con' = [con EXCEPT ![c] = q],
         Core', Open' = Open, LoopInv', EventsInv',
         q.st = "WRITE" => Fresh(q), Attended(c)', UNCHANGED <<fdwaitqueue, fcntl_failures>>,
         Working => Working' /\ Queued(joblist) \subseteq Queued(joblist)'
  PROVE  Inv'
<1>0. c \in Cons /\ DOMAIN con = Cons /\ Open \subseteq Cons
  BY OpenType DEF Inv, Core, ConsInv
<1>1. \A d \in Cons : con'[d] = IF d = c THEN q ELSE con[d]
  BY <1>0
<1>2. AttendedInv'
  <2> SUFFICES ASSUME NEW d \in Open, d # c PROVE Attended(d)'
    BY DEF AttendedInv
  <2>1. Attended(d) /\ con'[d] = con[d]
    BY <1>0, <1>1 DEF Inv, AttendedInv
  <2>2. Rests(con[d]) => Rests(con[d])'
    BY <2>1 DEF Rests
  <2>3. d \in Queued(fdwaitqueue) => d \in Queued(fdwaitqueue)'
    BY DEF Queued
  <2> QED BY <2>1, <2>2, <2>3 DEF Attended
<1>3. FreshInv'
  <2> SUFFICES ASSUME NEW d \in Cons, con'[d].st = "WRITE" PROVE Fresh(con'[d])
    BY DEF FreshInv, Fresh
  <2>1. CASE d = c
    BY <1>1, <2>1
  <2>2. CASE d # c
    BY <1>1, <2>2 DEF Inv, FreshInv
  <2> QED BY <2>1, <2>2
<1> QED BY <1>2, <1>3 DEF Inv

(* Without events their invariant is vacuous.                                *)
LEMMA NoEvents == ASSUME events' = {} PROVE EventsInv'
BY DEF EventsInv

(* Outside the machine no connection is in hand.                             *)
LEMMA NoRunType == ASSUME Inv PROVE /\ NoRun \in [con : Cons, ret : {"top"}] /\ NoRun.ret = "top"
                                    /\ (pc # "machine" => run = NoRun)
<1>1. run.con \in Cons
  BY DEF Inv, LoopInv
<1> QED BY <1>1 DEF NoRun, Inv, LoopInv

(* Seconds pass for every connection.                                        *)
Aged(k) ==
  [k EXCEPT !.age = IF k.st \in {"READ", "READ_POST", "CLOSE"} THEN Older(@) ELSE @,
            !.since = IF k.st = "WRITE" THEN Older(@) ELSE @,
            !.write_ts = IF @ \in {0, Expired + 1} THEN @ ELSE @ + 1]

(* A second keeps a connection what it is, and an answer's stamp fresh.      *)
LEMMA AgedGood ==
  ASSUME NEW k, Good(k)
  PROVE  /\ Keeps(k, Aged(k)) /\ Aged(k).st = k.st /\ Aged(k).ev = k.ev
         /\ Rests(k) => Rests(Aged(k))
         /\ k.st = "WRITE" /\ Fresh(k) => Fresh(Aged(k))
<1> DEFINE q == Aged(k)
<1>0. IsCon(k) /\ Shape(k)
  BY DEF Good
<1>1. /\ DOMAIN q = ConFields /\ q.st = k.st /\ q.fd = k.fd /\ q.mode = k.mode
      /\ q.backend = k.backend
      /\ q.ev = k.ev /\ q.wq = k.wq /\ q.paused = k.paused /\ q.status = k.status
  BY <1>0 DEF IsCon, ConFields, Aged
<1>2. q.finished = k.finished /\ q.wr = k.wr
  BY <1>0 DEF IsCon, ConFields, Aged
<1>3. /\ q.age = k.age \/ q.age = Older(k.age)
      /\ q.since = IF k.st = "WRITE" THEN Older(k.since) ELSE k.since
      /\ q.write_ts = IF k.write_ts \in {0, Expired + 1} THEN k.write_ts ELSE k.write_ts + 1
  BY <1>0 DEF IsCon, ConFields, Aged
<1> HIDE DEF q
<1>4. k.age \in 0..Expired /\ k.since \in 0..Expired /\ k.write_ts \in 0..(Expired + 1)
  BY <1>0 DEF IsCon
<1>5. q.age \in 0..Expired /\ q.since \in 0..Expired /\ q.write_ts \in 0..(Expired + 1)
  BY <1>3, <1>4, Numbers DEF Older
<1>6. k.st = "WRITE" /\ Fresh(k) => Fresh(q)
  BY <1>3, <1>4, Numbers DEF Older, Fresh
<1>7. IsCon(q)
  BY <1>0, <1>1, <1>5 DEF IsCon
<1>8. Shape(q) /\ BackendFd(q) = BackendFd(k)
  BY <1>0, <1>1, <1>2 DEF Shape, BackendFd
<1>9. Rests(k) => Rests(q)
  BY <1>1 DEF Rests
<1> QED BY <1>1, <1>6, <1>7, <1>8, <1>9 DEF q, Keeps, Good

(* The phases of the loop, one lemma each.                                   *)
LEMMA TopStep == ASSUME Inv, Top PROVE Inv'
<1>0. pc = "top" /\ LoopInv /\ EventsInv /\ Core /\ ClientsInv /\ run = NoRun /\ NoRun.ret = "top"
  BY NoRunType DEF Inv, Core, Top
<1>1. UNCHANGED <<run, events, listening, ptr, used, cur_fds, want_fds, fdwaitqueue, joblist, client, fcntl_failures>>
  BY DEF Top, fdVars
<1>2. pc' \in {"stopped", "trigger", "sockets"} /\ tix' \in Nat \ {0}
  <2>1. pc' \in {"stopped", "trigger", "sockets"} /\ (tix' = 1 \/ tix' = tix)
    BY DEF Top
  <2>2. tix \in Nat \ {0}
    BY <1>0 DEF LoopInv
  <2> QED BY <2>1, <2>2
<1>3. LoopInv'
  BY <1>0, <1>1, <1>2 DEF LoopInv
<1>4. EventsInv'
  BY <1>0, <1>1, NoEvents DEF EventsInv
<1>5. ClientsKept
  BY <1>0, <1>1, UnchangedClients
<1>6. CASE UNCHANGED con
  BY <1>0, <1>1, <1>3, <1>4, <1>5, <1>6, LoopStep DEF Working
<1>7. CASE con' = [c \in Cons |-> Aged(con[c])]
  <2>1. \A c \in Cons : /\ Keeps(con[c], con'[c]) /\ con'[c].st = con[c].st /\ con'[c].ev = con[c].ev
                        /\ Rests(con[c]) => Rests(con'[c])
                        /\ con[c].st = "WRITE" /\ Fresh(con[c]) => Fresh(con'[c])
    BY <1>0, <1>7, AgedGood DEF Core, ConsInv
  <2>2. Open' = Open /\ ArrayInv' /\ Open \subseteq Cons
    BY <1>0, <1>1, OpenType DEF Open, Core, ArrayInv
  <2>3. ConsInv'
    BY <1>0, <1>7, <2>1, <2>2 DEF Core, ConsInv, Keeps
  <2>4. ClientsInv'
    BY <1>0, <1>1 DEF ClientsInv
  <2>5. OwnersInv'
    BY <1>0, <1>1, <2>1, <2>2 DEF Core, OwnersInv, Keeps
  <2>6. FdsInv'
    <3>1. \A c \in Cons : BackendFd(con'[c]) = BackendFd(con[c])
      BY <2>1 DEF Keeps
    <3>2. Busy' = Busy
      BY <3>1 DEF Busy
    <3> QED BY <1>0, <1>1, <3>2 DEF Core, FdsInv
  <2>7. AttendedInv'
    <3> SUFFICES ASSUME NEW d \in Open PROVE Attended(d)'
      BY <2>2 DEF AttendedInv
    <3>1. Attended(d) /\ ~Working /\ d \in Cons
      BY <1>0, <2>2 DEF Inv, AttendedInv, Working
    <3>2. Rests(con[d]) => Rests(con[d])'
      BY <2>1, <3>1 DEF Rests
    <3>3. d \in Queued(fdwaitqueue) => d \in Queued(fdwaitqueue)'
      BY <1>1 DEF Queued
    <3> QED BY <1>0, <1>1, <2>1, <3>1, <3>2, <3>3 DEF Attended
  <2>8. FreshInv'
    BY <1>0, <2>1 DEF Inv, FreshInv, Fresh
  <2> QED BY <1>3, <1>4, <2>2, <2>3, <2>4, <2>5, <2>6, <2>7, <2>8 DEF Inv, Core
<1> QED BY <1>6, <1>7 DEF Top, Aged

(* A step from a phase without events to a phase or into the state machine   *)
(* that leaves the queues alone.                                             *)
LEMMA PhaseStep ==
  ASSUME Inv, pc # "machine", ClientsKept,
         UNCHANGED <<ptr, used, con, cur_fds, want_fds, fdwaitqueue, joblist, fcntl_failures>>,
         UNCHANGED run, pc # "fdwaited",
         pc' \in {"top", "trigger", "sockets", "fdwait", "poll", "events", "accept", "jobs", "stopped"},
         tix' = 1 \/ tix' = tix, listening' \in {"polled", "idle", "closed"}, EventsInv',
         Working => Working' \/ joblist = <<>>
  PROVE  Inv'
<1>1. LoopInv /\ run = NoRun /\ NoRun.ret = "top"
  BY NoRunType DEF Inv
<1>2. tix \in Nat \ {0} /\ joblist \in Seq(Cons) /\ fdwaitqueue \in Seq(Cons)
      /\ fcntl_failures \in Nat
      /\ run \in [con : Cons, ret : {"top", "trigger", "fdwaited", "accept", "jobs"}]
  BY <1>1 DEF LoopInv
<1>3. tix' \in Nat \ {0}
  BY <1>2
<1>4. want_fds' = Len(fdwaitqueue') + (IF run'.ret = "fdwaited" \/ pc' = "fdwaited" THEN 1 ELSE 0)
  BY <1>1 DEF LoopInv
<1>5. LoopInv'
  BY <1>1, <1>2, <1>3, <1>4 DEF LoopInv
<1>6. \A d \in Open : Working /\ d \in Queued(joblist) => (Working' /\ d \in Queued(joblist)')
  <2>1. joblist = <<>> => Queued(joblist) = {}
    BY DEF Queued
  <2>2. Queued(joblist)' = Queued(joblist)
    BY DEF Queued
  <2> QED BY <2>1, <2>2
<1>7. Queued(fdwaitqueue)' = Queued(fdwaitqueue)
  BY DEF Queued
<1> QED BY <1>5, <1>6, <1>7, LoopStep

(* The listening sockets are polled, idle or closed.                         *)
LEMMA SocketsStep == ASSUME Inv, Sockets PROVE Inv'
<1>1. pc = "sockets" /\ pc' = "fdwait" /\ tix' = tix
  BY DEF Sockets
<1>2. listening' \in {"polled", "idle", "closed"}
  <2>1. listening \in {"polled", "idle", "closed"}
    BY DEF Inv, LoopInv
  <2> QED BY <2>1 DEF Sockets
<1>3. UNCHANGED <<run, events, ptr, used, con, fdVars, joblist, client, fcntl_failures>>
  BY DEF Sockets
<1>4. ClientsKept
  BY <1>3, UnchangedClients DEF Inv, Core
<1>5. EventsInv'
  BY <1>1, <1>3, NoEvents DEF Inv, EventsInv
<1> QED BY <1>1, <1>2, <1>3, <1>4, <1>5, PhaseStep DEF fdVars, Working

(* The next connection that waits for a descriptor is run.                   *)
LEMMA FdWaitStep == ASSUME Inv, FdWait PROVE Inv'
<1>0. pc = "fdwait" /\ LoopInv /\ run = NoRun /\ NoRun.ret = "top"
  BY NoRunType DEF Inv, FdWait
<1>1. UNCHANGED <<tix, events, ctlVars, ptr, used, con, cur_fds, want_fds, joblist, client, fcntl_failures>>
  BY DEF FdWait
<1>2. ClientsKept
  BY <1>1, UnchangedClients DEF Inv, Core
<1>3. EventsInv'
  BY <1>0, <1>1, NoEvents DEF Inv, EventsInv
<1>4. CASE pc' = "poll" /\ UNCHANGED <<run, fdwaitqueue>>
  <2>1. listening' \in {"polled", "idle", "closed"}
    BY <1>0, <1>1 DEF LoopInv, ctlVars
  <2> QED BY <1>0, <1>1, <1>2, <1>3, <1>4, <2>1, PhaseStep DEF Working
<1>5. CASE fdwaitqueue # <<>> /\ Enter(Head(fdwaitqueue), "fdwaited")
           /\ fdwaitqueue' = Tail(fdwaitqueue)
  <2>1. fdwaitqueue \in Seq(Cons) /\ want_fds = Len(fdwaitqueue) /\ NoRun.con \in Cons
    BY <1>0 DEF LoopInv
  <2>2. /\ Head(fdwaitqueue) \in Cons /\ fdwaitqueue' \in Seq(Cons)
        /\ Len(fdwaitqueue') = Len(fdwaitqueue) - 1
        /\ Queued(fdwaitqueue) = {Head(fdwaitqueue)} \cup Queued(fdwaitqueue')
    BY <1>5, <2>1, QueueFacts
  <2>3. run' = [con |-> Head(fdwaitqueue), ret |-> "fdwaited"] /\ pc' = "machine"
    BY <1>5 DEF Enter
  <2>4. want_fds' = Len(fdwaitqueue') + 1
    <3>1. Len(fdwaitqueue) \in Nat
      BY <2>1
    <3> QED BY <1>1, <2>1, <2>2, <3>1
  <2>5. LoopInv'
    BY <1>0, <1>1, <2>2, <2>3, <2>4 DEF LoopInv, ctlVars
  <2>6. \A d \in Open : d \in Queued(fdwaitqueue) =>
          d \in Queued(fdwaitqueue)' \/ (pc' = "machine" /\ run'.con = d)
    BY <2>2, <2>3 DEF Queued
  <2> QED BY <1>0, <1>1, <1>2, <1>3, <2>5, <2>6, LoopStep DEF Working
<1> QED BY <1>4, <1>5 DEF FdWait

(* A connection that waited has been run, and wants no descriptor any more.  *)
LEMMA FdWaitedStep == ASSUME Inv, FdWaited PROVE Inv'
<1>0. pc = "fdwaited" /\ LoopInv /\ run = NoRun /\ NoRun.ret = "top"
  BY NoRunType DEF Inv, FdWaited
<1>1. /\ want_fds' = want_fds - 1 /\ pc' = "fdwait"
      /\ UNCHANGED <<run, tix, events, ctlVars, ptr, used, con, cur_fds, fdwaitqueue, joblist, client, fcntl_failures>>
  BY DEF FdWaited
<1>2. ClientsKept
  BY <1>1, UnchangedClients DEF Inv, Core
<1>3. EventsInv'
  BY <1>0, <1>1, NoEvents DEF Inv, EventsInv
<1>4. want_fds' = Len(fdwaitqueue')
  <2>1. want_fds = Len(fdwaitqueue) + 1 /\ Len(fdwaitqueue) \in Nat
    BY <1>0 DEF LoopInv
  <2> QED BY <1>1, <2>1
<1>5. LoopInv'
  <2>1. want_fds' = Len(fdwaitqueue') + (IF run'.ret = "fdwaited" \/ pc' = "fdwaited" THEN 1 ELSE 0)
    <3>1. Len(fdwaitqueue') \in Nat
      BY <1>0, <1>1 DEF LoopInv
    <3> QED BY <1>0, <1>1, <1>4, <3>1
  <2> QED BY <1>0, <1>1, <2>1 DEF LoopInv, ctlVars
<1>6. Queued(fdwaitqueue)' = Queued(fdwaitqueue)
  BY <1>1 DEF Queued
<1> QED BY <1>0, <1>1, <1>2, <1>3, <1>5, <1>6, LoopStep DEF Working

(* The events of the poll are those of open connections.                     *)
LEMMA PollStep == ASSUME Inv, Poll PROVE Inv'
<1>0. pc = "poll" /\ LoopInv /\ run = NoRun
  BY NoRunType DEF Inv, Poll
<1>1. /\ pc' = "events" /\ events' = Ready
      /\ UNCHANGED <<run, tix, ctlVars, ptr, used, con, fdVars, joblist, client, fcntl_failures>>
  BY DEF Poll
<1>2. ClientsKept
  BY <1>1, UnchangedClients DEF Inv, Core
<1>3. EventsInv'
  <2>1. \A c \in Cons : <<"con", c>> \in Ready => ConReady(c)
    BY DEF Ready
  <2>2. \A c \in Cons : <<"backend", c>> \in Ready => BackendReady(c)
    BY DEF Ready
  <2>3. Open' = Open /\ con' = con
    BY <1>1 DEF Open
  <2>4. \A c \in Cons : <<"con", c>> \in events' => c \in Open'
    BY <1>1, <2>1, <2>3 DEF ConReady
  <2>5. \A c \in Cons : <<"backend", c>> \in events' => con'[c].backend \in {"busy", "started"}
    BY <1>1, <2>2, <2>3 DEF BackendReady
  <2> QED BY <1>1, <2>4, <2>5 DEF EventsInv
<1>4. listening' \in {"polled", "idle", "closed"}
  BY <1>0, <1>1 DEF LoopInv, ctlVars
<1> QED BY <1>0, <1>1, <1>2, <1>3, <1>4, PhaseStep DEF fdVars, Working

(* The steps between the phases that handle events.                          *)
LEMMA EventPhases == ASSUME Inv, ListenEvent \/ AcceptEnds \/ EventsEnd PROVE Inv'
<1>0. LoopInv /\ EventsInv
  BY DEF Inv
<1>1. /\ UNCHANGED <<run, tix, listening, ptr, used, con, fdVars, joblist, client, fcntl_failures>>
      /\ pc \in {"events", "accept"} /\ pc' \in {"events", "accept", "jobs"}
      /\ events' \subseteq events
      /\ pc' = "jobs" => events = {}
  BY DEF ListenEvent, AcceptEnds, EventsEnd, Handled, loopVars, ctlVars
<1>2. ClientsKept
  BY <1>1, UnchangedClients DEF Inv, Core
<1>3. EventsInv'
  <2>1. Open' = Open /\ con' = con
    BY <1>1 DEF Open
  <2> QED BY <1>0, <1>1, <2>1 DEF EventsInv
<1>4. listening' \in {"polled", "idle", "closed"}
  BY <1>0, <1>1 DEF LoopInv
<1> QED BY <1>1, <1>2, <1>3, <1>4, PhaseStep DEF fdVars, Working

(* The next connection of the job list is run.                               *)
LEMMA JobsStep == ASSUME Inv, Jobs PROVE Inv'
<1>0. pc = "jobs" /\ LoopInv /\ run = NoRun /\ NoRun.ret = "top"
  BY NoRunType DEF Inv, Jobs
<1>1. UNCHANGED <<tix, events, ctlVars, ptr, used, con, fdVars, client, fcntl_failures>>
  BY DEF Jobs, loopVars
<1>2. ClientsKept
  BY <1>1, UnchangedClients DEF Inv, Core
<1>3. EventsInv'
  BY <1>0, <1>1, NoEvents DEF Inv, EventsInv
<1>4. CASE joblist = <<>> /\ pc' = "top" /\ UNCHANGED <<run, joblist>>
  <2>1. listening' \in {"polled", "idle", "closed"}
    BY <1>0, <1>1 DEF LoopInv, ctlVars
  <2> QED BY <1>0, <1>1, <1>2, <1>3, <1>4, <2>1, PhaseStep DEF fdVars
<1>5. CASE joblist # <<>> /\ Enter(Head(joblist), "jobs") /\ joblist' = Tail(joblist)
  <2>1. joblist \in Seq(Cons) /\ NoRun.con \in Cons /\ want_fds = Len(fdwaitqueue) + 0
    BY <1>0 DEF LoopInv
  <2>2. /\ Head(joblist) \in Cons /\ joblist' \in Seq(Cons)
        /\ Queued(joblist) = {Head(joblist)} \cup Queued(joblist')
    BY <1>5, <2>1, QueueFacts
  <2>3. run' = [con |-> Head(joblist), ret |-> "jobs"] /\ pc' = "machine"
    BY <1>5 DEF Enter
  <2>5. LoopInv'
    BY <1>0, <1>1, <2>1, <2>2, <2>3 DEF LoopInv, ctlVars, fdVars
  <2>6. \A d \in Open : Working /\ d \in Queued(joblist) =>
          (Working' /\ d \in Queued(joblist)') \/ (pc' = "machine" /\ run'.con = d)
    BY <2>2, <2>3 DEF Queued, Working
  <2>7. Queued(fdwaitqueue)' = Queued(fdwaitqueue)
    BY <1>1 DEF Queued, fdVars
  <2> QED BY <1>0, <1>1, <1>2, <1>3, <2>5, <2>6, <2>7, LoopStep DEF fdVars
<1> QED BY <1>4, <1>5 DEF Jobs

(* The environment between two polls, and signals.                           *)
LEMMA PeersStep ==
  ASSUME Inv, NEW p \in Clients, ClientConnect(p) \/ ClientSends(p) \/ ClientReceives(p)
         \/ ClientEnds(p)
  PROVE  Inv'
<1>0. pc = "poll" /\ LoopInv /\ EventsInv /\ ClientsInv /\ IsClient(client[p])
      /\ DOMAIN client = Clients
  BY DEF Inv, Core, ClientsInv, ClientConnect, ClientSends, ClientReceives, ClientEnds
<1>1. UNCHANGED <<serverVars, con>>
  BY DEF ClientConnect, ClientSends, ClientReceives, ClientEnds
<1>2. \E q : /\ client' = [client EXCEPT ![p] = q] /\ IsClient(q)
             /\ (q.st = "accepted" <=> client[p].st = "accepted")
  <2>0. DOMAIN client[p] = ClientFields
    BY <1>0 DEF IsClient
  <2>1. CASE ClientConnect(p)
    <3>1. PICK s \in Scripts[p] : \E n \in {0, 1} \cap (0..Len(s)) :
            client' = [client EXCEPT ![p].st = "connecting", ![p].script = s, ![p].sent = n]
      BY <2>1 DEF ClientConnect
    <3>1a. PICK n \in {0, 1} \cap (0..Len(s)) :
            client' = [client EXCEPT ![p].st = "connecting", ![p].script = s, ![p].sent = n]
      BY <3>1
    <3> DEFINE q == [client[p] EXCEPT !.st = "connecting", !.script = s, !.sent = n]
    <3>2. client' = [client EXCEPT ![p] = q]
      BY <3>1a
    <3>3. DOMAIN q = ClientFields /\ q.st = "connecting" /\ q.script = s /\ q.sent = n
          /\ q.read = client[p].read
      BY <2>0 DEF ClientFields
    <3> HIDE DEF q
    <3>4. s \in Seq(Tokens) /\ n \in 0..Len(s)
      BY <3>1, <3>1a, SizesAssumption
    <3>6. client[p].read = 0 /\ client[p].st = "away"
      BY <1>0, <2>1 DEF ClientConnect, IsClient
    <3>7. q.read \in 0..q.sent
      BY <3>3, <3>6
    <3>8. IsClient(q)
      BY <3>3, <3>4, <3>7 DEF IsClient
    <3> QED BY <3>2, <3>3, <3>6, <3>8
  <2>2. CASE ClientSends(p)
    <3> DEFINE q == [client[p] EXCEPT !.sent = @ + 1]
    <3>1. client' = [client EXCEPT ![p] = q] /\ client[p].sent < Len(client[p].script)
          /\ client[p].st = "accepted"
      BY <2>2 DEF ClientSends
    <3>2. /\ DOMAIN q = ClientFields /\ q.st = client[p].st /\ q.script = client[p].script
          /\ q.sent = client[p].sent + 1 /\ q.read = client[p].read
      BY <2>0 DEF ClientFields
    <3> HIDE DEF q
    <3>3. client[p].script \in Seq(Tokens) /\ Len(client[p].script) \in Nat
          /\ client[p].sent \in Nat
          /\ client[p].read \in 0..client[p].sent
      BY <1>0 DEF IsClient
    <3>4. q.sent \in 0..Len(q.script) /\ q.read \in 0..q.sent
      BY <3>1, <3>2, <3>3
    <3>5. IsClient(q)
      BY <3>1, <3>2, <3>3, <3>4 DEF IsClient
    <3> QED BY <3>1, <3>2, <3>5
  <2>3. CASE ClientReceives(p)
    <3> DEFINE q == [client[p] EXCEPT !.full = FALSE]
    <3>1. client' = [client EXCEPT ![p] = q]
      BY <2>3 DEF ClientReceives
    <3>2. /\ DOMAIN q = ClientFields /\ q.st = client[p].st /\ q.script = client[p].script
          /\ q.sent = client[p].sent /\ q.read = client[p].read
      BY <2>0 DEF ClientFields
    <3> HIDE DEF q
    <3> QED BY <1>0, <3>1, <3>2 DEF IsClient
  <2>4. CASE ClientEnds(p)
    <3>1. PICK f \in {"eof", "reset"} : client' = [client EXCEPT ![p].fin = f]
      BY <2>4 DEF ClientEnds
    <3> DEFINE q == [client[p] EXCEPT !.fin = f]
    <3>2. client' = [client EXCEPT ![p] = q]
      BY <3>1
    <3>3. /\ DOMAIN q = ClientFields /\ q.st = client[p].st /\ q.script = client[p].script
          /\ q.sent = client[p].sent /\ q.read = client[p].read
      BY <2>0 DEF ClientFields
    <3> HIDE DEF q
    <3> QED BY <1>0, <3>2, <3>3 DEF IsClient
  <2> QED BY <2>1, <2>2, <2>3, <2>4
<1>3. ClientsKept
  <2>1. PICK q : /\ client' = [client EXCEPT ![p] = q] /\ IsClient(q)
                 /\ (q.st = "accepted" <=> client[p].st = "accepted")
    BY <1>2
  <2> QED BY <1>0, <2>1 DEF ClientsKept, ClientsInv
<1>4. EventsInv'
  BY <1>0, <1>1, NoEvents DEF EventsInv, serverVars, loopVars
<1>5. listening' \in {"polled", "idle", "closed"}
  BY <1>0, <1>1 DEF LoopInv, serverVars, ctlVars
<1> QED BY <1>0, <1>1, <1>3, <1>4, <1>5, PhaseStep DEF Working, serverVars, loopVars, fdVars

(* A signal only raises its flag.                                            *)
LEMMA SignalStep == ASSUME Inv, Sigint \/ Sigterm PROVE Inv'
<1>0. pc = "top" /\ LoopInv /\ EventsInv
  BY DEF Inv, Sigint, Sigterm
<1>1. UNCHANGED <<pc, run, loopVars, listening, ptr, used, con, fdVars, joblist, client, fcntl_failures>>
  BY DEF Sigint, Sigterm
<1>2. ClientsKept
  BY <1>1, UnchangedClients DEF Inv, Core
<1>3. EventsInv'
  BY <1>0, <1>1, NoEvents DEF EventsInv, loopVars
<1>4. listening' \in {"polled", "idle", "closed"}
  BY <1>0, <1>1 DEF LoopInv
<1> QED BY <1>0, <1>1, <1>2, <1>3, <1>4, PhaseStep DEF Working, loopVars, fdVars

-----------------------------------------------------------------------------
(* The steps of the loop that change a connection.                           *)

(* A timeout: a connection that changed is run at once.                      *)
LEMMA TriggerStep == ASSUME Inv, Trigger PROVE Inv'
<1>0. pc = "trigger" /\ LoopInv /\ Core /\ run = NoRun /\ NoRun.ret = "top"
  BY NoRunType DEF Inv, Trigger
<1>1. UNCHANGED <<events, listening, ptr, used, fdVars, joblist, client, fcntl_failures>>
  BY DEF Trigger, ctlVars
<1>2. ClientsKept
  BY <1>0, <1>1, UnchangedClients DEF Core
<1>3. EventsInv'
  BY <1>0, <1>1, NoEvents DEF Inv, EventsInv
<1>4. CASE tix > used
  <2>1. pc' = "sockets" /\ tix' = 1 /\ UNCHANGED <<run, con>>
    BY <1>4 DEF Trigger
  <2>2. listening' \in {"polled", "idle", "closed"}
    BY <1>0, <1>1 DEF LoopInv
  <2> QED BY <1>0, <1>1, <1>2, <1>3, <2>1, <2>2, PhaseStep DEF Working, fdVars
<1>5. CASE ~(tix > used)
  <2>0. ptr[tix] \in Open /\ tix \in Nat \ {0}
    <3>1. tix \in Nat \ {0} /\ used \in Nat
      BY <1>0, OpenType, SizeType DEF LoopInv, Core
    <3>2. tix \in 1..used
      BY <1>5, <3>1
    <3> QED BY <3>1, <3>2 DEF Open
  <2>1. PICK c \in Open : \E t \in Timeouts(con[c]) :
          /\ con' = [con EXCEPT ![c] = t.k] /\ tix' = tix + 1
          /\ IF t.changed THEN Enter(c, "trigger") ELSE UNCHANGED <<pc, run>>
    BY <1>5, <2>0 DEF Trigger
  <2>2. PICK t \in Timeouts(con[c]) :
          /\ con' = [con EXCEPT ![c] = t.k] /\ tix' = tix + 1
          /\ IF t.changed THEN Enter(c, "trigger") ELSE UNCHANGED <<pc, run>>
    BY <2>1
  <2>3. c \in Cons /\ Good(con[c]) /\ con[c].st # "CONNECT"
    BY <1>0, OpenType DEF Core, ConsInv
  <2> DEFINE q == t.k
  <2>4. /\ Keeps(con[c], q) /\ q.st \in {con[c].st, "ERROR"}
        /\ q.write_ts = con[c].write_ts /\ q.since = con[c].since
        /\ ~t.changed => q = con[c]
    BY <2>3, TimeoutsGood
  <2>5. con' = [con EXCEPT ![c] = q]
    BY <2>2
  <2> HIDE DEF q
  <2>6. Core' /\ Open' = Open
    BY <1>0, <1>1, <1>2, <2>3, <2>4, <2>5, ConChange, SameFds DEF Keeps, Inv, fdVars, Open
  <2>7. /\ \/ pc' = "machine" /\ run' = [con |-> c, ret |-> "trigger"]
           \/ pc' = pc /\ run' = run /\ q = con[c]
    BY <2>2, <2>4 DEF Enter
  <2>8. LoopInv'
    <3>1. tix' \in Nat \ {0}
      BY <2>0, <2>2
    <3> QED BY <1>0, <1>1, <2>3, <2>7, <3>1 DEF LoopInv, fdVars
  <2>9. q.st = "WRITE" => Fresh(q)
    BY <1>0, <2>3, <2>4 DEF Inv, FreshInv, Fresh
  <2>10. Attended(c)'
    <3>1. CASE pc' = "machine" /\ run' = [con |-> c, ret |-> "trigger"]
      BY <3>1 DEF Attended
    <3>2. CASE pc' = pc /\ run' = run /\ q = con[c]
      <4>1. con'[c] = con[c]
        BY <2>3, <2>5, <3>2
      <4>2. Attended(c)
        BY DEF Inv, AttendedInv
      <4>3. Rests(con[c]) => Rests(con[c])'
        BY <4>1 DEF Rests
      <4> QED BY <1>0, <1>1, <3>2, <4>1, <4>2, <4>3 DEF Attended, Working, Queued, fdVars
    <3> QED BY <2>7, <3>1, <3>2
  <2> QED BY <1>0, <1>1, <1>3, <2>5, <2>6, <2>8, <2>9, <2>10, ConStep DEF Working, fdVars
<1> QED BY <1>4, <1>5

(* What an event leads to for its connection.                                *)
LEMMA FdeventGood ==
  ASSUME Inv, pc # "machine", NEW c \in Open, NEW r,
         LET k == Woken(c) IN
           r \in IF k.st \in {"READ", "READ_POST"} THEN connection_handle_read_state(k)
                 ELSE IF k.st = "WRITE" /\ k.wq > 0 /\ k.wr THEN connection_handle_write(k)
                 ELSE IF k.st = "CLOSE" THEN {FlushOnClose(k)}
                 ELSE {Result(k, 0, client[k.fd].full, FALSE)}
  PROVE  /\ GoodResult(con[c], r) /\ r.k.st # "CONNECT"
         /\ r.k.st = "WRITE" => Fresh(r.k)
<1> DEFINE k == Woken(c)
<1>1. /\ c \in Cons /\ Good(con[c]) /\ con[c].st # "CONNECT" /\ con[c].fd \in Clients
      /\ IsClient(client[con[c].fd])
  BY OpenType DEF Inv, Core, ConsInv, OwnersInv, ClientsInv
<1>2. Keeps(con[c], k) /\ k.st \in {con[c].st, "ERROR"} /\ k.write_ts = con[c].write_ts
      /\ k.since = con[c].since
  BY <1>1, WokenGood
<1>3. r \in IF k.st \in {"READ", "READ_POST"} THEN connection_handle_read_state(k)
            ELSE IF k.st = "WRITE" /\ k.wq > 0 /\ k.wr THEN connection_handle_write(k)
            ELSE IF k.st = "CLOSE" THEN {FlushOnClose(k)}
            ELSE {Result(k, 0, client[k.fd].full, FALSE)}
  OBVIOUS
<1> HIDE DEF k
<1>4. Good(k) /\ k.fd = con[c].fd /\ k.fd \in Clients /\ IsClient(client[k.fd])
  BY <1>1, <1>2 DEF Keeps
<1>5. GoodResult(k, r) => GoodResult(con[c], r)
  BY <1>2 DEF GoodResult, Keeps
<1>6. k.st = "WRITE" => Fresh(k)
  BY <1>1, <1>2 DEF Inv, FreshInv, Fresh
<1>7. CASE k.st \in {"READ", "READ_POST"}
  BY <1>3, <1>4, <1>5, <1>7, ReadGood DEF Calm
<1>8. CASE k.st = "WRITE" /\ k.wq > 0 /\ k.wr
  <2>1. r \in connection_handle_write(k)
    BY <1>3, <1>8
  <2>2. /\ GoodResult(k, r) /\ r.k.st \in {"WRITE", "RESPONSE_END", "ERROR"}
        /\ r.k.st = "WRITE" => r.k.write_ts = 1
    BY <1>4, <1>8, <2>1, WriteGood
  <2>3. r.k.since \in 0..Expired
    BY <2>2 DEF GoodResult, Keeps, Good, IsCon
  <2> DEFINE n == r.k.since
  <2>4. n \in Nat
    BY <2>3, Numbers
  <2> HIDE DEF n
  <2>5. 1 \in 1..(n + 1)
    BY <2>4
  <2>6. r.k.st = "WRITE" => Fresh(r.k)
    BY <2>2, <2>5 DEF Fresh, n
  <2> QED BY <1>5, <2>2, <2>6
<1>9. CASE k.st = "CLOSE"
  <2>1. r = FlushOnClose(k)
    BY <1>3, <1>9
  <2> QED BY <1>4, <1>5, <1>9, <2>1, FlushGood
<1>10. CASE r = Result(k, 0, client[k.fd].full, FALSE)
  <2>1. r.k = k /\ r.taken = 0
    BY <1>10 DEF Result
  <2>2. client[k.fd].read \in Nat /\ client[k.fd].sent \in Nat
        /\ client[k.fd].read <= client[k.fd].sent
    BY <1>4 DEF IsClient
  <2>3. Keeps(k, k)
    BY <1>4 DEF Keeps
  <2>4. GoodResult(k, r)
    BY <2>1, <2>2, <2>3 DEF GoodResult
  <2> QED BY <1>1, <1>2, <1>5, <1>6, <2>1, <2>4
<1> QED BY <1>3, <1>7, <1>8, <1>9, <1>10

(* An event of a connection: it works, and joins the job list.               *)
LEMMA HandleFdeventStep == ASSUME Inv, HandleFdevent PROVE Inv'
<1>0. pc = "events" /\ LoopInv /\ EventsInv /\ Core /\ ClientsInv /\ run = NoRun
      /\ NoRun.ret = "top"
  BY NoRunType DEF Inv, Core, HandleFdevent
<1>1. UNCHANGED <<pc, run, tix, listening, ptr, used, fdVars, fcntl_failures>>
  BY DEF HandleFdevent, ctlVars
<1>2. PICK c \in Cons : \E r :
        /\ <<"con", c>> \in events /\ events' = events \ {<<"con", c>>}
        /\ LET k == Woken(c) IN
             r \in IF k.st \in {"READ", "READ_POST"} THEN connection_handle_read_state(k)
                   ELSE IF k.st = "WRITE" /\ k.wq > 0 /\ k.wr THEN connection_handle_write(k)
                   ELSE IF k.st = "CLOSE" THEN {FlushOnClose(k)}
                   ELSE {Result(k, 0, client[k.fd].full, FALSE)}
        /\ con' = [con EXCEPT ![c] = r.k] /\ Took(r)
        /\ joblist' = joblist \o (IF r.job THEN <<c, c>> ELSE <<c>>)
  BY DEF HandleFdevent, Handled
<1>3. PICK r :
        /\ <<"con", c>> \in events /\ events' = events \ {<<"con", c>>}
        /\ LET k == Woken(c) IN
             r \in IF k.st \in {"READ", "READ_POST"} THEN connection_handle_read_state(k)
                   ELSE IF k.st = "WRITE" /\ k.wq > 0 /\ k.wr THEN connection_handle_write(k)
                   ELSE IF k.st = "CLOSE" THEN {FlushOnClose(k)}
                   ELSE {Result(k, 0, client[k.fd].full, FALSE)}
        /\ con' = [con EXCEPT ![c] = r.k] /\ Took(r)
        /\ joblist' = joblist \o (IF r.job THEN <<c, c>> ELSE <<c>>)
  BY <1>2
<1>4. c \in Open
  BY <1>0, <1>3 DEF EventsInv
<1> DEFINE q == r.k
<1>5. GoodResult(con[c], r) /\ q.st # "CONNECT" /\ (q.st = "WRITE" => Fresh(q))
  BY <1>0, <1>3, <1>4, FdeventGood
<1>6. Keeps(con[c], q) /\ con' = [con EXCEPT ![c] = q]
  BY <1>3, <1>5 DEF GoodResult
<1>7. ClientsKept
  <2>1. con[c].fd \in Clients /\ client[con[c].fd].st = "accepted"
    BY <1>0, <1>4 DEF Core, OwnersInv
  <2> QED BY <1>0, <1>3, <1>5, <2>1, TookKept
<1> HIDE DEF q
<1>8. Core' /\ Open' = Open
  BY <1>0, <1>1, <1>4, <1>5, <1>6, <1>7, ConChange, SameFds DEF Keeps, Inv, fdVars, Open
<1>9. joblist' \in Seq(Cons) /\ Queued(joblist) \subseteq Queued(joblist)' /\ c \in Queued(joblist)'
  <2> DEFINE t == IF r.job THEN <<c, c>> ELSE <<c>>
  <2>1. joblist \in Seq(Cons) /\ t \in Seq(Cons) /\ joblist' = joblist \o t
    BY <1>0, <1>3 DEF LoopInv
  <2>2. Len(t) > 0 /\ t[1] = c
    OBVIOUS
  <2> HIDE DEF t
  <2>3. /\ joblist' \in Seq(Cons) /\ Len(joblist') = Len(joblist) + Len(t)
        /\ \A i \in 1..Len(joblist) : joblist'[i] = joblist[i]
        /\ joblist'[Len(joblist) + 1] = t[1]
    BY <2>1, <2>2
  <2>4. Len(joblist) \in Nat /\ Len(t) \in Nat
    BY <2>1
  <2>5. Len(joblist) + 1 \in 1..Len(joblist') /\ 1..Len(joblist) \subseteq 1..Len(joblist')
    BY <2>2, <2>3, <2>4
  <2> QED BY <2>2, <2>3, <2>5 DEF Queued
<1>10. LoopInv'
  BY <1>0, <1>1, <1>9 DEF LoopInv, fdVars
<1>11. EventsInv'
  <2>1. BackendFd(con'[c]) = BackendFd(con[c]) /\ \A d \in Cons : d # c => con'[d] = con[d]
    BY <1>0, <1>6 DEF Keeps, Core, ConsInv
  <2>2. \A d \in Cons : con[d].backend \in {"busy", "started"}
        => con'[d].backend \in {"busy", "started"}
    BY <2>1 DEF BackendFd
  <2> QED BY <1>0, <1>1, <1>3, <1>8, <2>2 DEF EventsInv
<1>12. Attended(c)' /\ (Working => Working')
  BY <1>0, <1>1, <1>9 DEF Attended, Working
<1> QED BY <1>0, <1>1, <1>4, <1>5, <1>6, <1>8, <1>9, <1>10, <1>11, <1>12, ConStep DEF fdVars

(* Arithmetic of one descriptor taken and one returned.                      *)
LEMMA Swap == ASSUME NEW n \in Nat, NEW a \in {0, 1}, NEW b \in {0, 1} PROVE n - a + b = n + b - a
OBVIOUS

(* An event of a backend: its connection joins the job list.                 *)
LEMMA BackendEventStep == ASSUME Inv, BackendEvent PROVE Inv'
<1>0. pc = "events" /\ LoopInv /\ EventsInv /\ Core /\ ClientsInv /\ run = NoRun
      /\ NoRun.ret = "top"
  BY NoRunType DEF Inv, Core, BackendEvent
<1>1. UNCHANGED <<pc, run, tix, listening, ptr, used, want_fds, fdwaitqueue, client, fcntl_failures>>
  BY DEF BackendEvent, ctlVars
<1>2. PICK c \in Cons : /\ <<"backend", c>> \in events /\ events' = events \ {<<"backend", c>>}
                        /\ \E k \in BackendStep(con[c]) :
                             /\ con' = [con EXCEPT ![c] = k]
                             /\ cur_fds' = cur_fds - BackendFd(con[c]) + BackendFd(k)
                        /\ joblist' = Append(joblist, c)
  BY DEF BackendEvent, Handled
<1>3. PICK q \in BackendStep(con[c]) :
        con' = [con EXCEPT ![c] = q] /\ cur_fds' = cur_fds - BackendFd(con[c]) + BackendFd(q)
  BY <1>2
<1>4. con[c].backend \in {"busy", "started"} /\ Good(con[c])
  BY <1>0, <1>2 DEF EventsInv, Core, ConsInv
<1>5. con[c].st # "CONNECT" /\ c \in Open
  BY <1>0, <1>4 DEF Good, Shape, Core, ConsInv
<1>6. /\ Good(q) /\ q.fd = con[c].fd /\ q.st \in {con[c].st, "ERROR", "HANDLE_REQUEST"}
      /\ q.write_ts = con[c].write_ts /\ q.since = con[c].since
  BY <1>4, BackendGood
<1>7. ClientsKept
  BY <1>0, <1>1, UnchangedClients
<1>8. cur_fds' = cur_fds + BackendFd(q) - BackendFd(con[c])
  <2>1. cur_fds = BaseFds + used + Cardinality(Busy) /\ BaseFds \in Nat /\ used \in Nat
        /\ Cardinality(Busy) \in Nat
    BY <1>0, CountType, SizeType, OpenType DEF Core, FdsInv
  <2>2. cur_fds \in Nat
    BY <2>1
  <2> QED BY <1>3, <2>2, FdRange, Swap
<1>9. Core' /\ Open' = Open
  BY <1>0, <1>1, <1>3, <1>5, <1>6, <1>7, <1>8, ConChange DEF Open
<1>10. joblist' \in Seq(Cons) /\ Queued(joblist)' = Queued(joblist) \cup {c}
  BY <1>0, <1>2, QueueFacts DEF LoopInv, Queued
<1>11. LoopInv'
  BY <1>0, <1>1, <1>10 DEF LoopInv
<1>12. EventsInv'
  <2>1. \A d \in Cons : d # c => con'[d] = con[d]
    BY <1>0, <1>3 DEF Core, ConsInv
  <2> QED BY <1>0, <1>1, <1>2, <1>9, <2>1 DEF EventsInv
<1>13. Attended(c)' /\ (Working => Working')
  BY <1>0, <1>1, <1>10 DEF Attended, Working
<1>14. q.st = "WRITE" => Fresh(q)
  BY <1>0, <1>6 DEF Inv, FreshInv, Fresh
<1> QED BY <1>0, <1>1, <1>3, <1>5, <1>9, <1>10, <1>11, <1>12, <1>13, <1>14, ConStep

(* A backend's answer only becomes available.                                *)
LEMMA BackendAnswersStep == ASSUME Inv, NEW c \in Cons, BackendAnswers(c) PROVE Inv'
<1> DEFINE q == [con[c] EXCEPT !.answer = TRUE]
<1>0. pc = "poll" /\ LoopInv /\ EventsInv /\ Core /\ ClientsInv /\ run = NoRun
  BY NoRunType DEF Inv, Core, BackendAnswers
<1>1. UNCHANGED <<serverVars, client>> /\ con' = [con EXCEPT ![c] = q]
      /\ con[c].backend \in {"busy", "started"}
  BY DEF BackendAnswers
<1>2. con[c].st # "CONNECT" /\ c \in Open /\ Good(con[c])
  BY <1>0, <1>1 DEF Good, Shape, Core, ConsInv
<1>3. Near(con[c], q) /\ q.st = con[c].st /\ q.status = con[c].status /\ q.paused = con[c].paused
  BY <1>2 DEF Near, Good, IsCon, ConFields
<1> HIDE DEF q
<1>4. Keeps(con[c], q)
  BY <1>2, <1>3, NearGood
<1>5. ClientsKept
  BY <1>0, <1>1, UnchangedClients
<1>6. Core' /\ Open' = Open
  BY <1>0, <1>1, <1>2, <1>3, <1>4, <1>5, ConChange, SameFds DEF Keeps, Inv, serverVars, fdVars, Open
<1>7. LoopInv' /\ EventsInv'
  BY <1>0, <1>1, <1>6, NoEvents DEF LoopInv, EventsInv, serverVars, loopVars, ctlVars, fdVars
<1>8. q.st = "WRITE" => Fresh(q)
  BY <1>0, <1>2, <1>3 DEF Inv, FreshInv, Fresh, Near
<1>9. Attended(c)'
  <2>1. con'[c] = q /\ Attended(c)
    BY <1>0, <1>1, <1>2 DEF Inv, AttendedInv, Core, ConsInv
  <2>2. Rests(con[c]) => Rests(con[c])'
    BY <1>3, <2>1 DEF Rests, Near
  <2>3. c \in Queued(fdwaitqueue) => c \in Queued(fdwaitqueue)'
    BY <1>1 DEF Queued, serverVars, fdVars
  <2> QED BY <1>0, <1>1, <1>3, <2>1, <2>2, <2>3 DEF Attended, Working, serverVars
<1> QED BY <1>0, <1>1, <1>2, <1>6, <1>7, <1>8, <1>9, ConStep DEF Working, serverVars, fdVars

(* A new connection is run at once, or stuck.                                *)
LEMMA AcceptActionStep == ASSUME Inv, connection_accept PROVE Inv'
<1> DEFINE c == connections_get_new_connection
           k == connection_reset(con[c])
<1>0. pc = "accept" /\ LoopInv /\ EventsInv /\ Core /\ run = NoRun /\ NoRun.ret = "top"
      /\ used < MaxConns
  BY NoRunType DEF Inv, connection_accept
<1>1. c \in Cons \ Open
  BY <1>0, NewConnection
<1> HIDE DEF c
<1>2. PICK p \in Arriving :
        /\ con' = [con EXCEPT ![c] = [connection_reset(@) EXCEPT !.st = "REQUEST_START", !.fd = p, !.ev = ""]]
        /\ client' = [client EXCEPT ![p].st = "accepted"]
        /\ used' = used + 1 /\ cur_fds' = cur_fds + 1
        /\ \/ Enter(c, "accept") /\ UNCHANGED fcntl_failures
           \/ fcntl_failures' = fcntl_failures + 1 /\ pc' = "events" /\ UNCHANGED run
  BY DEF connection_accept, c
<1>3. UNCHANGED <<loopVars, ctlVars, ptr, want_fds, fdwaitqueue, joblist>>
  BY DEF connection_accept
<1> DEFINE q == [k EXCEPT !.st = "REQUEST_START", !.fd = p, !.ev = ""]
<1>4. con' = [con EXCEPT ![c] = q] /\ p \in Clients /\ client[p].st = "connecting"
  BY <1>2 DEF Arriving
<1>5. Good(con[c]) /\ IsCon(con[c]) /\ con[c].st = "CONNECT"
  BY <1>0, <1>1 DEF Core, ConsInv, Good
<1>6. IsCon(k) /\ k.backend = "none" /\ k.mode = "DIRECT" /\ k.wr
  BY <1>5, ResetGood
<1> HIDE DEF k
<1>7. IsCon(q) /\ q.st = "REQUEST_START" /\ q.fd = p /\ q.mode = "DIRECT" /\ q.backend = "none"
      /\ q.wr
  BY <1>4, <1>6 DEF IsCon, ConFields, States
<1> HIDE DEF q
<1>8. Good(q) /\ BackendFd(q) = 0
  BY <1>7, ClearedGood
<1>9. Core' /\ Open' = Open \cup {c}
  BY <1>0, <1>2, <1>3, <1>4, <1>7, <1>8, AcceptStep DEF c
<1>10. DOMAIN con = Cons /\ \A d \in Cons : con'[d] = IF d = c THEN q ELSE con[d]
  BY <1>0, <1>1, <1>4 DEF Core, ConsInv
<1>11. \/ pc' = "machine" /\ run' = [con |-> c, ret |-> "accept"]
          /\ fcntl_failures' = fcntl_failures
       \/ pc' = "events" /\ run' = run /\ fcntl_failures' = fcntl_failures + 1
  BY <1>2 DEF Enter
<1>12. fcntl_failures \in Nat /\ fcntl_failures' \in Nat
       /\ (fcntl_failures > 0 => fcntl_failures' > 0)
       /\ (pc' = "events" => fcntl_failures' > 0)
  <2>1. fcntl_failures \in Nat
    BY <1>0 DEF LoopInv
  <2> QED BY <1>11, <2>1
<1>13. LoopInv'
  BY <1>0, <1>1, <1>3, <1>11, <1>12 DEF LoopInv, loopVars, ctlVars
<1>14. <<"con", c>> \notin events /\ <<"backend", c>> \notin events
  BY <1>0, <1>1, <1>5 DEF EventsInv, Good, Shape
<1>15. EventsInv'
  <2>1. events' = events
    BY <1>3 DEF loopVars
  <2>2. \A d \in Cons : <<"con", d>> \in events => d \in Open'
    BY <1>0, <1>9 DEF EventsInv
  <2>3. \A d \in Cons : <<"backend", d>> \in events => con'[d].backend \in {"busy", "started"}
    BY <1>0, <1>10, <1>14 DEF EventsInv
  <2> QED BY <1>11, <1>14, <2>1, <2>2, <2>3 DEF EventsInv
<1>16. AttendedInv'
  <2> SUFFICES ASSUME NEW d \in Open \cup {c} PROVE Attended(d)'
    BY <1>9 DEF AttendedInv
  <2>1. CASE d = c
    BY <1>1, <1>7, <1>10, <1>11, <1>12, <2>1 DEF Attended
  <2>2. CASE d # c
    <3>1. d \in Open /\ con'[d] = con[d] /\ Attended(d)
      BY <1>0, <1>10, <2>2, OpenType DEF Inv, Core, AttendedInv
    <3>2. Rests(con[d]) => Rests(con[d])'
      BY <3>1 DEF Rests
    <3>3. Queued(joblist)' = Queued(joblist) /\ Queued(fdwaitqueue)' = Queued(fdwaitqueue)
      BY <1>3 DEF Queued
    <3>4. Working'
      BY <1>11 DEF Working
    <3> QED BY <1>0, <1>12, <3>1, <3>2, <3>3, <3>4 DEF Attended
  <2> QED BY <2>1, <2>2
<1>17. FreshInv'
  <2> SUFFICES ASSUME NEW d \in Cons, con'[d].st = "WRITE" PROVE Fresh(con'[d])
    BY DEF FreshInv, Fresh
  <2>1. d # c /\ con'[d] = con[d]
    BY <1>7, <1>10
  <2> QED BY <1>0, <2>1 DEF Inv, FreshInv
<1> QED BY <1>9, <1>13, <1>15, <1>16, <1>17 DEF Inv

-----------------------------------------------------------------------------
(* The invariant holds.                                                      *)

(* Every step keeps the invariant.                                           *)
LEMMA NextStep == ASSUME Inv, Next PROVE Inv'
<1>1. CASE Server
  BY <1>1, TopStep, TriggerStep, SocketsStep, FdWaitStep, FdWaitedStep, PollStep, HandleFdeventStep,
     BackendEventStep, EventPhases, AcceptActionStep, JobsStep, MachineStep DEF Server
<1>2. CASE Environment
  BY <1>2, PeersStep, BackendAnswersStep, SignalStep DEF Environment
<1> QED BY <1>1, <1>2 DEF Next

(* A stuttering step.                                                        *)
LEMMA Stutter == ASSUME Inv, UNCHANGED vars PROVE Inv'
<1>1. UNCHANGED <<pc, run, tix, free_fds, second, events, listening, ptr, used, con, cur_fds, want_fds,
                  fdwaitqueue, joblist, client, fcntl_failures>>
  BY DEF vars, loopVars, ctlVars, fdVars
<1>2. Open' = Open /\ Core'
  <2>1. ClientsKept
    BY <1>1, UnchangedClients DEF Inv, Core
  <2> QED BY <1>1, <2>1, CoreFrame DEF Inv, Open
<1>3. LoopInv' /\ EventsInv'
  BY <1>1, <1>2 DEF Inv, LoopInv, EventsInv
<1>4. AttendedInv' /\ FreshInv'
  BY <1>1, <1>2 DEF Inv, AttendedInv, Attended, FreshInv, Fresh, Rests, Working, Queued
<1> QED BY <1>2, <1>3, <1>4 DEF Inv

(* The first place of the array is as good as any other: they are all        *)
(* different, as there are as many places as connections.                    *)
LEMMA InitArray ==
  ASSUME ptr = CHOOSE s \in [1..Cardinality(Cons) -> Cons] : \A c \in Cons : \E i \in DOMAIN s : s[i] = c,
         used = 0
  PROVE  ArrayInv
<1>1. Size \in Nat /\ IsFiniteSet(Cons) /\ MaxConns \in Nat
  BY SizeType
<1>2. Bijection(1..Size, Cons) # {}
  BY <1>1, FS_CardinalityType DEF ExistsBijection, Size
<1>3. \E s \in [1..Size -> Cons] : \A c \in Cons : \E i \in DOMAIN s : s[i] = c
  BY <1>2 DEF Bijection, Surjection
<1>4. ptr \in [1..Size -> Cons] /\ \A c \in Cons : \E i \in 1..Size : ptr[i] = c
  BY <1>3 DEF Size
<1>5. ptr \in Surjection(1..Size, Cons)
  BY <1>4 DEF Surjection
<1>6. IsFiniteSet(1..Size) /\ Cardinality(1..Size) = Cardinality(Cons)
  <2> DEFINE n == Size
  <2>1. IsFiniteSet(1..n) /\ Cardinality(1..n) = IF 1 > n THEN 0 ELSE n - 1 + 1
    BY <1>1, FS_Interval
  <2>2. n \in Nat /\ n = Cardinality(Cons)
    BY <1>1 DEF Size
  <2> HIDE DEF n
  <2>3. Cardinality(1..n) = n
    BY <2>1, <2>2
  <2> QED BY <2>1, <2>2, <2>3 DEF n
<1>7. ptr \in Injection(1..Size, Cons)
  BY <1>5, <1>6, FS_SurjSameCardinalityImpliesInj
<1>8. \A i, j \in 1..Size : ptr[i] = ptr[j] => i = j
  BY <1>4, <1>7 DEF Injection, IsInjective
<1>9. used \in 0..MaxConns
  BY <1>1
<1> QED BY <1>4, <1>8, <1>9 DEF ArrayInv

(* The invariant holds at the start.                                         *)
LEMMA InitInv == ASSUME Init PROVE Inv
<1>1. /\ pc = "top" /\ run = NoRun /\ tix = 1 /\ events = {} /\ listening = "polled" /\ used = 0
      /\ con = [c \in Cons |-> Blank] /\ cur_fds = BaseFds /\ want_fds = 0 /\ fdwaitqueue = <<>>
      /\ joblist = <<>> /\ fcntl_failures = 0
      /\ client = [p \in Clients |-> [st |-> "away", script |-> <<>>, sent |-> 0, read |-> 0,
                                      fin |-> "no", full |-> FALSE, answers |-> 0]]
  BY DEF Init
<1>2. ArrayInv
  BY InitArray DEF Init
<1>3. Open = {} /\ Size \in Nat
  <2>1. 1..used = {}
    BY <1>1
  <2> QED BY <2>1, SizeType DEF Open
<1>4. Good(Blank) /\ Blank.st = "CONNECT" /\ Blank.ev = "" /\ BackendFd(Blank) = 0
  <2>1. DOMAIN Blank = ConFields /\ Blank.st = "CONNECT" /\ Blank.ev = "" /\ Blank.fd = "none"
        /\ Blank.mode = "DIRECT" /\ Blank.backend = "none"
    BY DEF Blank, ConFields
  <2>2. Blank.wr
    BY DEF Blank
  <2>3. Blank.wq = 0 /\ Blank.age = 0 /\ Blank.since = 0 /\ Blank.write_ts = 0
    BY DEF Blank
  <2>4. Blank.wq \in Nat /\ Blank.age \in 0..Expired /\ Blank.since \in 0..Expired
        /\ Blank.write_ts \in 0..(Expired + 1)
    BY <2>3, Numbers
  <2>5. IsCon(Blank)
    BY <2>1, <2>4 DEF IsCon, States
  <2> QED BY <2>1, <2>2, <2>5, ClearedGood
<1>5. ConsInv
  BY <1>1, <1>3, <1>4 DEF ConsInv
<1>6. ClientsInv
  <2> DEFINE e == [st |-> "away", script |-> <<>>, sent |-> 0, read |-> 0,
                   fin |-> "no", full |-> FALSE, answers |-> 0]
  <2>1. DOMAIN e = ClientFields /\ e.script = <<>> /\ e.sent = 0 /\ e.read = 0
    BY DEF ClientFields
  <2>2. <<>> \in Seq(Tokens) /\ Len(<<>>) = 0
    OBVIOUS
  <2>3. client = [p \in Clients |-> e]
    BY <1>1
  <2> HIDE DEF e
  <2>4. IsClient(e)
    BY <2>1, <2>2 DEF IsClient
  <2> QED BY <2>3, <2>4 DEF ClientsInv
<1>7. OwnersInv
  BY <1>1, <1>3 DEF OwnersInv
<1>8. FdsInv
  <2>1. Busy = {}
    <3>1. \A c \in Cons : BackendFd(con[c]) = 0
      BY <1>1, <1>4
    <3> QED BY <3>1 DEF Busy
  <2>2. Cardinality(Busy) = 0
    BY <2>1, FS_EmptySet
  <2> QED BY <1>1, <2>2, SizeType DEF FdsInv
<1>9. LoopInv
  <2>1. Cons # {}
    BY FS_EmptySet, SizeType DEF Size
  <2>2. NoRun \in [con : Cons, ret : {"top", "trigger", "fdwaited", "accept", "jobs"}]
        /\ NoRun.ret = "top"
    BY <2>1 DEF NoRun
  <2>3. <<>> \in Seq(Cons) /\ Len(<<>>) = 0
    OBVIOUS
  <2> QED BY <1>1, <2>2, <2>3 DEF LoopInv
<1>10. EventsInv /\ AttendedInv /\ FreshInv
  BY <1>1, <1>3, <1>4 DEF EventsInv, AttendedInv, FreshInv
<1> QED BY <1>2, <1>5, <1>6, <1>7, <1>8, <1>9, <1>10 DEF Inv, Core

(* The invariant holds in every state the server can reach.                  *)
THEOREM Invariance == Spec => []Inv
<1>1. Init => Inv
  BY InitInv
<1>2. Inv /\ [Next]_vars => Inv'
  BY NextStep, Stutter
<1> QED BY <1>1, <1>2, PTL DEF Spec

(* What the invariant says of the array, the peers and the counters.         *)
LEMMA AccountedInv == Inv => DescriptorsAccounted
<1> SUFFICES ASSUME Inv PROVE DescriptorsAccounted
  OBVIOUS
<1>0. Core /\ LoopInv /\ Open \subseteq Cons /\ Size \in Nat
  BY OpenType, SizeType DEF Inv, Core
<1>1. TypeOK
  <2>1. /\ pc \in {"top", "trigger", "sockets", "fdwait", "fdwaited", "poll", "events", "accept",
                   "jobs", "machine", "stopped"}
        /\ run \in [con : Cons, ret : {"top", "trigger", "fdwaited", "accept", "jobs"}]
        /\ listening \in {"polled", "idle", "closed"}
    BY <1>0 DEF LoopInv
  <2>2. used \in 0..MaxConns /\ DOMAIN ptr = 1..Cardinality(Cons)
    BY <1>0 DEF Core, ArrayInv, Size
  <2>3. \A c \in Cons : IsCon(con[c])
    BY <1>0 DEF Core, ConsInv, Good
  <2>4. \A p \in Clients : client[p].read <= client[p].sent
    <3> TAKE p \in Clients
    <3>1. client[p].sent \in 0..Len(client[p].script) /\ client[p].script \in Seq(Tokens)
          /\ client[p].read \in 0..client[p].sent
      BY <1>0 DEF Core, ClientsInv, IsClient
    <3>2. client[p].sent \in Nat
      BY <3>1
    <3> QED BY <3>1, <3>2
  <2> QED BY <2>1, <2>2, <2>3, <2>4 DEF TypeOK, IsCon
<1>2. {ptr[i] : i \in 1..Cardinality(Cons)} = Cons
  BY <1>0 DEF Core, ArrayInv, Size
<1>3. ASSUME NEW p \in Clients
      PROVE  client[p].st = "accepted" <=> Cardinality({c \in Open : con[c].fd = p}) = 1
  <2> DEFINE S == {c \in Open : con[c].fd = p}
  <2>1. IsFiniteSet(S)
    BY <1>0, SizeType, FS_Subset
  <2>2. Cardinality(S) = 1 <=> \E x : S = {x}
    BY <2>1, FS_Singleton
  <2>3. ASSUME client[p].st = "accepted" PROVE \E x : S = {x}
    <3>1. PICK c \in Open : con[c].fd = p
      BY <1>0, <2>3 DEF Core, OwnersInv
    <3>2. \A d \in Open : con[d].fd = p => d = c
      BY <1>0, <3>1 DEF Core, OwnersInv
    <3>3. S = {c}
      BY <3>1, <3>2
    <3> QED BY <3>3
  <2>4. (\E x : S = {x}) => client[p].st = "accepted"
    BY <1>0 DEF Core, OwnersInv
  <2> QED BY <2>2, <2>3, <2>4
<1>4. {c \in Open : con[c].backend \in {"busy", "started"}} = Busy
  <2>1. \A c \in Cons : BackendFd(con[c]) = 1 <=> con[c].backend \in {"busy", "started"}
    BY DEF BackendFd
  <2>2. \A c \in Cons \ Open : con[c].backend = "none"
    BY <1>0 DEF Core, ConsInv, Good, Shape
  <2> QED BY <1>0, <2>1, <2>2 DEF Busy
<1>5. cur_fds = BaseFds + used + Cardinality(Busy)
  BY <1>0 DEF Core, FdsInv
<1>6. want_fds = Len(fdwaitqueue) + (IF run.ret = "fdwaited" \/ pc = "fdwaited" THEN 1 ELSE 0)
  BY <1>0 DEF LoopInv
<1>7. \A c \in Cons \ Open : con[c].st = "CONNECT" /\ con[c].ev = "" /\ con[c].backend = "none"
  BY <1>0 DEF Core, ConsInv, Good, Shape
<1> QED BY <1>1, <1>2, <1>3, <1>4, <1>5, <1>6, <1>7 DEF DescriptorsAccounted

(* At a poll nothing is in hand and nothing waits in the job list.           *)
LEMMA AttendedAtPoll == Inv => NobodyForgotten
<1> SUFFICES ASSUME Inv, pc = "poll", NEW c \in Open
             PROVE  LET k == con[c]
                        backend == k.backend \in {"busy", "started"}
                    IN \/ k.st \in {"READ", "READ_POST", "CLOSE"} /\ k.ev = "in"
                       \/ k.st = "HANDLE_REQUEST"
                          /\ (backend \/ \E i \in DOMAIN fdwaitqueue : fdwaitqueue[i] = c)
                       \/ k.st = "WRITE" /\ (IF k.wq > 0 THEN k.ev = "out" \/ k.paused = "yes" ELSE backend)
                       \/ Stuck(c) /\ fcntl_failures > 0
  BY DEF NobodyForgotten
<1>1. Rests(con[c]) \/ (con[c].st = "HANDLE_REQUEST" /\ c \in Queued(fdwaitqueue))
      \/ (con[c].st = "REQUEST_START" /\ fcntl_failures > 0)
  BY DEF Inv, AttendedInv, Attended, Working
<1>2. c \in Queued(fdwaitqueue) => \E i \in DOMAIN fdwaitqueue : fdwaitqueue[i] = c
  <2>1. fdwaitqueue \in Seq(Cons)
    BY DEF Inv, LoopInv
  <2> QED BY <2>1 DEF Queued
<1>3. con[c].st = "REQUEST_START" => Stuck(c)
  BY DEF Stuck
<1> QED BY <1>1, <1>2, <1>3 DEF Rests

(* At a poll no answer waits for its first write.                            *)
LEMMA FreshAtPoll == Inv => WriteTimerFresh
<1> SUFFICES ASSUME Inv, pc = "poll", NEW c \in Open, con[c].st = "WRITE"
             PROVE  con[c].write_ts \in 1..(con[c].since + 1)
  BY DEF WriteTimerFresh
<1>1. c \in Cons
  BY OpenType DEF Inv, Core
<1> QED BY <1>1 DEF Inv, FreshInv, Fresh

(* Descriptors and connections are accounted for through every accept,       *)
(* close, swap, abort and retry, whatever the limits and however many peers. *)
THEOREM Accounted == Spec => []DescriptorsAccounted
BY Invariance, AccountedInv, PTL

(* Whenever the server goes to sleep, something will wake every connection.  *)
THEOREM NobodyIsForgotten == Spec => []NobodyForgotten
BY Invariance, AttendedAtPoll, PTL

(* No answer is cut off by the time stamp of an earlier one.                 *)
THEOREM TimersAreFresh == Spec => []WriteTimerFresh
BY Invariance, FreshAtPoll, PTL
-----------------------------------------------------------------------------
(* Answers in order.  On top of Inv: the read queue of a connection is the   *)
(* end of what was read of its peer's script, and before the queue the       *)
(* script has as many requests as the connection counted.                    *)

Serving == {"HANDLE_REQUEST", "RESPONSE_START", "WRITE"}
Asking  == {"REQUEST_START", "READ", "REQUEST_END", "READ_POST", "RESPONSE_END"}

(* A body follows a POST, and only it.                                       *)
Bodies(s) == \A i \in 1..Len(s) : s[i] = "body" <=> i > 1 /\ s[i - 1] = "post"

(* After the first n tokens of a script a request begins, if any follows.    *)
AtRequest(s, n) == n < Len(s) => s[n + 1] # "body"

(* How much of its peer's script a connection is done with, without what is  *)
(* in its queue; the queue holds what was read after that.                   *)
Position(k, p) == p.read - Len(k.rq)
InQueue(k, p) ==
  /\ k.rq \in Seq(Tokens) /\ Len(k.rq) <= p.read
  /\ \A i \in 1..Len(k.rq) : k.rq[i] = p.script[Position(k, p) + i]

(* What follows is a request, the (n+1)st.                                   *)
NextRequest(k, p, n) == /\ InQueue(k, p)
                        /\ Requests(p.script, Position(k, p)) = n
                        /\ AtRequest(p.script, Position(k, p))

(* A request that was read: the connection is kept only if the next one can  *)
(* be found.                                                                 *)
Served(k, p) ==
  /\ InQueue(k, p) /\ p.answers + 1 = k.count
  /\ k.req = "none" => ~k.keep_alive
  /\ k.req # "none" => IsRequest(p.script, k.count, k.req)
  /\ k.keep_alive => NextRequest(k, p, k.count)

(* The request at hand is the last one before the queue.                     *)
Parsing(k, p) ==
  /\ InQueue(k, p) /\ p.answers + 1 = k.count
  /\ Position(k, p) \in 1..Len(p.script) /\ p.script[Position(k, p)] = k.req
  /\ k.req # "body" /\ Requests(p.script, Position(k, p)) = k.count

(* A connection k in use against its peer p.                                 *)
Track(k, p) ==
  /\ k.rq \in Seq(Tokens) /\ k.count \in Nat /\ p.answers \in Nat
  /\ k.st \in Asking => k.backend # "busy"
  /\ k.st = "REQUEST_START" => p.answers = k.count /\ NextRequest(k, p, k.count) /\ k.req = "none"
  /\ k.st = "READ" => p.answers + 1 = k.count /\ NextRequest(k, p, p.answers) /\ k.req = "none"
  /\ k.st \in {"REQUEST_END", "READ_POST"} => Parsing(k, p)
  /\ k.st = "READ_POST" => k.req = "post"
  /\ k.st \in Serving \/ k.backend = "busy" => Served(k, p)
  /\ k.st = "RESPONSE_END" => p.answers = k.count /\ (k.keep_alive => NextRequest(k, p, k.count))

Cleared(k) == k.rq = <<>> /\ k.count = 0

TrackInv == \A c \in Open : Track(con[c], client[con[c].fd])
ClearedInv == \A c \in Cons \ Open : Cleared(con[c]) \/ (pc = "machine" /\ run.con = c)
ScriptsInv ==
  \A p \in Clients : /\ Bodies(client[p].script)
                     /\ client[p].st \in {"away", "connecting"} =>
                          client[p].answers = 0 /\ client[p].read = 0
AnsweredInv == \A c \in Cons : <<"con", c>> \in events => con[c].st # "RESPONSE_END"

OrderInv == TrackInv /\ ClearedInv /\ ScriptsInv /\ AnsweredInv

-----------------------------------------------------------------------------
(* Counting requests.                                                        *)

(* No token, no request.                                                     *)
LEMMA NoRequests == ASSUME NEW s PROVE Requests(s, 0) = 0
<1>1. {i \in 1..0 : s[i] # "body"} = {}
  OBVIOUS
<1> QED BY <1>1, FS_EmptySet DEF Requests

(* One token more.                                                           *)
LEMMA OneRequest ==
  ASSUME NEW s, NEW n \in Nat
  PROVE  /\ Requests(s, n) \in Nat
         /\ Requests(s, n + 1) = Requests(s, n) + (IF s[n + 1] # "body" THEN 1 ELSE 0)
<1> DEFINE S == {i \in 1..n : s[i] # "body"}
           T == {i \in 1..n + 1 : s[i] # "body"}
<1>1. IsFiniteSet(1..n)
  BY FS_Interval
<1>2. IsFiniteSet(S) /\ Cardinality(S) \in Nat
  BY <1>1, FS_Subset, FS_CardinalityType
<1>3. 1..n + 1 = 1..n \cup {n + 1} /\ n + 1 \notin 1..n
  OBVIOUS
<1>4. CASE s[n + 1] # "body"
  <2>1. T = S \cup {n + 1} /\ n + 1 \notin S
    BY <1>3, <1>4
  <2>2. Cardinality(T) = Cardinality(S) + 1
    BY <1>2, <2>1, FS_AddElement
  <2> QED BY <1>2, <1>4, <2>2 DEF Requests
<1>5. CASE s[n + 1] = "body"
  <2>1. T = S
    BY <1>3, <1>5
  <2>2. Cardinality(T) = Cardinality(S) + 0
    BY <1>2, <2>1
  <2> QED BY <1>2, <1>5, <2>2 DEF Requests
<1> QED BY <1>4, <1>5

-----------------------------------------------------------------------------
(* Steps on one connection.                                                  *)

(* What a step that neither reads, parses nor ends an answer leaves.         *)
Carries(k, q) ==
  /\ q.rq = k.rq /\ q.count = k.count /\ q.req = k.req
  /\ q.keep_alive => k.keep_alive
  /\ q.backend = "busy" => k.backend = "busy" \/ k.st \in Serving
  /\ \/ q.st = k.st
     \/ q.st \in Serving /\ (k.st \in Serving \/ k.backend = "busy")
     \/ q.st = "ERROR"

SamePeer(p, o) == o.script = p.script /\ o.read = p.read /\ o.answers = p.answers

(* What InQueue and NextRequest read of a connection and its peer.           *)
LEMMA QueueKept ==
  ASSUME NEW k, NEW p, NEW q, NEW o, q.rq = k.rq, o.script = p.script, o.read = p.read
  PROVE  /\ Position(q, o) = Position(k, p) /\ (InQueue(q, o) <=> InQueue(k, p))
         /\ \A n : NextRequest(q, o, n) <=> NextRequest(k, p, n)
<1>1. Position(q, o) = Position(k, p)
  BY DEF Position
<1>2. InQueue(q, o) <=> InQueue(k, p)
  BY <1>1 DEF InQueue
<1> QED BY <1>1, <1>2 DEF NextRequest

(* What Served reads; keep_alive may be given up.                            *)
LEMMA ServedKept ==
  ASSUME NEW k, NEW p, NEW q, NEW o, Served(k, p), SamePeer(p, o),
         q.rq = k.rq, q.count = k.count, q.req = k.req, q.keep_alive => k.keep_alive
  PROVE  Served(q, o)
<1>1. /\ InQueue(q, o) <=> InQueue(k, p)
      /\ NextRequest(q, o, k.count) <=> NextRequest(k, p, k.count)
  BY QueueKept DEF SamePeer
<1> QED BY <1>1 DEF Served, SamePeer

(* A connection that is carried on, with the same peer, keeps track of it.   *)
LEMMA TrackKept ==
  ASSUME NEW k, NEW p, NEW q, NEW o, Track(k, p), Carries(k, q), SamePeer(p, o)
  PROVE  Track(q, o)
<1>1. /\ Position(q, o) = Position(k, p) /\ (InQueue(q, o) <=> InQueue(k, p))
      /\ NextRequest(q, o, k.count) <=> NextRequest(k, p, k.count)
      /\ NextRequest(q, o, p.answers) <=> NextRequest(k, p, p.answers)
  BY QueueKept DEF SamePeer, Carries
<1>2. q.rq \in Seq(Tokens) /\ q.count \in Nat /\ o.answers \in Nat
  BY DEF Track, Carries, SamePeer
<1>3. q.st \in Asking => q.st = k.st /\ q.backend # "busy"
  BY DEF Track, Carries, Asking, Serving
<1>4. q.st \in Serving \/ q.backend = "busy" => Served(q, o)
  <2> SUFFICES ASSUME q.st \in Serving \/ q.backend = "busy" PROVE Served(q, o)
    OBVIOUS
  <2>1. k.st \in Serving \/ k.backend = "busy"
    BY DEF Carries, Serving
  <2>2. Served(k, p)
    BY <2>1 DEF Track
  <2> QED BY <2>2, ServedKept DEF Carries
<1>5. q.st = "REQUEST_START" => o.answers = q.count /\ NextRequest(q, o, q.count) /\ q.req = "none"
  BY <1>1, <1>3 DEF Track, Carries, SamePeer, Asking
<1>6. q.st = "READ" => o.answers + 1 = q.count /\ NextRequest(q, o, o.answers) /\ q.req = "none"
  BY <1>1, <1>3 DEF Track, Carries, SamePeer, Asking
<1>7. q.st \in {"REQUEST_END", "READ_POST"} => Parsing(q, o) /\ (q.st = "READ_POST" => q.req = "post")
  <2> SUFFICES ASSUME q.st \in {"REQUEST_END", "READ_POST"}
               PROVE  Parsing(q, o) /\ (q.st = "READ_POST" => q.req = "post")
    OBVIOUS
  <2>1. q.st = k.st
    BY <1>3 DEF Asking
  <2>2. Parsing(k, p) /\ (q.st = "READ_POST" => q.req = "post")
    BY <2>1 DEF Track, Carries
  <2> QED BY <1>1, <2>2 DEF Parsing, Carries, SamePeer
<1>8. q.st = "RESPONSE_END" => o.answers = q.count /\ (q.keep_alive => NextRequest(q, o, q.count))
  BY <1>1, <1>3 DEF Track, Carries, SamePeer, Asking
<1> QED BY <1>2, <1>3, <1>4, <1>5, <1>6, <1>7, <1>8 DEF Track

(* A connection whose requests no longer matter.                             *)
LEMMA TrackIdle ==
  ASSUME NEW q, NEW o, q.rq \in Seq(Tokens), q.count \in Nat, o.answers \in Nat,
         q.st \in {"ERROR", "CLOSE", "CONNECT"}, q.backend # "busy"
  PROVE  Track(q, o)
BY DEF Track, Asking, Serving

(* The next token is taken from the queue.                                   *)
LEMMA TakeOne ==
  ASSUME NEW k, NEW p, NEW q, IsClient(p), InQueue(k, p), k.rq # <<>>, q.rq = Tail(k.rq)
  PROVE  LET n == Position(k, p) IN
         /\ n \in Nat /\ n + 1 \in 1..Len(p.script) /\ n < Len(p.script)
         /\ Position(q, p) = n + 1
         /\ InQueue(q, p) /\ p.script[n + 1] = Head(k.rq)
<1> DEFINE n == Position(k, p)
<1>1. /\ k.rq \in Seq(Tokens) /\ Len(k.rq) \in Nat /\ Len(k.rq) # 0 /\ Len(k.rq) <= p.read
      /\ p.read \in Nat /\ p.sent \in Nat /\ p.read <= p.sent /\ p.sent <= Len(p.script)
      /\ Len(p.script) \in Nat
  BY DEF InQueue, IsClient
<1>2. n = p.read - Len(k.rq)
  BY DEF Position
<1>3. Tail(k.rq) \in Seq(Tokens) /\ Len(Tail(k.rq)) = Len(k.rq) - 1 /\ Head(k.rq) = k.rq[1]
      /\ \A i \in 1..Len(Tail(k.rq)) : Tail(k.rq)[i] = k.rq[i + 1]
  BY <1>1
<1>4. Position(q, p) = p.read - (Len(k.rq) - 1)
  BY <1>3 DEF Position
<1>5. \A i \in 1..Len(k.rq) : k.rq[i] = p.script[n + i]
  BY DEF InQueue
<1> HIDE DEF n
<1>6. n \in Nat /\ n + 1 \in 1..Len(p.script) /\ n < Len(p.script) /\ Position(q, p) = n + 1
  <2> DEFINE r == Len(k.rq)
             m == p.read
             e == p.sent
             l == Len(p.script)
  <2>1. r \in Nat /\ r # 0 /\ m \in Nat /\ e \in Nat /\ l \in Nat /\ r <= m /\ m <= e /\ e <= l
    BY <1>1
  <2>2. n = m - r /\ Position(q, p) = m - (r - 1)
    BY <1>2, <1>4
  <2> HIDE DEF r, m, e, l
  <2>3. n \in Nat /\ n + 1 \in 1..l /\ n < l /\ Position(q, p) = n + 1
    BY <2>1, <2>2
  <2> QED BY <2>3 DEF l
<1>7. p.script[n + 1] = Head(k.rq)
  BY <1>1, <1>3, <1>5
<1>8. ASSUME NEW i \in 1..Len(q.rq) PROVE q.rq[i] = p.script[Position(q, p) + i]
  <2>1. i + 1 \in 1..Len(k.rq) /\ q.rq[i] = k.rq[i + 1]
    BY <1>1, <1>3
  <2>2. k.rq[i + 1] = p.script[n + (i + 1)]
    BY <1>5, <2>1
  <2>3. n + (i + 1) = (n + 1) + i
    BY <1>6
  <2> QED BY <1>6, <2>1, <2>2, <2>3
<1>9. Len(q.rq) <= p.read
  BY <1>1, <1>3
<1> QED BY <1>3, <1>6, <1>7, <1>8, <1>9 DEF n, InQueue

(* q and o are the connection and the peer after n tokens were read.         *)
Fetched(k, p, q, o, n) ==
  LET d == SubSeq(p.script, p.read + 1, p.sent) IN
  /\ n \in 1..Len(d) /\ q.rq = k.rq \o SubSeq(d, 1, n)
  /\ o.script = p.script /\ o.read = p.read + n

(* Tokens that arrive go to the end of the queue.                            *)
LEMMA ReadMore ==
  ASSUME NEW k, NEW p, NEW q, NEW o, NEW n, IsClient(p), InQueue(k, p), Fetched(k, p, q, o, n)
  PROVE  InQueue(q, o) /\ Position(q, o) = Position(k, p)
<1> DEFINE s == p.script
           m == p.read
           d == SubSeq(s, m + 1, p.sent)
           t == SubSeq(d, 1, n)
<1>0. n \in 1..Len(d) /\ q.rq = k.rq \o t /\ o.script = s /\ o.read = m + n
  BY DEF Fetched
<1>1. d \in Seq(Tokens) /\ Len(d) = p.sent - m /\ m \in Nat /\ p.sent \in Nat
  <2> DEFINE e == p.sent
  <2>1. s \in Seq(Tokens) /\ e \in 0..Len(s) /\ m \in 0..e /\ Len(s) \in Nat
        /\ d = SubSeq(s, m + 1, e)
    BY DEF IsClient
  <2> HIDE DEF d
  <2> HIDE DEF s, m, e
  <2>2. m + 1 \in 1..Len(s) + 1 /\ e \in m + 1 - 1..Len(s)
    BY <2>1
  <2>3. d \in Seq(Tokens) /\ Len(d) = e - (m + 1) + 1
    BY <2>1, <2>2, SubSeqProperties
  <2>4. e \in Nat /\ m \in Nat /\ e - (m + 1) + 1 = e - m
    BY <2>1
  <2> QED BY <2>3, <2>4 DEF e
<1>2. s \in Seq(Tokens) /\ p.sent \in 0..Len(s)
  BY DEF IsClient
<1>3. n \in 1..Len(d) /\ Len(d) \in Nat /\ n \in Nat
  BY <1>0, <1>1
<1>4. \A i \in 1..Len(d) : d[i] = s[m + i]
  <2>1. d = SubSeq(s, m + 1, p.sent)
    OBVIOUS
  <2> HIDE DEF d, s, m
  <2> DEFINE e == p.sent
  <2>2. d = SubSeq(s, m + 1, e) /\ e \in 0..Len(s) /\ e \in Nat /\ Len(d) = e - m /\ Len(s) \in Nat
    BY <1>1, <1>2, <2>1
  <2> HIDE DEF e
  <2>3. ASSUME NEW i \in 1..Len(d) PROVE d[i] = s[m + i]
    <3>1. i \in Nat /\ i >= 1 /\ i <= e - m
      BY <1>1, <2>2
    <3>2. i \in 1..(e - (m + 1) + 1) /\ (m + 1) + i - 1 = m + i
      BY <1>1, <2>2, <3>1
    <3>3. m + 1 \in 1..Len(s) + 1 /\ e \in (m + 1) - 1..Len(s)
      BY <1>1, <2>2, <3>1
    <3>4. \A j \in 1..(e - (m + 1) + 1) : SubSeq(s, m + 1, e)[j] = s[(m + 1) + j - 1]
      BY <1>2, <3>3, SubSeqProperties
    <3> QED BY <2>2, <3>2, <3>4
  <2> QED BY <2>3
<1> HIDE DEF d, s, m
<1>5. t \in Seq(Tokens) /\ Len(t) = n /\ \A i \in 1..n : t[i] = d[i]
  BY <1>1, <1>3
<1>6. k.rq \in Seq(Tokens) /\ Len(k.rq) \in Nat /\ Len(k.rq) <= m
      /\ \A i \in 1..Len(k.rq) : k.rq[i] = s[m - Len(k.rq) + i]
  BY DEF InQueue, Position, m, s
<1>7. q.rq = k.rq \o t
  BY <1>0
<1> HIDE DEF t
<1>8. q.rq \in Seq(Tokens) /\ Len(q.rq) = Len(k.rq) + n
      /\ \A i \in 1..Len(k.rq) + n : q.rq[i] = IF i <= Len(k.rq) THEN k.rq[i] ELSE t[i - Len(k.rq)]
  <2> DEFINE r == k.rq
  <2>1. r \in Seq(Tokens) /\ q.rq = r \o t
    BY <1>6, <1>7
  <2> HIDE DEF r
  <2>2. r \o t \in Seq(Tokens) /\ Len(r \o t) = Len(r) + n
        /\ \A i \in 1..Len(r) + n : (r \o t)[i] = IF i <= Len(r) THEN r[i] ELSE t[i - Len(r)]
    BY <1>5, <2>1, ConcatProperties
  <2> QED BY <2>1, <2>2 DEF r
<1>9. o.read = m + n /\ o.script = s
  BY <1>0
<1>10. Position(q, o) = m - Len(k.rq)
  BY <1>1, <1>3, <1>6, <1>8, <1>9 DEF Position
<1>11. ASSUME NEW i \in 1..Len(q.rq) PROVE q.rq[i] = s[m - Len(k.rq) + i]
  <2>1. CASE i <= Len(k.rq)
    BY <1>6, <1>8, <2>1
  <2>2. CASE ~(i <= Len(k.rq))
    <3>1. i - Len(k.rq) \in 1..n
      BY <1>3, <1>6, <1>8, <2>2
    <3>2. q.rq[i] = t[i - Len(k.rq)] /\ t[i - Len(k.rq)] = d[i - Len(k.rq)]
      BY <1>5, <1>8, <2>2, <3>1
    <3>3. i - Len(k.rq) \in 1..Len(d)
      BY <1>3, <3>1
    <3>4. d[i - Len(k.rq)] = s[m + (i - Len(k.rq))]
      BY <1>4, <3>3
    <3>5. m + (i - Len(k.rq)) = m - Len(k.rq) + i
      BY <1>1, <1>6, <1>8
    <3> QED BY <3>2, <3>4, <3>5
  <2> QED BY <2>1, <2>2
<1>12. Len(q.rq) <= o.read
  BY <1>1, <1>3, <1>6, <1>8, <1>9
<1> QED BY <1>8, <1>9, <1>10, <1>11, <1>12 DEF InQueue, Position, m, s

(* A read that takes n tokens.                                               *)
LEMMA TrackMore ==
  ASSUME NEW k, NEW p, NEW q, NEW o, Track(k, p), k.st \in {"READ", "READ_POST"},
         InQueue(q, o), Position(q, o) = Position(k, p),
         q.st = k.st, q.count = k.count, q.req = k.req, q.backend = k.backend,
         o.script = p.script, o.answers = p.answers
  PROVE  Track(q, o)
<1>1. q.rq \in Seq(Tokens) /\ q.count \in Nat /\ o.answers \in Nat
  BY DEF InQueue, Track
<1>2. k.backend # "busy" /\ k.st \notin Serving /\ k.st \notin {"REQUEST_START", "REQUEST_END", "RESPONSE_END"}
  BY DEF Track, Asking, Serving
<1>3. CASE k.st = "READ"
  <2>1. NextRequest(q, o, o.answers) /\ o.answers + 1 = q.count /\ q.req = "none"
    BY <1>3 DEF Track, NextRequest
  <2> QED BY <1>1, <1>2, <1>3, <2>1 DEF Track
<1>4. CASE k.st = "READ_POST"
  <2>1. Parsing(q, o) /\ q.req = "post"
    BY <1>4 DEF Track, Parsing
  <2> QED BY <1>1, <1>2, <1>4, <2>1 DEF Track
<1> QED BY <1>3, <1>4

(* One read, whatever it finds.                                              *)
LEMMA RawOrder ==
  ASSUME NEW k, IsCon(k), k.fd \in Clients, IsClient(client[k.fd]), Track(k, client[k.fd]),
         k.st \in {"READ", "READ_POST"}, NEW r \in connection_handle_read(k),
         NEW o, o.script = client[k.fd].script, o.read = client[k.fd].read + r.taken,
         o.answers = client[k.fd].answers
  PROVE  Track(r.k, o) /\ IsCon(r.k) /\ r.k.st \in {k.st, "ERROR"}
<1> DEFINE p == client[k.fd]
           dry == [k EXCEPT !.age = 0, !.rd = FALSE]
           end == [k EXCEPT !.age = 0, !.rd = FALSE, !.st = "ERROR"]
           data == Unread(k.fd)
           more(n) == [k EXCEPT !.age = 0, !.rd = (n < Len(data)), !.rq = @ \o SubSeq(data, 1, n)]
<1>0. p.read \in Nat /\ 0 \in 0..Expired
  BY Numbers DEF IsClient
<1>1. CASE r = [k |-> end, taken |-> 0, closed |-> FALSE]
  <2>1. r.k = end /\ r.taken = 0
    BY <1>1
  <2>2. Carries(k, end) /\ end.st = "ERROR"
    BY DEF IsCon, ConFields, Carries
  <2>4. end.age = 0 /\ DOMAIN end = ConFields /\ end.fd = k.fd /\ end.mode = k.mode /\ end.backend = k.backend
        /\ end.ev = k.ev /\ end.wq = k.wq /\ end.since = k.since /\ end.write_ts = k.write_ts
    BY DEF IsCon, ConFields
  <2> HIDE DEF end
  <2>5. IsCon(end)
    BY <1>0, <2>2, <2>4 DEF IsCon, States
  <2>3. SamePeer(p, o)
    BY <1>0, <2>1 DEF SamePeer
  <2> QED BY <2>1, <2>2, <2>3, <2>5, TrackKept
<1>2. CASE \E b : r = [k |-> dry, taken |-> 0, closed |-> b]
  <2>1. r.k = dry /\ r.taken = 0
    BY <1>2
  <2>2. Carries(k, dry) /\ dry.st = k.st
    BY DEF IsCon, ConFields, Carries
  <2>4. dry.age = 0 /\ DOMAIN dry = ConFields /\ dry.fd = k.fd /\ dry.mode = k.mode /\ dry.backend = k.backend
        /\ dry.ev = k.ev /\ dry.wq = k.wq /\ dry.since = k.since /\ dry.write_ts = k.write_ts
    BY DEF IsCon, ConFields
  <2> HIDE DEF dry
  <2>5. IsCon(dry)
    BY <1>0, <2>2, <2>4 DEF IsCon
  <2>3. SamePeer(p, o)
    BY <1>0, <2>1 DEF SamePeer
  <2> QED BY <2>1, <2>2, <2>3, <2>5, TrackKept
<1>3. CASE \E n \in 1..Len(data) : r = [k |-> more(n), taken |-> n, closed |-> FALSE]
  <2>1. PICK n \in 1..Len(data) : r = [k |-> more(n), taken |-> n, closed |-> FALSE]
    BY <1>3
  <2> DEFINE q == more(n)
  <2>2. r.k = q /\ r.taken = n
    BY <2>1
  <2>3. q.rq = k.rq \o SubSeq(data, 1, n)
    BY DEF IsCon, ConFields
  <2>4. q.age = 0 /\ DOMAIN q = ConFields /\ q.fd = k.fd /\ q.mode = k.mode /\ q.backend = k.backend
        /\ q.ev = k.ev /\ q.wq = k.wq /\ q.since = k.since /\ q.write_ts = k.write_ts
        /\ q.st = k.st /\ q.count = k.count /\ q.req = k.req
    BY DEF IsCon, ConFields
  <2> HIDE DEF more
  <2> HIDE DEF q
  <2>5. IsCon(q)
    BY <1>0, <2>4 DEF IsCon
  <2>6. InQueue(k, p)
    BY DEF Track, NextRequest, Parsing
  <2>7. InQueue(q, o) /\ Position(q, o) = Position(k, p)
    <3>1. o.read = p.read + n /\ n \in 1..Len(data) /\ o.script = p.script /\ IsClient(p)
      BY <2>2
    <3>2. data = SubSeq(p.script, p.read + 1, p.sent)
      BY DEF Unread
    <3> HIDE DEF data, p
    <3>3. Fetched(k, p, q, o, n)
      BY <2>3, <3>1, <3>2 DEF Fetched
    <3> QED BY <2>6, <3>1, <3>3, ReadMore
  <2>8. Track(q, o)
    BY <2>4, <2>7, TrackMore
  <2> QED BY <2>2, <2>4, <2>5, <2>8
<1> QED
  <2> DEFINE f == [k EXCEPT !.age = 0]
             d == [f EXCEPT !.rd = FALSE]
  <2>1. CASE client[k.fd].fin = "reset"
    <3>1. r = [k |-> [d EXCEPT !.st = "ERROR"], taken |-> 0, closed |-> FALSE]
      BY <2>1 DEF connection_handle_read
    <3>2. [d EXCEPT !.st = "ERROR"] = end
      OBVIOUS
    <3> QED BY <1>1, <3>1, <3>2
  <2>2. CASE client[k.fd].fin # "reset" /\ data = <<>>
    <3>1. r = [k |-> d, taken |-> 0, closed |-> client[k.fd].fin = "eof"]
      BY <2>2 DEF connection_handle_read
    <3>2. d = dry
      OBVIOUS
    <3> QED BY <1>2, <3>1, <3>2
  <2>3. CASE client[k.fd].fin # "reset" /\ data # <<>>
    <3>1. PICK n \in 1..Len(data) :
            r = [k |-> [f EXCEPT !.rd = (n < Len(data)), !.rq = @ \o SubSeq(data, 1, n)],
                 taken |-> n, closed |-> FALSE]
      BY <2>3 DEF connection_handle_read
    <3>2. [f EXCEPT !.rd = (n < Len(data)), !.rq = @ \o SubSeq(data, 1, n)] = more(n)
      BY DEF IsCon, ConFields
    <3> QED BY <1>3, <3>1, <3>2
  <2> QED BY <2>1, <2>2, <2>3

(* The header is taken from the queue: the request before the position.      *)
LEMMA HeaderOrder ==
  ASSUME NEW k, IsCon(k), NEW p, IsClient(p), Track(k, p), k.st = "READ", NEW q \in TakeHeader(k)
  PROVE  Track(q, p)
<1>0. /\ k.rq \in Seq(Tokens) /\ k.count \in Nat /\ p.answers \in Nat /\ k.backend # "busy"
      /\ p.answers + 1 = k.count /\ k.req = "none" /\ InQueue(k, p)
      /\ Requests(p.script, Position(k, p)) = p.answers /\ AtRequest(p.script, Position(k, p))
  BY DEF Track, Asking, NextRequest
<1>1. CASE k.rq = <<>>
  BY <1>1 DEF TakeHeader
<1>2. CASE k.rq # <<>> /\ q = [k EXCEPT !.status = "error", !.keep_alive = FALSE, !.st = "HANDLE_REQUEST"]
  <2>1. /\ q.rq = k.rq /\ q.count = k.count /\ q.req = k.req /\ q.backend = k.backend
        /\ q.st = "HANDLE_REQUEST" /\ ~q.keep_alive
    BY <1>2 DEF IsCon, ConFields
  <2>2. InQueue(q, p)
    BY <1>0, <2>1, QueueKept
  <2>3. Served(q, p)
    BY <1>0, <2>1, <2>2 DEF Served
  <2> QED BY <1>0, <2>1, <2>3 DEF Track, Asking, Serving
<1>3. CASE k.rq # <<>> /\ q = [k EXCEPT !.req = Head(k.rq), !.rq = Tail(@), !.st = "REQUEST_END"]
  <2>1. /\ q.rq = Tail(k.rq) /\ q.count = k.count /\ q.req = Head(k.rq) /\ q.backend = k.backend
        /\ q.st = "REQUEST_END"
    BY <1>3 DEF IsCon, ConFields
  <2> DEFINE n == Position(k, p)
  <2>2. /\ n \in Nat /\ n + 1 \in 1..Len(p.script) /\ n < Len(p.script)
        /\ Position(q, p) = n + 1 /\ InQueue(q, p) /\ p.script[n + 1] = Head(k.rq)
    <3>1. k.rq # <<>> /\ q.rq = Tail(k.rq) /\ InQueue(k, p)
      BY <1>0, <1>3, <2>1
    <3> QED BY <3>1, TakeOne
  <2> HIDE DEF n
  <2>3. p.script[n + 1] # "body"
    BY <1>0, <2>2 DEF AtRequest, n
  <2>4. Requests(p.script, n + 1) = p.answers + 1
    BY <1>0, <2>2, <2>3, OneRequest DEF n
  <2>5. Parsing(q, p)
    BY <1>0, <2>1, <2>2, <2>3, <2>4 DEF Parsing
  <2>6. q.rq \in Seq(Tokens)
    BY <2>2 DEF InQueue
  <2> QED BY <1>0, <2>1, <2>5, <2>6 DEF Track, Serving
<1> QED BY <1>1, <1>2, <1>3 DEF TakeHeader

(* Where the request at hand begins, and what may follow it.                 *)
LEMMA AfterRequest ==
  ASSUME NEW k, NEW p, IsClient(p), Bodies(p.script), Parsing(k, p)
  PROVE  LET n == Position(k, p) IN
         /\ n \in Nat /\ k.req # "none"
         /\ IsRequest(p.script, k.count, k.req)
         /\ k.req # "post" => AtRequest(p.script, n)
         /\ k.req = "post" /\ n < Len(p.script) => /\ Requests(p.script, n + 1) = k.count
                                                   /\ AtRequest(p.script, n + 1)
<1> DEFINE n == Position(k, p)
           s == p.script
<1>1. /\ n \in 1..Len(s) /\ s[n] = k.req /\ k.req # "body" /\ Requests(s, n) = k.count
  BY DEF Parsing
<1>2. s \in Seq(Tokens) /\ Len(s) \in Nat
  BY DEF IsClient
<1>3. \A i \in 1..Len(s) : s[i] = "body" <=> i > 1 /\ s[i - 1] = "post"
  BY DEF Bodies
<1> HIDE DEF n, s
<1>4. n \in Nat /\ n > 0
  BY <1>1, <1>2
<1>5. k.req # "none"
  <2>1. s[n] \in Tokens
    BY <1>1, <1>2
  <2> QED BY <1>1, <2>1 DEF Tokens
<1>6. IsRequest(s, k.count, k.req)
  BY <1>1 DEF IsRequest
<1>7. ASSUME n < Len(s) PROVE n + 1 \in 1..Len(s) /\ (s[n + 1] = "body" <=> s[n] = "post")
  <2>1. n + 1 \in 1..Len(s) /\ n + 1 > 1 /\ (n + 1) - 1 = n
    BY <1>2, <1>4, <1>7
  <2>2. s[n + 1] = "body" <=> s[(n + 1) - 1] = "post"
    BY <1>3, <2>1
  <2> QED BY <2>1, <2>2
<1>8. k.req # "post" => AtRequest(s, n)
  BY <1>1, <1>7 DEF AtRequest
<1>9. ASSUME k.req = "post", n < Len(s)
      PROVE  Requests(s, n + 1) = k.count /\ AtRequest(s, n + 1)
  <2>1. s[n + 1] = "body" /\ n + 1 \in Nat
    BY <1>1, <1>4, <1>7, <1>9
  <2>2. Requests(s, n + 1) = Requests(s, n) + 0 /\ Requests(s, n) \in Nat
    BY <1>4, <2>1, OneRequest
  <2>3. Requests(s, n + 1) = k.count
    BY <1>1, <2>2
  <2>4. ASSUME n + 1 < Len(s) PROVE s[(n + 1) + 1] # "body"
    <3>1. (n + 1) + 1 \in 1..Len(s) /\ ((n + 1) + 1) - 1 = n + 1
      BY <1>2, <1>4, <2>4
    <3>2. s[(n + 1) + 1] = "body" => s[n + 1] = "post"
      BY <1>3, <3>1
    <3> QED BY <2>1, <3>2
  <2> QED BY <2>3, <2>4 DEF AtRequest
<1> QED BY <1>4, <1>5, <1>6, <1>8, <1>9 DEF n, s

(* The body is taken from the queue, or cannot be kept.                      *)
LEMMA BodyOrder ==
  ASSUME NEW k, IsCon(k), NEW p, IsClient(p), Bodies(p.script), Track(k, p), k.st = "READ_POST",
         NEW q \in TakeBody(k)
  PROVE  Track(q, p)
<1>0. /\ k.rq \in Seq(Tokens) /\ k.count \in Nat /\ p.answers \in Nat /\ k.backend # "busy"
      /\ p.answers + 1 = k.count /\ k.req = "post" /\ InQueue(k, p) /\ Parsing(k, p)
  BY DEF Track, Asking, Parsing
<1>1. CASE k.rq = <<>>
  BY <1>1 DEF TakeBody
<1>2. CASE k.rq # <<>> /\ q = [k EXCEPT !.rq = Tail(@), !.st = "HANDLE_REQUEST"]
  <2>1. /\ q.rq = Tail(k.rq) /\ q.count = k.count /\ q.req = k.req /\ q.backend = k.backend
        /\ q.st = "HANDLE_REQUEST"
    BY <1>2 DEF IsCon, ConFields
  <2> DEFINE n == Position(k, p)
  <2>2. /\ n < Len(p.script) /\ Position(q, p) = n + 1 /\ InQueue(q, p)
    <3>1. k.rq # <<>> /\ q.rq = Tail(k.rq) /\ InQueue(k, p)
      BY <1>0, <1>2, <2>1
    <3> QED BY <3>1, TakeOne
  <2>3. /\ IsRequest(p.script, k.count, k.req)
        /\ Requests(p.script, n + 1) = k.count /\ AtRequest(p.script, n + 1)
    BY <1>0, <2>2, AfterRequest
  <2> HIDE DEF n
  <2>4. NextRequest(q, p, q.count)
    BY <2>1, <2>2, <2>3 DEF NextRequest
  <2>5. Served(q, p)
    BY <1>0, <2>1, <2>2, <2>3, <2>4 DEF Served
  <2>6. q.rq \in Seq(Tokens)
    BY <2>2 DEF InQueue
  <2> QED BY <1>0, <2>1, <2>5, <2>6 DEF Track, Asking
<1>3. CASE k.rq # <<>> /\ q = [k EXCEPT !.status = "error", !.keep_alive = FALSE, !.st = "HANDLE_REQUEST"]
  <2>1. /\ q.rq = k.rq /\ q.count = k.count /\ q.req = k.req /\ q.backend = k.backend
        /\ q.st = "HANDLE_REQUEST" /\ ~q.keep_alive
    BY <1>3 DEF IsCon, ConFields
  <2>2. InQueue(q, p)
    BY <1>0, <2>1, QueueKept
  <2>3. IsRequest(p.script, k.count, k.req)
    BY <1>0, AfterRequest
  <2>4. Served(q, p)
    BY <1>0, <2>1, <2>2, <2>3 DEF Served
  <2> QED BY <1>0, <2>1, <2>4 DEF Track, Asking
<1> QED BY <1>1, <1>2, <1>3 DEF TakeBody

(* A whole read keeps the order.                                             *)
LEMMA ReadOrder ==
  ASSUME NEW k, Good(k), k.fd \in Clients, IsClient(client[k.fd]), Track(k, client[k.fd]),
         Bodies(client[k.fd].script),
         k.st \in {"READ", "READ_POST"}, NEW r \in connection_handle_read_state(k),
         NEW o, IsClient(o), o.script = client[k.fd].script, o.read = client[k.fd].read + r.taken,
         o.answers = client[k.fd].answers
  PROVE  Track(r.k, o)
<1> DEFINE p == client[k.fd]
           reads == IF k.rd THEN connection_handle_read(k)
                            ELSE {[k |-> k, taken |-> 0, closed |-> FALSE]}
           Parsed(s) == IF s.k.st = "READ" THEN TakeHeader(s.k)
                        ELSE IF s.k.st = "READ_POST" THEN TakeBody(s.k) ELSE {s.k}
           Ended(s, q) == IF s.closed /\ q.st = k.st THEN [q EXCEPT !.st = "ERROR"] ELSE q
<1>0. connection_handle_read_state(k) =
        UNION {{Result(Ended(s, q), s.taken, client[k.fd].full, FALSE) : q \in Parsed(s)} : s \in reads}
  BY DEF connection_handle_read_state
<1> HIDE DEF reads, Parsed, Ended
<1>1. PICK s \in reads : \E q \in Parsed(s) : r = Result(Ended(s, q), s.taken, client[k.fd].full, FALSE)
  BY <1>0
<1>2. PICK q \in Parsed(s) : r = Result(Ended(s, q), s.taken, client[k.fd].full, FALSE)
  BY <1>1
<1>3. r.k = Ended(s, q) /\ r.taken = s.taken
  BY <1>2 DEF Result
<1>4. Track(s.k, o) /\ IsCon(s.k) /\ s.k.st \in {k.st, "ERROR"}
  <2>1. CASE k.rd
    <3>1. s \in connection_handle_read(k) /\ IsCon(k)
      BY <2>1 DEF reads, Good
    <3>2. o.read = client[k.fd].read + s.taken
      BY <1>3
    <3> QED BY <3>1, <3>2, RawOrder
  <2>2. CASE ~k.rd
    <3>1. s = [k |-> k, taken |-> 0, closed |-> FALSE]
      BY <2>2 DEF reads
    <3>2. s.k = k /\ s.taken = 0 /\ IsCon(k)
      BY <3>1 DEF Good
    <3>3. p.read \in Nat /\ o.read = p.read
      BY <1>3, <3>2 DEF IsClient
    <3>4. SamePeer(p, o) /\ Carries(k, k)
      BY <3>3 DEF SamePeer, Carries
    <3> QED BY <3>2, <3>4, TrackKept
  <2> QED BY <2>1, <2>2
<1>5. Track(q, o) /\ DOMAIN q = ConFields
  <2>1. CASE s.k.st = "READ"
    <3>1. q \in TakeHeader(s.k)
      BY <2>1 DEF Parsed
    <3> QED BY <1>4, <2>1, <3>1, HeaderOrder, TakeHeaderNear DEF Near
  <2>2. CASE s.k.st = "READ_POST"
    <3>1. q \in TakeBody(s.k)
      BY <2>2 DEF Parsed
    <3> QED BY <1>4, <2>2, <3>1, BodyOrder, TakeBodyNear DEF Near
  <2>3. CASE s.k.st = "ERROR"
    BY <1>4, <2>3 DEF Parsed, IsCon
  <2> QED BY <1>4, <2>1, <2>2, <2>3
<1>6. Track([q EXCEPT !.st = "ERROR"], o)
  <2>1. Carries(q, [q EXCEPT !.st = "ERROR"]) /\ SamePeer(o, o)
    BY <1>5 DEF Carries, SamePeer, ConFields
  <2> QED BY <1>5, <2>1, TrackKept
<1> QED BY <1>3, <1>5, <1>6 DEF Ended

(* The request is parsed: it is answered next, or waits for its body.        *)
LEMMA ParseOrder ==
  ASSUME NEW k, IsCon(k), NEW p, IsClient(p), Bodies(p.script), Track(k, p), k.st = "REQUEST_END",
         NEW q \in http_request_parse(k)
  PROVE  Track(q, p)
<1>0. /\ k.rq \in Seq(Tokens) /\ k.count \in Nat /\ p.answers \in Nat /\ k.backend # "busy"
      /\ p.answers + 1 = k.count /\ InQueue(k, p) /\ Parsing(k, p)
  BY DEF Track, Asking, Parsing
<1>1. /\ k.req # "none" /\ IsRequest(p.script, k.count, k.req)
      /\ k.req # "post" => AtRequest(p.script, Position(k, p))
  BY <1>0, AfterRequest
<1>2. CASE q = [k EXCEPT !.status = "error", !.keep_alive = FALSE, !.st = "HANDLE_REQUEST"]
  <2>1. /\ q.rq = k.rq /\ q.count = k.count /\ q.req = k.req /\ q.backend = k.backend
        /\ q.st = "HANDLE_REQUEST" /\ ~q.keep_alive
    BY <1>2 DEF IsCon, ConFields
  <2>2. InQueue(q, p)
    BY <1>0, <2>1, QueueKept
  <2>3. Served(q, p)
    BY <1>0, <1>1, <2>1, <2>2 DEF Served
  <2> QED BY <1>0, <2>1, <2>3 DEF Track, Asking
<1>3. CASE k.req = "post" /\ q = [k EXCEPT !.keep_alive = TRUE, !.st = "READ_POST"]
  <2>1. /\ q.rq = k.rq /\ q.count = k.count /\ q.req = k.req /\ q.backend = k.backend
        /\ q.st = "READ_POST"
    BY <1>3 DEF IsCon, ConFields
  <2>2. InQueue(q, p) /\ Position(q, p) = Position(k, p)
    BY <1>0, <2>1, QueueKept
  <2>3. Parsing(q, p) /\ q.req = "post"
    BY <1>0, <1>3, <2>1, <2>2 DEF Parsing
  <2> QED BY <1>0, <2>1, <2>3 DEF Track, Asking, Serving
<1>4. CASE k.req # "post" /\ q = [k EXCEPT !.keep_alive = (k.req = "get"), !.st = "HANDLE_REQUEST"]
  <2>1. /\ q.rq = k.rq /\ q.count = k.count /\ q.req = k.req /\ q.backend = k.backend
        /\ q.st = "HANDLE_REQUEST"
    BY <1>4 DEF IsCon, ConFields
  <2>2. InQueue(q, p) /\ Position(q, p) = Position(k, p)
    BY <1>0, <2>1, QueueKept
  <2>3. NextRequest(q, p, q.count)
    BY <1>0, <1>1, <1>4, <2>1, <2>2 DEF NextRequest, Parsing
  <2>4. Served(q, p)
    BY <1>0, <1>1, <2>1, <2>2, <2>3 DEF Served
  <2> QED BY <1>0, <2>1, <2>4 DEF Track, Asking
<1> QED BY <1>2, <1>3, <1>4 DEF http_request_parse

(* A request begins: the connection counts it.                               *)
LEMMA StartOrder ==
  ASSUME NEW k, IsCon(k), NEW p, Track(k, p), k.st = "REQUEST_START"
  PROVE  Track([k EXCEPT !.st = "READ", !.count = @ + 1, !.age = 0], p)
<1> DEFINE q == [k EXCEPT !.st = "READ", !.count = @ + 1, !.age = 0]
<1>1. /\ k.rq \in Seq(Tokens) /\ k.count \in Nat /\ p.answers \in Nat /\ k.backend # "busy"
      /\ p.answers = k.count /\ NextRequest(k, p, k.count) /\ k.req = "none"
  BY DEF Track, Asking
<1>2. /\ q.st = "READ" /\ q.count = k.count + 1 /\ q.rq = k.rq /\ q.req = k.req
      /\ q.backend = k.backend
  BY DEF IsCon, ConFields
<1> HIDE DEF q
<1>3. NextRequest(q, p, p.answers)
  BY <1>1, <1>2, QueueKept
<1>4. q.count \in Nat /\ p.answers + 1 = q.count
  BY <1>1, <1>2
<1>5. Track(q, p)
  BY <1>1, <1>2, <1>3, <1>4 DEF Track, Serving
<1> QED BY <1>5 DEF q

(* A write ends the answer, which is counted, or leaves it to be finished.   *)
LEMMA WriteOrder ==
  ASSUME NEW k, Good(k), k.st = "WRITE", NEW p, IsClient(p), p = client[k.fd], Track(k, p),
         NEW r \in connection_handle_write(k),
         NEW o, o.script = p.script, o.read = p.read + r.taken,
         o.answers = p.answers + (IF r.k.st = "RESPONSE_END" THEN 1 ELSE 0)
  PROVE  Track(r.k, o)
<1> DEFINE sent == [k EXCEPT !.wq = 0, !.write_ts = 1]
           held == [k EXCEPT !.wr = FALSE, !.write_ts = 1]
<1>0. /\ IsCon(k) /\ k.backend # "busy" /\ p.read \in Nat /\ p.answers \in Nat
      /\ k.rq \in Seq(Tokens) /\ k.count \in Nat /\ Served(k, p)
  BY DEF Good, Shape, IsClient, Track, Serving
<1>1. /\ sent.rq = k.rq /\ sent.count = k.count /\ sent.req = k.req /\ sent.st = "WRITE"
      /\ sent.keep_alive = k.keep_alive /\ sent.backend = k.backend /\ DOMAIN sent = ConFields
  BY <1>0 DEF IsCon, ConFields
<1>2. /\ held.rq = k.rq /\ held.count = k.count /\ held.req = k.req /\ held.st = "WRITE"
      /\ held.keep_alive = k.keep_alive /\ held.backend = k.backend /\ DOMAIN held = ConFields
  BY <1>0 DEF IsCon, ConFields
<1> HIDE DEF sent, held
<1>3. ASSUME NEW q, r.k = q, r.taken = 0, Carries(k, q), q.st # "RESPONSE_END" PROVE Track(q, o)
  <2>1. SamePeer(p, o)
    <3>1. o.read = p.read /\ o.answers = p.answers
      BY <1>0, <1>3
    <3> QED BY <3>1 DEF SamePeer
  <2> QED BY <1>3, <2>1, TrackKept
<1>4. CASE r = Result([k EXCEPT !.st = "ERROR"], 0, FALSE, TRUE)
  <2> DEFINE q == [k EXCEPT !.st = "ERROR"]
  <2>1. r.k = q /\ r.taken = 0
    BY <1>4 DEF Result
  <2>2. Carries(k, q) /\ q.st # "RESPONSE_END"
    BY <1>0 DEF IsCon, ConFields, Carries
  <2> HIDE DEF q
  <2> QED BY <1>3, <2>1, <2>2
<1>5. CASE r = Result([sent EXCEPT !.st = "RESPONSE_END"], 0, FALSE, TRUE)
  <2> DEFINE q == [sent EXCEPT !.st = "RESPONSE_END"]
  <2>1. r.k = q /\ r.taken = 0
    BY <1>5 DEF Result
  <2>2. /\ q.rq = k.rq /\ q.count = k.count /\ q.keep_alive = k.keep_alive
        /\ q.backend = k.backend /\ q.st = "RESPONSE_END"
    BY <1>1 DEF ConFields
  <2> HIDE DEF q
  <2>3. o.read = p.read /\ o.answers = p.answers + 1
    BY <1>0, <2>1, <2>2
  <2>4. NextRequest(q, o, k.count) <=> NextRequest(k, p, k.count)
    BY <2>2, <2>3, QueueKept
  <2>5. o.answers = q.count /\ (q.keep_alive => NextRequest(q, o, q.count)) /\ o.answers \in Nat
    BY <1>0, <2>2, <2>3, <2>4 DEF Served
  <2>6. Track(q, o)
    BY <1>0, <2>2, <2>5 DEF Track, Serving
  <2> QED BY <2>1, <2>6
<1>6. CASE r = Result(sent, 0, FALSE, FALSE)
  <2>1. r.k = sent /\ r.taken = 0
    BY <1>6 DEF Result
  <2>2. Carries(k, sent)
    BY <1>1 DEF Carries
  <2> QED BY <1>1, <1>3, <2>1, <2>2
<1>7. CASE r = Result([held EXCEPT !.wq = 1], 0, TRUE, FALSE)
  <2> DEFINE q == [held EXCEPT !.wq = 1]
  <2>1. r.k = q /\ r.taken = 0
    BY <1>7 DEF Result
  <2>2. Carries(k, q) /\ q.st # "RESPONSE_END"
    BY <1>2 DEF ConFields, Carries
  <2> HIDE DEF q
  <2> QED BY <1>3, <2>1, <2>2
<1>8. CASE r = Result([held EXCEPT !.paused = "yes"], 0, client[k.fd].full, TRUE)
  <2> DEFINE q == [held EXCEPT !.paused = "yes"]
  <2>1. r.k = q /\ r.taken = 0
    BY <1>8 DEF Result
  <2>2. Carries(k, q) /\ q.st # "RESPONSE_END"
    BY <1>2 DEF ConFields, Carries
  <2> HIDE DEF q
  <2> QED BY <1>3, <2>1, <2>2
<1> QED BY <1>4, <1>5, <1>6, <1>7, <1>8 DEF connection_handle_write, sent, held

(* What a reset keeps.                                                       *)
LEMMA ResetKeeps ==
  ASSUME NEW k, IsCon(k)
  PROVE  LET q == connection_reset(k) IN
         /\ q.rq = k.rq /\ q.count = k.count /\ q.keep_alive = k.keep_alive
         /\ q.req = "none" /\ q.backend = "none" /\ q.fd = k.fd /\ DOMAIN q = ConFields
BY DEF IsCon, ConFields, connection_reset

(* After an answer the next request may begin.                               *)
LEMMA AgainOrder ==
  ASSUME NEW k, IsCon(k), NEW p, Track(k, p), k.st = "RESPONSE_END", k.keep_alive
  PROVE  Track([connection_reset(k) EXCEPT !.st = "REQUEST_START"], p)
<1> DEFINE m == connection_reset(k)
           q == [m EXCEPT !.st = "REQUEST_START"]
<1>1. /\ k.rq \in Seq(Tokens) /\ k.count \in Nat /\ p.answers \in Nat
      /\ p.answers = k.count /\ NextRequest(k, p, k.count)
  BY DEF Track
<1>2. /\ m.rq = k.rq /\ m.count = k.count /\ m.req = "none" /\ m.backend = "none"
      /\ DOMAIN m = ConFields
  BY ResetKeeps
<1> HIDE DEF m
<1>3. /\ q.rq = k.rq /\ q.count = k.count /\ q.req = "none" /\ q.backend = "none"
      /\ q.st = "REQUEST_START"
  BY <1>2 DEF ConFields
<1> HIDE DEF q
<1>4. NextRequest(q, p, q.count)
  BY <1>1, <1>3, QueueKept
<1>5. Track(q, p)
  BY <1>1, <1>3, <1>4 DEF Track, Serving
<1> QED BY <1>5 DEF q, m

-----------------------------------------------------------------------------
(* The steps that neither read, parse nor end an answer.                     *)

(* Setting the events to wait for carries the connection on.                 *)
LEMMA InterestCarries == ASSUME NEW k, IsCon(k) PROVE Carries(k, Interest(k))
BY DEF IsCon, ConFields, Carries, Interest

(* So does a second of time,                                                 *)
LEMMA AgedCarries == ASSUME NEW k, IsCon(k) PROVE Carries(k, Aged(k))
BY DEF IsCon, ConFields, Carries, Aged

(* and preparing the answer for writing,                                     *)
LEMMA PrepareCarries ==
  ASSUME NEW k, IsCon(k), k.st = "RESPONSE_START", NEW body \in {"known", "unknown", "none"}
  PROVE  Carries(k, connection_handle_write_prepare(k, body))
<1> DEFINE q == connection_handle_write_prepare(k, body)
<1>1. /\ q.rq = k.rq /\ q.count = k.count /\ q.req = k.req /\ q.backend = k.backend /\ q.st = "WRITE"
      /\ q.keep_alive => k.keep_alive
  BY DEF IsCon, ConFields, connection_handle_write_prepare
<1> QED BY <1>1 DEF Carries, Serving

(* and noting why poll returned,                                             *)
LEMMA WokenCarries ==
  ASSUME NEW c \in Cons, IsCon(con[c])
  PROVE  Carries(con[c], Woken(c))
<1> DEFINE k == con[c]
           r == [k EXCEPT !.rd = @ \/ k.ev = "in", !.wr = @ \/ (k.ev = "out" /\ ~client[k.fd].full)]
<1>1. /\ r.rq = k.rq /\ r.count = k.count /\ r.req = k.req /\ r.keep_alive = k.keep_alive
      /\ r.backend = k.backend /\ r.st = k.st /\ DOMAIN r = ConFields
  BY DEF IsCon, ConFields
<1> HIDE DEF r
<1>2. Carries(k, r) /\ Carries(k, [r EXCEPT !.age = Expired]) /\ Carries(k, [r EXCEPT !.st = "ERROR"])
  BY <1>1 DEF Carries, ConFields
<1> QED BY <1>2 DEF Woken, r

(* and every timeout,                                                        *)
LEMMA TimeoutsCarry ==
  ASSUME NEW k, IsCon(k), NEW t \in Timeouts(k)
  PROVE  Carries(k, t.k)
<1> DEFINE k1 == IF TimedOut(k) THEN [k EXCEPT !.st = "ERROR"] ELSE k
           changed == TimedOut(k) \/ (k.st = "CLOSE" /\ k.age = Expired)
<1>1. /\ k1.rq = k.rq /\ k1.count = k.count /\ k1.req = k.req /\ k1.keep_alive = k.keep_alive
      /\ k1.backend = k.backend /\ (k1.st = k.st \/ k1.st = "ERROR") /\ DOMAIN k1 = ConFields
  BY DEF IsCon, ConFields
<1>2. CASE t = [k |-> k1, changed |-> changed]
  <2>1. t.k = k1
    BY <1>2
  <2> HIDE DEF k1
  <2> QED BY <1>1, <2>1 DEF Carries
<1>3. CASE t = [k |-> Resumed(k1), changed |-> TRUE]
  <2>1. t.k = Resumed(k1)
    BY <1>3
  <2> HIDE DEF k1
  <2> QED BY <1>1, <2>1 DEF Carries, ConFields, Resumed
<1> QED BY <1>2, <1>3 DEF Timeouts

(* and an event of its backend, which ends no answer.                        *)
LEMMA BackendCarries ==
  ASSUME NEW k, IsCon(k), NEW q \in BackendStep(k), k.backend \in {"busy", "started"}
  PROVE  Carries(k, q) /\ (q.st = "RESPONSE_END" => k.st = "RESPONSE_END")
<1> DEFINE more == IF k.wq = 0 THEN 1 ELSE k.wq
<1> HIDE DEF more
<1>2. CASE q = [k EXCEPT !.backend = "started", !.wq = more, !.answer = FALSE]
  BY <1>2 DEF IsCon, ConFields, Carries
<1>3. CASE q = [k EXCEPT !.backend = "none", !.wq = more, !.finished = TRUE, !.answer = FALSE]
  BY <1>3 DEF IsCon, ConFields, Carries
<1>4. CASE q = [k EXCEPT !.backend = "none", !.answer = FALSE, !.st = "ERROR"]
  BY <1>4 DEF IsCon, ConFields, Carries
<1>5. CASE q = [k EXCEPT !.backend = "none", !.answer = FALSE, !.mode = "DIRECT", !.status = "error",
                         !.st = "HANDLE_REQUEST"] /\ k.backend = "busy"
  BY <1>5 DEF IsCon, ConFields, Carries, Serving
<1>6. CASE q = [k EXCEPT !.backend = "wait_fd", !.answer = FALSE, !.retries = @ + 1]
  BY <1>6 DEF IsCon, ConFields, Carries
<1> QED BY <1>2, <1>3, <1>4, <1>5, <1>6 DEF BackendStep, more

-----------------------------------------------------------------------------
(* Steps of the server.                                                      *)

(* What a step does to peers: it reads, writes or answers on one socket.     *)
PeersKept(c) ==
  \A p \in Clients : /\ client'[p].script = client[p].script /\ client'[p].st = client[p].st
                     /\ p # con[c].fd => client'[p] = client[p]

(* Nothing happens to connections and peers.                                 *)
LEMMA OrderFrame ==
  ASSUME OrderInv, pc # "machine" \/ UNCHANGED <<pc, run>>,
         UNCHANGED <<con, client, ptr, used>>, events' \subseteq events
  PROVE  OrderInv'
<1>1. Open' = Open
  BY DEF Open
<1>2. TrackInv' /\ ScriptsInv' /\ AnsweredInv'
  BY <1>1 DEF OrderInv, TrackInv, ScriptsInv, AnsweredInv
<1>3. ClearedInv'
  BY <1>1 DEF OrderInv, ClearedInv
<1> QED BY <1>2, <1>3 DEF OrderInv

(* One connection in use changes.                                            *)
LEMMA OrderStep ==
  ASSUME Inv, OrderInv, NEW c \in Open, pc # "machine" \/ run.con = c,
         NEW q, con' = [con EXCEPT ![c] = q], q.fd = con[c].fd, PeersKept(c),
         Track(q, client'[con[c].fd]), Open' = Open, events' \subseteq events,
         <<"con", c>> \in events' => q.st # "RESPONSE_END"
  PROVE  OrderInv'
<1>0. c \in Cons /\ Open \subseteq Cons /\ DOMAIN con = Cons
  BY OpenType DEF Inv, Core, ConsInv
<1>1. \A d \in Cons : con'[d] = IF d = c THEN q ELSE con[d]
  BY <1>0
<1>2. TrackInv'
  <2> SUFFICES ASSUME NEW d \in Open PROVE Track(con'[d], client'[con'[d].fd])
    BY DEF TrackInv
  <2>1. CASE d = c
    BY <1>0, <1>1, <2>1
  <2>2. CASE d # c
    <3>1. con'[d] = con[d] /\ con[d].fd \in Clients /\ con[d].fd # con[c].fd
      BY <1>0, <1>1, <2>2 DEF Inv, Core, OwnersInv
    <3>2. client'[con[d].fd] = client[con[d].fd]
      BY <3>1 DEF PeersKept
    <3>3. Track(con[d], client[con[d].fd])
      BY DEF OrderInv, TrackInv
    <3> QED BY <3>1, <3>2, <3>3
  <2> QED BY <2>1, <2>2
<1>3. ClearedInv'
  <2> SUFFICES ASSUME NEW d \in Cons \ Open PROVE Cleared(con'[d])
    BY DEF ClearedInv, Cleared
  <2>1. d # c /\ con'[d] = con[d] /\ ~(pc = "machine" /\ run.con = d)
    BY <1>1
  <2> QED BY <2>1 DEF OrderInv, ClearedInv
<1>4. ScriptsInv'
  <2> SUFFICES ASSUME NEW p \in Clients
               PROVE  /\ Bodies(client'[p].script)
                      /\ client'[p].st \in {"away", "connecting"} =>
                           client'[p].answers = 0 /\ client'[p].read = 0
    BY DEF ScriptsInv
  <2>1. Bodies(client'[p].script)
    BY DEF PeersKept, OrderInv, ScriptsInv
  <2>2. ASSUME client'[p].st \in {"away", "connecting"}
        PROVE  client'[p].answers = 0 /\ client'[p].read = 0
    <3>1. client[p].st \in {"away", "connecting"}
      BY <2>2 DEF PeersKept
    <3>2. p # con[c].fd
      BY <3>1 DEF Inv, Core, OwnersInv
    <3>3. client'[p] = client[p]
      BY <3>2 DEF PeersKept
    <3> QED BY <3>1, <3>3 DEF OrderInv, ScriptsInv
  <2> QED BY <2>1, <2>2
<1>5. AnsweredInv'
  <2> SUFFICES ASSUME NEW d \in Cons, <<"con", d>> \in events' PROVE con'[d].st # "RESPONSE_END"
    BY DEF AnsweredInv
  <2>1. CASE d = c
    BY <1>1, <2>1
  <2>2. CASE d # c
    BY <1>1, <2>2 DEF OrderInv, AnsweredInv
  <2> QED BY <2>1, <2>2
<1> QED BY <1>2, <1>3, <1>4, <1>5 DEF OrderInv

(* A step that changes no peer.                                              *)
LEMMA PeersSame == ASSUME UNCHANGED client PROVE \A c : PeersKept(c)
BY DEF PeersKept

(* What a read, a write or a flush did to its peer.                          *)
LEMMA TookPeers ==
  ASSUME ClientsInv, NEW c, con[c].fd \in Clients, NEW r, r.k.fd = con[c].fd, Took(r)
  PROVE  LET p == client[con[c].fd]  o == client'[con[c].fd] IN
         /\ PeersKept(c) /\ o.script = p.script /\ o.read = p.read + r.taken
         /\ o.answers = p.answers + (IF r.k.st = "RESPONSE_END" THEN 1 ELSE 0)
<1> DEFINE f == con[c].fd
           a == IF r.k.st = "RESPONSE_END" THEN 1 ELSE 0
           e == [client[f] EXCEPT !.read = @ + r.taken, !.full = r.full, !.answers = @ + a]
<1>1. client' = [client EXCEPT ![f] = e]
  BY DEF Took
<1>2. DOMAIN client[f] = ClientFields /\ DOMAIN client = Clients
  BY DEF ClientsInv, IsClient
<1>3. /\ e.read = client[f].read + r.taken /\ e.answers = client[f].answers + a
      /\ e.script = client[f].script /\ e.st = client[f].st
  BY <1>2 DEF ClientFields
<1> HIDE DEF e
<1>4. \A p \in Clients : client'[p] = IF p = f THEN e ELSE client[p]
  BY <1>1, <1>2
<1> QED BY <1>3, <1>4 DEF PeersKept

(* A round of the state machine on a connection in use.                      *)
LEMMA MachineOrder ==
  ASSUME Inv, OrderInv, pc = "machine", run.con \in Open,
         NEW q, con' = [con EXCEPT ![run.con] = q], q.fd = con[run.con].fd, PeersKept(run.con),
         Track(q, client'[con[run.con].fd]), UNCHANGED <<ptr, used, events>>
  PROVE  OrderInv'
<1>1. Open' = Open /\ <<"con", run.con>> \notin events'
  BY DEF Open, Inv, EventsInv
<1> QED BY <1>1, OrderStep

(* ... that ends with its events, or goes on.                                *)
LEMMA RoundOrder ==
  ASSUME Inv, OrderInv, pc = "machine", run.con \in Open,
         NEW k, Keeps(con[run.con], k), Round(k) \/ Leave(k), PeersKept(run.con),
         Track(k, client'[con[run.con].fd]), UNCHANGED <<ptr, used, events>>
  PROVE  OrderInv'
<1> DEFINE q == Interest(k)
<1>1. con' = [con EXCEPT ![run.con] = k] \/ con' = [con EXCEPT ![run.con] = q]
  BY DEF Round, Leave
<1>2. IsCon(k) /\ k.fd = con[run.con].fd
  BY DEF Keeps, Good
<1>3. q.fd = k.fd
  BY <1>2 DEF Interest, IsCon, ConFields
<1>4. Carries(k, q) /\ SamePeer(client'[con[run.con].fd], client'[con[run.con].fd])
  BY <1>2, InterestCarries DEF SamePeer
<1> HIDE DEF q
<1>5. Track(q, client'[con[run.con].fd])
  BY <1>4, TrackKept
<1> QED BY <1>1, <1>2, <1>3, <1>5, MachineOrder

(* The connection in hand and its peer.                                      *)
LEMMA InHand ==
  ASSUME Inv, OrderInv, pc = "machine", con[run.con].st # "CONNECT"
  PROVE  /\ run.con \in Open /\ Good(con[run.con]) /\ IsCon(con[run.con]) /\ ClientsInv
         /\ con[run.con].fd \in Clients /\ IsClient(client[con[run.con].fd])
         /\ Bodies(client[con[run.con].fd].script)
         /\ Track(con[run.con], client[con[run.con].fd])
<1>1. /\ run.con \in Open /\ Good(con[run.con]) /\ IsCon(con[run.con]) /\ ClientsInv
      /\ con[run.con].fd \in Clients /\ IsClient(client[con[run.con].fd])
  BY InMachine
<1> QED BY <1>1 DEF OrderInv, TrackInv, ScriptsInv

(* A round that carries the connection on.                                   *)
LEMMA CarryOrder ==
  ASSUME Inv, OrderInv, pc = "machine", run.con \in Open, NEW k, Carries(con[run.con], k),
         k.fd = con[run.con].fd, con' = [con EXCEPT ![run.con] = k],
         UNCHANGED <<client, ptr, used, events>>
  PROVE  OrderInv'
<1>1. PeersKept(run.con)
  BY PeersSame
<1>2. Track(con[run.con], client[con[run.con].fd])
      /\ SamePeer(client[con[run.con].fd], client'[con[run.con].fd])
  BY DEF OrderInv, TrackInv, SamePeer
<1>3. Track(k, client'[con[run.con].fd])
  BY <1>2, TrackKept
<1> QED BY <1>1, <1>3, MachineOrder

(* A round that carries the connection on, whether the machine goes on or    *)
(* waits.                                                                    *)
LEMMA RoundCarry ==
  ASSUME Inv, OrderInv, pc = "machine", run.con \in Open, NEW k, Carries(con[run.con], k),
         IsCon(k), k.fd = con[run.con].fd, Round(k) \/ Leave(k),
         UNCHANGED <<client, ptr, used, events>>
  PROVE  OrderInv'
<1> DEFINE q == Interest(k)
<1>1. con' = [con EXCEPT ![run.con] = k] \/ con' = [con EXCEPT ![run.con] = q]
  BY DEF Round, Leave
<1>2. q.fd = k.fd
  BY DEF Interest, IsCon, ConFields
<1>3. Carries(k, q)
  BY InterestCarries
<1> HIDE DEF q
<1>4. Carries(con[run.con], q)
  BY <1>3 DEF Carries, Serving
<1> QED BY <1>1, <1>2, <1>4, CarryOrder

(* An answer is there.                                                       *)
LEMMA PreparedOrder ==
  ASSUME Inv, OrderInv, pc = "machine", run.con \in Open, con[run.con].st = "HANDLE_REQUEST",
         NEW k, Carries(con[run.con], k), IsCon(k), k.st = "HANDLE_REQUEST", k.fd = con[run.con].fd,
         Prepared(k), UNCHANGED <<client, ptr, used, events>>
  PROVE  OrderInv'
<1> DEFINE q == [k EXCEPT !.status = "none", !.in_error_handler = TRUE]
           r == [k EXCEPT !.st = "RESPONSE_START", !.status = IF @ = "none" THEN "ok" ELSE @]
<1>1. con' = [con EXCEPT ![run.con] = q] \/ Round(r)
  BY DEF Prepared
<1>2. /\ q.rq = k.rq /\ q.count = k.count /\ q.req = k.req /\ q.keep_alive = k.keep_alive
      /\ q.backend = k.backend /\ q.st = k.st /\ q.fd = k.fd
  BY DEF IsCon, ConFields
<1>3. /\ r.rq = k.rq /\ r.count = k.count /\ r.req = k.req /\ r.keep_alive = k.keep_alive
      /\ r.backend = k.backend /\ r.st = "RESPONSE_START" /\ r.fd = k.fd /\ IsCon(r)
  BY DEF IsCon, ConFields, States
<1> HIDE DEF q, r
<1>4. Carries(con[run.con], q) /\ Carries(con[run.con], r)
  BY <1>2, <1>3 DEF Carries, Serving
<1>5. CASE con' = [con EXCEPT ![run.con] = q]
  BY <1>2, <1>4, <1>5, CarryOrder
<1>6. CASE Round(r)
  BY <1>3, <1>4, <1>6, RoundCarry
<1> QED BY <1>1, <1>5, <1>6

(* The connection in hand is closed.                                         *)
LEMMA CloseOrder ==
  ASSUME Inv, OrderInv, pc = "machine", run.con \in Open, NEW q,
         con' = [con EXCEPT ![run.con] = q], client' = [client EXCEPT ![con[run.con].fd] = Gone],
         Open' = Open \ {run.con}, UNCHANGED <<pc, run, events>>
  PROVE  OrderInv'
<1> DEFINE c == run.con
<1>0. c \in Cons /\ Open \subseteq Cons /\ DOMAIN con = Cons /\ DOMAIN client = Clients
  BY OpenType DEF Inv, Core, ConsInv, ClientsInv
<1>1. \A d \in Cons : d # c => con'[d] = con[d]
  BY <1>0
<1>2. \A p \in Clients : client'[p] = IF p = con[c].fd THEN Gone ELSE client[p]
  BY <1>0
<1>3. TrackInv'
  <2> SUFFICES ASSUME NEW d \in Open \ {c} PROVE Track(con'[d], client'[con'[d].fd])
    BY DEF TrackInv
  <2>1. con'[d] = con[d] /\ con[d].fd \in Clients /\ con[d].fd # con[c].fd
    BY <1>0, <1>1 DEF Inv, Core, OwnersInv
  <2>2. client'[con[d].fd] = client[con[d].fd]
    BY <1>2, <2>1
  <2>3. Track(con[d], client[con[d].fd])
    BY DEF OrderInv, TrackInv
  <2> QED BY <2>1, <2>2, <2>3
<1>4. ClearedInv'
  <2> SUFFICES ASSUME NEW d \in Cons \ Open' PROVE Cleared(con'[d]) \/ d = c
    BY DEF ClearedInv, Cleared
  <2>1. CASE d # c
    <3>1. d \notin Open /\ con'[d] = con[d]
      BY <1>1, <2>1
    <3> QED BY <2>1, <3>1 DEF OrderInv, ClearedInv
  <2> QED BY <2>1
<1>5. ScriptsInv'
  <2>1. Gone.st = "closed" /\ Bodies(Gone.script)
    <3>1. Gone.script = <<>> /\ Gone.st = "closed"
      BY DEF Gone
    <3>2. Len(<<>>) = 0
      OBVIOUS
    <3> QED BY <3>1, <3>2 DEF Bodies
  <2> QED BY <1>2, <2>1 DEF OrderInv, ScriptsInv
<1>6. AnsweredInv'
  <2>1. <<"con", c>> \notin events
    BY DEF Inv, EventsInv
  <2> QED BY <1>1, <2>1 DEF OrderInv, AnsweredInv
<1> QED BY <1>3, <1>4, <1>5, <1>6 DEF OrderInv

(* shutdown: the connection lingers or is closed; its requests are over.     *)
LEMMA ShutdownOrder ==
  ASSUME Inv, OrderInv, pc = "machine", run.con \in Open, Good(con[run.con]),
         NEW k, DOMAIN k = ConFields, k.rq = con[run.con].rq, k.count = con[run.con].count,
         k.backend = "none", k.fd = con[run.con].fd, NEW fds,
         ShutdownOrClose(run.con, k, fds), Again, UNCHANGED events
  PROVE  OrderInv'
<1> DEFINE q == [k EXCEPT !.st = "CLOSE", !.age = 0]
<1>1. q.rq = k.rq /\ q.count = k.count /\ q.backend = "none" /\ q.st = "CLOSE" /\ q.fd = k.fd
  BY DEF ConFields
<1>2. CASE connection_close(run.con, fds) /\ con' = [con EXCEPT ![run.con] = [k EXCEPT !.st = "CONNECT", !.ev = ""]]
  <2>1. Open' = Open \ {run.con}
    BY <1>2, DelStep DEF connection_close, Inv, Core
  <2>2. client' = [client EXCEPT ![con[run.con].fd] = Gone]
    BY <1>2 DEF connection_close, Gone
  <2> QED BY <1>2, <2>1, <2>2, CloseOrder DEF Again
<1>3. CASE con' = [con EXCEPT ![run.con] = q] /\ UNCHANGED <<ptr, used, client>>
  <2> HIDE DEF q
  <2>1. PeersKept(run.con)
    BY <1>3, PeersSame
  <2>2. Track(con[run.con], client[con[run.con].fd])
    BY DEF OrderInv, TrackInv
  <2>3. q.rq \in Seq(Tokens) /\ q.count \in Nat /\ client'[con[run.con].fd].answers \in Nat
    BY <1>1, <1>3, <2>2 DEF Track
  <2>4. Track(q, client'[con[run.con].fd])
    BY <1>1, <2>3, TrackIdle
  <2> QED BY <1>1, <1>3, <2>1, <2>4, MachineOrder
<1> QED BY <1>2, <1>3 DEF ShutdownOrClose

(* The states of the machine.                                                *)
LEMMA RequestStartOrder == ASSUME Inv, OrderInv, RequestStart PROVE OrderInv'
<1> DEFINE k == [con[run.con] EXCEPT !.st = "READ", !.count = @ + 1, !.age = 0]
<1>1. pc = "machine" /\ con[run.con].st = "REQUEST_START"
  BY DEF RequestStart, In
<1>2. /\ run.con \in Open /\ Good(con[run.con]) /\ IsCon(con[run.con])
      /\ Track(con[run.con], client[con[run.con].fd])
  BY <1>1, InHand
<1>3. Round(k) /\ UNCHANGED <<ptr, used, client, events>>
  BY DEF RequestStart, machineRest, loopVars
<1>4. k.st = "READ" /\ Near(con[run.con], k)
  <2>1. k.age = 0 /\ k.st = "READ"
    BY <1>2 DEF IsCon, ConFields
  <2>2. k.age \in 0..Expired
    BY <2>1, Numbers
  <2> QED BY <1>2, <2>1, <2>2 DEF Near, IsCon, ConFields
<1>5. Track(k, client[con[run.con].fd])
  BY <1>1, <1>2, StartOrder
<1> HIDE DEF k
<1>6. Keeps(con[run.con], k)
  BY <1>1, <1>2, <1>4, NearGood DEF Calm
<1>7. PeersKept(run.con) /\ Track(k, client'[con[run.con].fd])
  BY <1>3, <1>5, PeersSame
<1> QED BY <1>1, <1>2, <1>3, <1>6, <1>7, RoundOrder

(* READ and READ_POST: more of the script moves to the queue, or a request   *)
(* out of it.                                                                *)
LEMMA ReadStateOrder == ASSUME Inv, OrderInv, ReadState PROVE OrderInv'
<1> DEFINE f == con[run.con].fd
<1>1. pc = "machine" /\ con[run.con].st \in {"READ", "READ_POST"}
  BY DEF ReadState, In
<1>2. /\ run.con \in Open /\ Good(con[run.con]) /\ ClientsInv /\ f \in Clients
      /\ IsClient(client[f]) /\ Bodies(client[f].script) /\ Track(con[run.con], client[f])
  BY <1>1, InHand
<1>3. PICK r \in connection_handle_read_state(con[run.con]) : Round(r.k) /\ Took(r)
  BY DEF ReadState
<1>4. GoodResult(con[run.con], r) /\ r.k.st \in Calm \cup {"ERROR"}
  BY <1>1, <1>2, ReadGood
<1>5. r.k.fd = f /\ Keeps(con[run.con], r.k)
  BY <1>4 DEF GoodResult, Keeps
<1>6. /\ PeersKept(run.con) /\ client'[f].script = client[f].script
      /\ client'[f].read = client[f].read + r.taken
      /\ client'[f].answers = client[f].answers + (IF r.k.st = "RESPONSE_END" THEN 1 ELSE 0)
  BY <1>2, <1>3, <1>5, TookPeers
<1>7. client'[f].answers = client[f].answers
  <2>1. r.k.st # "RESPONSE_END" /\ client[f].answers \in Nat
    BY <1>2, <1>4 DEF Calm, Track
  <2> QED BY <1>6, <2>1
<1>8. IsClient(client'[f])
  <2>1. client[f].st = "accepted"
    BY <1>1, InMachine
  <2>2. ClientsKept
    BY <1>2, <1>3, <1>4, <2>1, TookKept
  <2> QED BY <1>2, <2>2 DEF ClientsKept
<1>9. UNCHANGED <<ptr, used, events>>
  BY DEF ReadState, machineRest, loopVars
<1>10. Track(r.k, client'[f])
  BY <1>1, <1>2, <1>6, <1>7, <1>8, ReadOrder
<1> DEFINE k == r.k
<1>11. Round(k) /\ Keeps(con[run.con], k) /\ Track(k, client'[f])
  BY <1>3, <1>5, <1>10
<1> HIDE DEF k
<1> QED BY <1>1, <1>2, <1>6, <1>9, <1>11, RoundOrder

(* REQUEST_END: the request is parsed.                                       *)
LEMMA RequestEndOrder == ASSUME Inv, OrderInv, RequestEnd PROVE OrderInv'
<1> DEFINE f == con[run.con].fd
<1>1. pc = "machine" /\ con[run.con].st = "REQUEST_END"
  BY DEF RequestEnd, In
<1>2. /\ run.con \in Open /\ Good(con[run.con]) /\ IsCon(con[run.con])
      /\ IsClient(client[f]) /\ Bodies(client[f].script) /\ Track(con[run.con], client[f])
  BY <1>1, InHand
<1>3. PICK k \in http_request_parse(con[run.con]) : Round(k)
  BY DEF RequestEnd
<1>4. UNCHANGED <<ptr, used, client, events>>
  BY DEF RequestEnd, machineRest, loopVars
<1>5. Keeps(con[run.con], k)
  BY <1>1, <1>2, ParseGood
<1>6. Track(k, client'[f]) /\ PeersKept(run.con)
  BY <1>1, <1>2, <1>4, ParseOrder, PeersSame
<1> QED BY <1>1, <1>2, <1>3, <1>4, <1>5, <1>6, RoundOrder

(* HANDLE_REQUEST, the answer decided.                                       *)
LEMMA HandleDecidedOrder == ASSUME Inv, OrderInv, HandleDecided PROVE OrderInv'
<1> DEFINE k == con[run.con]
           q == [k EXCEPT !.wq = IF k.finished THEN @ ELSE 0]
<1>1. pc = "machine" /\ k.st = "HANDLE_REQUEST"
  BY DEF HandleDecided, In
<1>2. run.con \in Open /\ IsCon(k)
  BY <1>1, InHand
<1>3. UNCHANGED <<ptr, used, client, events>>
  BY DEF HandleDecided, machineRest, loopVars
<1>4. Prepared(q) \/ Prepared(k)
  BY DEF HandleDecided
<1>5. Carries(k, q) /\ IsCon(q) /\ q.st = k.st /\ q.fd = k.fd
  <2>1. /\ q.rq = k.rq /\ q.count = k.count /\ q.req = k.req /\ q.keep_alive = k.keep_alive
        /\ q.backend = k.backend /\ q.st = k.st /\ q.fd = k.fd
        /\ DOMAIN q = ConFields /\ q.mode = k.mode
        /\ q.ev = k.ev /\ q.since = k.since /\ q.write_ts = k.write_ts /\ q.age = k.age
    BY <1>2 DEF IsCon, ConFields
  <2>2. q.wq \in Nat
    <3>1. q.wq = k.wq \/ q.wq = 0
      BY <1>2 DEF IsCon, ConFields
    <3>2. k.wq \in Nat
      BY <1>2 DEF IsCon
    <3> HIDE DEF q, k
    <3> QED BY <3>1, <3>2
  <2> HIDE DEF q
  <2>3. IsCon(q)
    BY <1>2, <2>1, <2>2 DEF IsCon
  <2> QED BY <2>1, <2>3 DEF Carries
<1>6. Carries(k, k)
  BY DEF Carries
<1> HIDE DEF q
<1> QED BY <1>1, <1>2, <1>3, <1>4, <1>5, <1>6, PreparedOrder

(* HANDLE_REQUEST, answered by the server itself.                            *)
LEMMA HandleDirectOrder == ASSUME Inv, OrderInv, HandleDirect PROVE OrderInv'
<1> DEFINE k == con[run.con]
           full == [k EXCEPT !.wq = 1, !.finished = TRUE]
           missing == [k EXCEPT !.status = "missing"]
           failed == [k EXCEPT !.st = "ERROR"]
<1>1. pc = "machine" /\ k.st = "HANDLE_REQUEST"
  BY DEF HandleDirect, In
<1>2. run.con \in Open /\ IsCon(k)
  BY <1>1, InHand
<1>3. UNCHANGED <<ptr, used, client, events>>
  BY DEF HandleDirect, machineRest, loopVars
<1>4. Prepared(full) \/ Prepared(missing) \/ Round(failed)
  BY DEF HandleDirect
<1>5. Carries(k, full) /\ IsCon(full) /\ full.st = k.st /\ full.fd = k.fd
  <2>1. full.wq = 1
    BY <1>2 DEF IsCon, ConFields
  <2>2. full.wq \in Nat
    BY <2>1
  <2> QED BY <1>2, <2>2 DEF IsCon, ConFields, Carries
<1>6. Carries(k, missing) /\ IsCon(missing) /\ missing.st = k.st /\ missing.fd = k.fd
  BY <1>2 DEF IsCon, ConFields, Carries
<1>7. Carries(k, failed) /\ IsCon(failed) /\ failed.fd = k.fd
  BY <1>2 DEF IsCon, ConFields, Carries, States
<1> HIDE DEF full, missing, failed
<1>8. CASE Prepared(full)
  BY <1>1, <1>2, <1>3, <1>5, <1>8, PreparedOrder
<1>9. CASE Prepared(missing)
  BY <1>1, <1>2, <1>3, <1>6, <1>9, PreparedOrder
<1>10. CASE Round(failed)
  BY <1>1, <1>2, <1>3, <1>7, <1>10, RoundCarry
<1> QED BY <1>4, <1>8, <1>9, <1>10

(* HANDLE_REQUEST, given to a backend.                                       *)
LEMMA HandleBackendOrder == ASSUME Inv, OrderInv, HandleBackend PROVE OrderInv'
<1> DEFINE k == con[run.con]
           busy == [k EXCEPT !.mode = "plugin", !.backend = "busy"]
           waits == [k EXCEPT !.mode = "plugin", !.backend = "wait_fd", !.retries = @ + 1]
           given_up == [k EXCEPT !.mode = "DIRECT", !.backend = "none", !.status = "error"]
<1>1. pc = "machine" /\ k.st = "HANDLE_REQUEST"
  BY DEF HandleBackend, In
<1>2. run.con \in Open /\ IsCon(k)
  BY <1>1, InHand
<1>3. UNCHANGED <<ptr, used, client, events>>
  BY DEF HandleBackend, loopVars
<1>4. Leave(busy) \/ Leave(waits) \/ Prepared(given_up)
  BY DEF HandleBackend
<1>5. Carries(k, busy) /\ IsCon(busy) /\ busy.fd = k.fd
  BY <1>1, <1>2 DEF IsCon, ConFields, Carries, Serving
<1>6. Carries(k, waits) /\ IsCon(waits) /\ waits.fd = k.fd
  BY <1>1, <1>2 DEF IsCon, ConFields, Carries
<1>7. Carries(k, given_up) /\ IsCon(given_up) /\ given_up.fd = k.fd /\ given_up.st = k.st
  BY <1>1, <1>2 DEF IsCon, ConFields, Carries
<1> HIDE DEF busy, waits, given_up
<1>8. CASE Leave(busy)
  BY <1>1, <1>2, <1>3, <1>5, <1>8, RoundCarry
<1>9. CASE Leave(waits)
  BY <1>1, <1>2, <1>3, <1>6, <1>9, RoundCarry
<1>10. CASE Prepared(given_up)
  BY <1>1, <1>2, <1>3, <1>7, <1>10, PreparedOrder
<1> QED BY <1>4, <1>8, <1>9, <1>10

(* HANDLE_REQUEST, waiting for the backend.                                  *)
LEMMA HandleWaitingOrder == ASSUME Inv, OrderInv, HandleWaiting PROVE OrderInv'
<1>1. pc = "machine" /\ con[run.con].st = "HANDLE_REQUEST"
  BY DEF HandleWaiting, In
<1>2. run.con \in Open /\ IsCon(con[run.con])
  BY <1>1, InHand
<1>3. UNCHANGED <<ptr, used, client, events>> /\ Leave(con[run.con])
  BY DEF HandleWaiting, machineRest, loopVars
<1>4. Carries(con[run.con], con[run.con])
  BY DEF Carries
<1> QED BY <1>1, <1>2, <1>3, <1>4, RoundCarry

(* RESPONSE_START: the header of the answer.                                 *)
LEMMA ResponseStartOrder == ASSUME Inv, OrderInv, ResponseStart PROVE OrderInv'
<1>1. pc = "machine" /\ con[run.con].st = "RESPONSE_START"
  BY DEF ResponseStart, In
<1>2. run.con \in Open /\ Good(con[run.con]) /\ IsCon(con[run.con])
  BY <1>1, InHand
<1>3. PICK body \in {"known", "unknown", "none"} : Round(connection_handle_write_prepare(con[run.con], body))
  BY DEF ResponseStart
<1>4. UNCHANGED <<ptr, used, client, events>>
  BY DEF ResponseStart, machineRest, loopVars
<1> DEFINE k == connection_handle_write_prepare(con[run.con], body)
<1>5. Keeps(con[run.con], k)
  BY <1>1, <1>2, PrepareGood
<1>6. Carries(con[run.con], k)
  BY <1>1, <1>2, PrepareCarries
<1>7. Round(k)
  BY <1>3
<1> HIDE DEF k
<1>8. IsCon(k) /\ k.fd = con[run.con].fd
  BY <1>5 DEF Keeps, Good
<1> QED BY <1>1, <1>2, <1>4, <1>6, <1>7, <1>8, RoundCarry

(* WRITE: more of the answer is sent, perhaps its end.                       *)
LEMMA WriteStateOrder == ASSUME Inv, OrderInv, Write PROVE OrderInv'
<1> DEFINE f == con[run.con].fd
<1>1. pc = "machine" /\ con[run.con].st = "WRITE"
  BY DEF Write, In
<1>2. /\ run.con \in Open /\ Good(con[run.con]) /\ IsCon(con[run.con]) /\ ClientsInv
      /\ f \in Clients /\ IsClient(client[f]) /\ Track(con[run.con], client[f])
  BY <1>1, InHand
<1>3. UNCHANGED <<ptr, used, events>>
  BY DEF Write, machineRest, loopVars
<1>4. CASE con[run.con].wq > 0 /\ con[run.con].wr
  <2>1. PICK r \in connection_handle_write(con[run.con]) : Round(r.k) /\ Took(r)
    BY <1>4 DEF Write
  <2>2. GoodResult(con[run.con], r)
    BY <1>1, <1>2, <1>4, WriteGood
  <2>3. r.k.fd = f /\ Keeps(con[run.con], r.k)
    BY <2>2 DEF GoodResult, Keeps
  <2>4. /\ PeersKept(run.con) /\ client'[f].script = client[f].script
        /\ client'[f].read = client[f].read + r.taken
        /\ client'[f].answers = client[f].answers + (IF r.k.st = "RESPONSE_END" THEN 1 ELSE 0)
    BY <1>2, <2>1, <2>3, TookPeers
  <2>5. Track(r.k, client'[f])
    BY <1>1, <1>2, <2>4, WriteOrder
  <2> DEFINE k == r.k
  <2>6. Round(k) /\ Keeps(con[run.con], k) /\ Track(k, client'[f])
    BY <2>1, <2>3, <2>5
  <2> HIDE DEF k
  <2> QED BY <1>1, <1>2, <1>3, <2>4, <2>6, RoundOrder
<1>5. CASE ~(con[run.con].wq > 0 /\ con[run.con].wr)
  <2>1. Round(con[run.con]) /\ UNCHANGED client
    BY <1>5 DEF Write
  <2>2. Carries(con[run.con], con[run.con])
    BY DEF Carries
  <2> QED BY <1>1, <1>2, <1>3, <2>1, <2>2, RoundCarry
<1> QED BY <1>4, <1>5

(* RESPONSE_END: the answer is counted off and the next request looked for.  *)
LEMMA ResponseEndOrder == ASSUME Inv, OrderInv, ResponseEnd PROVE OrderInv'
<1> DEFINE k == connection_reset(con[run.con])
           fds == BackendFd(con[run.con])
           q == [k EXCEPT !.st = "REQUEST_START"]
<1>1. pc = "machine" /\ con[run.con].st = "RESPONSE_END"
  BY DEF ResponseEnd, In
<1>2. /\ run.con \in Open /\ Good(con[run.con]) /\ IsCon(con[run.con])
      /\ Track(con[run.con], client[con[run.con].fd])
  BY <1>1, InHand
<1>3. Again /\ UNCHANGED events
  BY DEF ResponseEnd, machineRest, loopVars
<1>4. /\ k.rq = con[run.con].rq /\ k.count = con[run.con].count /\ k.backend = "none"
      /\ k.keep_alive = con[run.con].keep_alive
      /\ k.fd = con[run.con].fd /\ DOMAIN k = ConFields
  BY <1>2, ResetKeeps
<1>5. \/ k.keep_alive /\ con' = [con EXCEPT ![run.con] = q] /\ UNCHANGED <<ptr, used, client>>
      \/ ShutdownOrClose(run.con, k, fds)
  BY DEF ResponseEnd
<1>6. CASE k.keep_alive /\ con' = [con EXCEPT ![run.con] = q] /\ UNCHANGED <<ptr, used, client>>
  <2>0. con[run.con].keep_alive
    BY <1>4, <1>6
  <2>1. Track(q, client[con[run.con].fd])
    BY <1>1, <1>2, <2>0, AgainOrder
  <2> HIDE DEF k
  <2>2. q.fd = con[run.con].fd
    BY <1>4 DEF ConFields
  <2>3. PeersKept(run.con) /\ Track(q, client'[con[run.con].fd])
    BY <1>6, <2>1, PeersSame
  <2> HIDE DEF q
  <2> QED BY <1>1, <1>2, <1>3, <1>6, <2>2, <2>3, MachineOrder
<1>7. CASE ShutdownOrClose(run.con, k, fds)
  <2> HIDE DEF k, fds
  <2> QED BY <1>1, <1>2, <1>3, <1>4, <1>7, ShutdownOrder
<1> QED BY <1>5, <1>6, <1>7

(* ERROR: no more answers on this connection.                                *)
LEMMA ErrorOrder == ASSUME Inv, OrderInv, Error PROVE OrderInv'
<1> DEFINE m == connection_reset(con[run.con])
           k == [m EXCEPT !.keep_alive = FALSE]
           fds == BackendFd(con[run.con])
<1>1. pc = "machine" /\ con[run.con].st = "ERROR"
  BY DEF Error, In
<1>2. run.con \in Open /\ Good(con[run.con]) /\ IsCon(con[run.con])
  BY <1>1, InHand
<1>3. ShutdownOrClose(run.con, k, fds) /\ Again /\ UNCHANGED events
  BY DEF Error, machineRest, loopVars
<1>4. /\ m.rq = con[run.con].rq /\ m.count = con[run.con].count /\ m.backend = "none"
      /\ m.fd = con[run.con].fd /\ DOMAIN m = ConFields
  BY <1>2, ResetKeeps
<1> HIDE DEF m
<1>5. /\ k.rq = con[run.con].rq /\ k.count = con[run.con].count /\ k.backend = "none"
      /\ k.fd = con[run.con].fd /\ DOMAIN k = ConFields
  BY <1>4 DEF ConFields
<1> HIDE DEF k, fds
<1> QED BY <1>1, <1>2, <1>3, <1>5, ShutdownOrder

(* A connection that was closed loses what it had read.                      *)
LEMMA ConnectOrder == ASSUME Inv, OrderInv, Connect PROVE OrderInv'
<1> DEFINE c == run.con
           k == [con[c] EXCEPT !.rq = <<>>, !.count = 0]
           q == Interest(k)
<1>1. pc = "machine" /\ con[c].st = "CONNECT" /\ Leave(k)
  BY DEF Connect, In
<1>2. c \in Cons \ Open /\ IsCon(con[c]) /\ DOMAIN con = Cons /\ Open \subseteq Cons
  BY <1>1, OpenType DEF Inv, LoopInv, Core, ConsInv, Good
<1>3. UNCHANGED <<ptr, used, client, events>>
  BY DEF Connect, machineRest, loopVars
<1>4. con' = [con EXCEPT ![c] = q] /\ Open' = Open
  BY <1>1, <1>3 DEF Leave, Open
<1>5. k.rq = <<>> /\ k.count = 0 /\ DOMAIN k = ConFields
  BY <1>2 DEF IsCon, ConFields
<1> HIDE DEF k
<1>6. q.rq = <<>> /\ q.count = 0
  BY <1>5 DEF Interest, ConFields
<1> HIDE DEF q
<1>7. \A d \in Cons : con'[d] = IF d = c THEN q ELSE con[d]
  BY <1>2, <1>4
<1>8. TrackInv'
  <2>1. \A d \in Open : con'[d] = con[d]
    BY <1>2, <1>7
  <2> QED BY <1>3, <1>4, <2>1 DEF OrderInv, TrackInv
<1>9. ClearedInv'
  <2> SUFFICES ASSUME NEW d \in Cons \ Open PROVE Cleared(con'[d])
    BY <1>4 DEF ClearedInv, Cleared
  <2>1. CASE d = c
    BY <1>6, <1>7, <2>1 DEF Cleared
  <2>2. CASE d # c
    BY <1>7, <2>2 DEF OrderInv, ClearedInv
  <2> QED BY <2>1, <2>2
<1>10. ScriptsInv'
  BY <1>3 DEF OrderInv, ScriptsInv
<1>11. AnsweredInv'
  <2>1. <<"con", c>> \notin events
    BY <1>1 DEF Inv, EventsInv
  <2> QED BY <1>3, <1>7, <2>1 DEF OrderInv, AnsweredInv
<1> QED BY <1>8, <1>9, <1>10, <1>11 DEF OrderInv

(* CLOSE: the lingering connection is closed in the end.                     *)
LEMMA CloseStateOrder == ASSUME Inv, OrderInv, Close PROVE OrderInv'
<1> DEFINE k == con[run.con]
           r == FlushOnClose(k)
<1>1. pc = "machine" /\ k.st = "CLOSE"
  BY DEF Close, In
<1>2. /\ run.con \in Open /\ Good(k) /\ IsCon(k) /\ ClientsInv /\ k.fd \in Clients
      /\ IsClient(client[k.fd]) /\ Track(k, client[k.fd])
  BY <1>1, InHand
<1>3. UNCHANGED events
  BY DEF Close, machineRest, loopVars
<1>4. GoodResult(k, r) /\ r.k.st = "CLOSE"
  BY <1>1, <1>2, FlushGood
<1>5. r.k.rq = k.rq /\ r.k.count = k.count /\ r.k.backend = "none"
  <2>1. r.k = k \/ r.k = [k EXCEPT !.age = Expired]
    BY DEF FlushOnClose, Result
  <2>2. k.backend = "none"
    BY <1>1, <1>2 DEF Good, Shape
  <2> HIDE DEF r
  <2> QED BY <1>2, <2>1, <2>2 DEF IsCon, ConFields
<1> HIDE DEF r
<1>6. CASE r.k.age = Expired
  <2> DEFINE q == [r.k EXCEPT !.st = "CONNECT", !.ev = ""]
  <2>1. connection_close(run.con, 0) /\ Round(q)
    BY <1>6 DEF Close, r
  <2>2. q.st = "CONNECT"
    BY <1>4 DEF GoodResult, Keeps, Good, IsCon, ConFields
  <2> HIDE DEF q
  <2>3. con' = [con EXCEPT ![run.con] = q] /\ UNCHANGED <<pc, run>>
    BY <1>1, <2>1, <2>2 DEF Round, Again
  <2>4. Open' = Open \ {run.con}
    BY <1>2, <2>1, DelStep DEF connection_close, Inv, Core
  <2>5. client' = [client EXCEPT ![con[run.con].fd] = Gone]
    BY <2>1 DEF connection_close, Gone
  <2> QED BY <1>1, <1>2, <1>3, <2>3, <2>4, <2>5, CloseOrder
<1>7. CASE r.k.age # Expired
  <2>1. Round(r.k) /\ Took(r) /\ UNCHANGED <<ptr, used>>
    BY <1>7 DEF Close, r
  <2>2. r.k.fd = k.fd /\ Keeps(k, r.k)
    BY <1>4 DEF GoodResult, Keeps
  <2>3. /\ PeersKept(run.con)
        /\ client'[k.fd].answers = client[k.fd].answers + (IF r.k.st = "RESPONSE_END" THEN 1 ELSE 0)
    BY <1>2, <2>1, <2>2, TookPeers
  <2>4. client[k.fd].answers \in Nat /\ k.rq \in Seq(Tokens) /\ k.count \in Nat
    BY <1>2 DEF Track
  <2>5. client'[k.fd].answers \in Nat
    BY <1>4, <2>3, <2>4
  <2>6. Track(r.k, client'[k.fd])
    BY <1>4, <1>5, <2>4, <2>5, TrackIdle
  <2> DEFINE q == r.k
  <2>7. Round(q) /\ Keeps(k, q) /\ Track(q, client'[k.fd])
    BY <2>1, <2>2, <2>6
  <2> HIDE DEF q
  <2> QED BY <1>1, <1>2, <1>3, <2>1, <2>3, <2>7, RoundOrder
<1> QED BY <1>6, <1>7

(* A round of the state machine, in any state.                               *)
LEMMA MachineKeepsOrder == ASSUME Inv, OrderInv, connection_state_machine PROVE OrderInv'
BY RequestStartOrder, ReadStateOrder, RequestEndOrder, HandleDecidedOrder, HandleDirectOrder,
   HandleBackendOrder, HandleWaitingOrder, ResponseStartOrder, WriteStateOrder, ResponseEndOrder,
   ErrorOrder, ConnectOrder, CloseStateOrder DEF connection_state_machine

-----------------------------------------------------------------------------
(* The loop and the environment.                                             *)

(* Phases in which no connection and no peer changes.                        *)
LEMMA PhasesOrder ==
  ASSUME Inv, OrderInv, Sockets \/ FdWait \/ FdWaited \/ ListenEvent \/ AcceptEnds \/ EventsEnd
                        \/ Jobs \/ Sigint \/ Sigterm
  PROVE  OrderInv'
<1>1. pc # "machine" /\ UNCHANGED <<con, client, ptr, used>> /\ events' \subseteq events
  BY DEF Sockets, FdWait, FdWaited, ListenEvent, AcceptEnds, EventsEnd, Jobs, Sigint, Sigterm,
         Handled, loopVars
<1> QED BY <1>1, OrderFrame

(* A second for every connection.                                            *)
LEMMA TopOrder == ASSUME Inv, OrderInv, Top PROVE OrderInv'
<1>1. pc = "top" /\ UNCHANGED <<client, ptr, used, events>>
  BY DEF Top
<1>2. CASE UNCHANGED con
  BY <1>1, <1>2, OrderFrame
<1>3. CASE con' = [c \in Cons |-> Aged(con[c])]
  <2>1. \A c \in Cons : IsCon(con[c])
    BY DEF Inv, Core, ConsInv, Good
  <2>2. ASSUME NEW c \in Cons
        PROVE  /\ Carries(con[c], con'[c]) /\ con'[c].fd = con[c].fd /\ con'[c].st = con[c].st
               /\ con'[c].rq = con[c].rq /\ con'[c].count = con[c].count
    <3>1. con'[c] = Aged(con[c]) /\ IsCon(con[c])
      BY <1>3, <2>1
    <3>2. Carries(con[c], Aged(con[c]))
      BY <3>1, AgedCarries
    <3>3. Aged(con[c]).fd = con[c].fd /\ Aged(con[c]).st = con[c].st
      BY <3>1 DEF IsCon, ConFields, Aged
    <3> QED BY <3>1, <3>2, <3>3 DEF Carries
  <2>3. Open' = Open /\ Open \subseteq Cons
    BY <1>1, OpenType DEF Open, Inv, Core
  <2>4. TrackInv'
    <3> SUFFICES ASSUME NEW d \in Open PROVE Track(con'[d], client'[con'[d].fd])
      BY <2>3 DEF TrackInv
    <3>1. Track(con[d], client[con[d].fd]) /\ SamePeer(client[con[d].fd], client'[con[d].fd])
      BY <1>1 DEF OrderInv, TrackInv, SamePeer
    <3>2. Carries(con[d], con'[d]) /\ con'[d].fd = con[d].fd
      BY <2>2, <2>3
    <3>3. Track(con'[d], client'[con[d].fd])
      BY <3>1, <3>2, TrackKept
    <3> QED BY <3>2, <3>3
  <2>5. ClearedInv' /\ ScriptsInv' /\ AnsweredInv'
    BY <1>1, <2>2, <2>3 DEF OrderInv, ClearedInv, Cleared, ScriptsInv, AnsweredInv
  <2> QED BY <2>4, <2>5 DEF OrderInv
<1> QED BY <1>2, <1>3 DEF Top, Aged

(* A timeout.                                                                *)
LEMMA TriggerOrder == ASSUME Inv, OrderInv, Trigger PROVE OrderInv'
<1>1. pc = "trigger" /\ UNCHANGED <<client, ptr, used, events>>
  BY DEF Trigger
<1>2. CASE tix > used
  <2>1. UNCHANGED con
    BY <1>2 DEF Trigger
  <2> QED BY <1>1, <2>1, OrderFrame
<1>3. CASE ~(tix > used)
  <2>0. ptr[tix] \in Open
    <3>1. tix \in Nat \ {0} /\ used \in Nat
      BY OpenType, SizeType DEF Inv, LoopInv, Core
    <3>2. tix \in 1..used
      BY <1>3, <3>1
    <3> QED BY <3>2 DEF Open
  <2>1. PICK c \in Open : \E t \in Timeouts(con[c]) : con' = [con EXCEPT ![c] = t.k]
    BY <1>3, <2>0 DEF Trigger
  <2>2. PICK t \in Timeouts(con[c]) : con' = [con EXCEPT ![c] = t.k]
    BY <2>1
  <2>3. c \in Cons /\ Good(con[c]) /\ IsCon(con[c]) /\ Track(con[c], client[con[c].fd])
    BY OpenType DEF Inv, Core, ConsInv, Good, OrderInv, TrackInv
  <2>4. Keeps(con[c], t.k) /\ Carries(con[c], t.k)
    BY <2>3, TimeoutsGood, TimeoutsCarry
  <2> DEFINE q == t.k
  <2>5. con' = [con EXCEPT ![c] = q] /\ Carries(con[c], q) /\ q.fd = con[c].fd
    BY <2>2, <2>4 DEF Keeps
  <2> HIDE DEF q
  <2>6. Open' = Open /\ PeersKept(c) /\ SamePeer(client[con[c].fd], client'[con[c].fd])
    BY <1>1, PeersSame DEF Open, SamePeer
  <2>7. Track(q, client'[con[c].fd])
    BY <2>3, <2>5, <2>6, TrackKept
  <2>8. <<"con", c>> \notin events'
    BY <1>1, <2>3 DEF Inv, EventsInv
  <2> QED BY <1>1, <2>5, <2>6, <2>7, <2>8, OrderStep
<1> QED BY <1>2, <1>3

(* At a poll no answer is finished and not yet counted off.                  *)
LEMMA PollOrder == ASSUME Inv, OrderInv, Poll PROVE OrderInv'
<1>1. pc = "poll" /\ UNCHANGED <<con, client, ptr, used>> /\ events' = Ready /\ Open' = Open
  BY DEF Poll, Open
<1>2. TrackInv' /\ ScriptsInv' /\ ClearedInv'
  BY <1>1 DEF OrderInv, TrackInv, ScriptsInv, ClearedInv
<1>3. AnsweredInv'
  <2> SUFFICES ASSUME NEW c \in Cons, <<"con", c>> \in Ready PROVE con[c].st # "RESPONSE_END"
    BY <1>1 DEF AnsweredInv
  <2>1. c \in Open
    BY DEF Ready, ConReady
  <2>2. NobodyForgotten
    BY AttendedAtPoll
  <2> QED BY <1>1, <2>1, <2>2 DEF NobodyForgotten, Stuck
<1> QED BY <1>2, <1>3 DEF OrderInv

(* An event of a connection: it reads, writes or flushes.                    *)
LEMMA FdeventOrder == ASSUME Inv, OrderInv, HandleFdevent PROVE OrderInv'
<1>0. PICK c \in Cons : \E r :
        /\ <<"con", c>> \in events /\ events' = events \ {<<"con", c>>}
        /\ LET k == Woken(c) IN
             r \in IF k.st \in {"READ", "READ_POST"} THEN connection_handle_read_state(k)
                   ELSE IF k.st = "WRITE" /\ k.wq > 0 /\ k.wr THEN connection_handle_write(k)
                   ELSE IF k.st = "CLOSE" THEN {FlushOnClose(k)}
                   ELSE {Result(k, 0, client[k.fd].full, FALSE)}
        /\ con' = [con EXCEPT ![c] = r.k] /\ Took(r)
  BY DEF HandleFdevent, Handled
<1>1. pc = "events" /\ UNCHANGED <<ptr, used>>
  BY DEF HandleFdevent
<1>2. PICK r :
        /\ <<"con", c>> \in events /\ events' = events \ {<<"con", c>>}
        /\ LET k == Woken(c) IN
             r \in IF k.st \in {"READ", "READ_POST"} THEN connection_handle_read_state(k)
                   ELSE IF k.st = "WRITE" /\ k.wq > 0 /\ k.wr THEN connection_handle_write(k)
                   ELSE IF k.st = "CLOSE" THEN {FlushOnClose(k)}
                   ELSE {Result(k, 0, client[k.fd].full, FALSE)}
        /\ con' = [con EXCEPT ![c] = r.k] /\ Took(r)
  BY <1>0
<1> DEFINE f == con[c].fd
           k == Woken(c)
<1>3. /\ c \in Open /\ Good(con[c]) /\ IsCon(con[c]) /\ ClientsInv /\ f \in Clients
      /\ client[f].st = "accepted"
      /\ IsClient(client[f]) /\ Bodies(client[f].script) /\ Track(con[c], client[f])
      /\ con[c].st # "RESPONSE_END"
  BY <1>2 DEF Inv, EventsInv, Core, ConsInv, Good, OwnersInv, ClientsInv, OrderInv, TrackInv,
              ScriptsInv, AnsweredInv
<1>4. Keeps(con[c], k) /\ k.st \in {con[c].st, "ERROR"} /\ Carries(con[c], k)
  BY <1>2, <1>3, WokenGood, WokenCarries
<1>5. GoodResult(con[c], r)
  BY <1>1, <1>2, <1>3, FdeventGood
<1>6. r \in IF k.st \in {"READ", "READ_POST"} THEN connection_handle_read_state(k)
            ELSE IF k.st = "WRITE" /\ k.wq > 0 /\ k.wr THEN connection_handle_write(k)
            ELSE IF k.st = "CLOSE" THEN {FlushOnClose(k)}
            ELSE {Result(k, 0, client[k.fd].full, FALSE)}
  BY <1>2
<1> HIDE DEF k
<1>7. Good(k) /\ k.fd = f /\ Track(k, client[f]) /\ k.st # "RESPONSE_END"
  <2>1. SamePeer(client[f], client[f])
    BY DEF SamePeer
  <2> QED BY <1>3, <1>4, <2>1, TrackKept DEF Keeps
<1>8. r.k.fd = f
  BY <1>5 DEF GoodResult, Keeps
<1>9. /\ PeersKept(c) /\ client'[f].script = client[f].script
      /\ client'[f].read = client[f].read + r.taken
      /\ client'[f].answers = client[f].answers + (IF r.k.st = "RESPONSE_END" THEN 1 ELSE 0)
  BY <1>2, <1>3, <1>8, TookPeers
<1>10. client[f].answers \in Nat /\ client[f].read \in Nat /\ k.rq \in Seq(Tokens) /\ k.count \in Nat
  BY <1>3, <1>7 DEF Track, IsClient
<1>11. Track(r.k, client'[f])
  <2>1. CASE k.st \in {"READ", "READ_POST"}
    <3>1. r \in connection_handle_read_state(k)
      BY <1>6, <2>1
    <3>2. r.k.st # "RESPONSE_END"
      BY <1>3, <1>7, <2>1, <3>1, ReadGood DEF Calm
    <3>3. client'[f].answers = client[f].answers
      BY <1>9, <1>10, <3>2
    <3>4. IsClient(client'[f])
      <4>1. ClientsKept
        BY <1>2, <1>3, <1>5, TookKept
      <4> QED BY <1>3, <4>1 DEF ClientsKept
    <3>5. k.fd \in Clients /\ IsClient(client[k.fd]) /\ Track(k, client[k.fd]) /\ Good(k)
          /\ Bodies(client[k.fd].script)
          /\ client'[f].script = client[k.fd].script /\ client'[f].read = client[k.fd].read + r.taken
          /\ client'[f].answers = client[k.fd].answers
      BY <1>3, <1>7, <1>9, <3>3
    <3> QED BY <2>1, <3>1, <3>4, <3>5, ReadOrder
  <2>2. CASE k.st = "WRITE" /\ k.wq > 0 /\ k.wr
    <3>1. r \in connection_handle_write(k)
      BY <1>6, <2>2
    <3>2. client[f] = client[k.fd] /\ k.st = "WRITE" /\ IsClient(client[f])
      BY <1>3, <1>7, <2>2
    <3> QED BY <1>7, <1>9, <3>1, <3>2, WriteOrder
  <2>3. CASE k.st = "CLOSE"
    <3>1. r = FlushOnClose(k)
      BY <1>6, <2>3
    <3>2. r.k = k \/ r.k = [k EXCEPT !.age = Expired]
      BY <3>1 DEF FlushOnClose, Result
    <3>3. k.backend = "none" /\ IsCon(k)
      BY <1>7, <2>3 DEF Good, Shape
    <3>4. r.k.rq = k.rq /\ r.k.count = k.count /\ r.k.backend = "none" /\ r.k.st = "CLOSE"
      BY <2>3, <3>2, <3>3 DEF IsCon, ConFields
    <3>5. client'[f].answers \in Nat
      BY <1>9, <1>10, <3>4
    <3> QED BY <1>10, <3>4, <3>5, TrackIdle
  <2>4. CASE r = Result(k, 0, client[k.fd].full, FALSE)
    <3>1. r.k = k /\ r.taken = 0
      BY <2>4 DEF Result
    <3>2. SamePeer(client[f], client'[f])
      <4>1. client'[f].read = client[f].read /\ client'[f].answers = client[f].answers
        BY <1>7, <1>9, <1>10, <3>1
      <4> QED BY <1>9, <4>1 DEF SamePeer
    <3>3. Carries(k, k)
      BY DEF Carries
    <3> QED BY <1>7, <3>1, <3>2, <3>3, TrackKept
  <2> QED BY <1>6, <2>1, <2>2, <2>3, <2>4
<1>12. Open' = Open /\ <<"con", c>> \notin events' /\ events' \subseteq events
  BY <1>1, <1>2 DEF Open
<1> DEFINE q == r.k
<1>13. con' = [con EXCEPT ![c] = q] /\ q.fd = con[c].fd /\ Track(q, client'[con[c].fd])
  BY <1>2, <1>8, <1>11
<1> HIDE DEF q
<1> QED BY <1>1, <1>3, <1>9, <1>12, <1>13, OrderStep

(* An event of a backend, and the backend that causes it.                    *)
LEMMA BackendsOrder ==
  ASSUME Inv, OrderInv, BackendEvent \/ \E c \in Cons : BackendAnswers(c)
  PROVE  OrderInv'
<1>1. pc \in {"events", "poll"} /\ UNCHANGED <<ptr, used, client>> /\ events' \subseteq events
  BY DEF BackendEvent, BackendAnswers, Handled, serverVars, loopVars
<1>2. \E c \in Cons : /\ con[c].backend \in {"busy", "started"}
                      /\ \E q : /\ q \in BackendStep(con[c]) \/ q = [con[c] EXCEPT !.answer = TRUE]
                                /\ con' = [con EXCEPT ![c] = q]
  <2>1. CASE BackendEvent
    <3>1. PICK c \in Cons : /\ <<"backend", c>> \in events
                            /\ \E k \in BackendStep(con[c]) : con' = [con EXCEPT ![c] = k]
      BY <2>1 DEF BackendEvent
    <3>2. con[c].backend \in {"busy", "started"}
      BY <3>1 DEF Inv, EventsInv
    <3> QED BY <3>1, <3>2
  <2>2. CASE \E c \in Cons : BackendAnswers(c)
    <3>1. PICK c \in Cons : BackendAnswers(c)
      BY <2>2
    <3> DEFINE q == [con[c] EXCEPT !.answer = TRUE]
    <3>2. con' = [con EXCEPT ![c] = q] /\ q = [con[c] EXCEPT !.answer = TRUE]
          /\ con[c].backend \in {"busy", "started"}
      BY <3>1 DEF BackendAnswers
    <3> HIDE DEF q
    <3> QED BY <3>2
  <2> QED BY <2>1, <2>2
<1>3. PICK c \in Cons : /\ con[c].backend \in {"busy", "started"}
                        /\ \E q : /\ q \in BackendStep(con[c]) \/ q = [con[c] EXCEPT !.answer = TRUE]
                                  /\ con' = [con EXCEPT ![c] = q]
  BY <1>2
<1>4. PICK q : /\ q \in BackendStep(con[c]) \/ q = [con[c] EXCEPT !.answer = TRUE]
               /\ con' = [con EXCEPT ![c] = q]
  BY <1>3
<1>5. c \in Open /\ Good(con[c]) /\ IsCon(con[c])
  BY <1>3 DEF Inv, Core, ConsInv, Good, Shape
<1>6. Carries(con[c], q) /\ q.fd = con[c].fd /\ (q.st = "RESPONSE_END" => con[c].st = "RESPONSE_END")
  <2>1. CASE q \in BackendStep(con[c])
    BY <1>3, <1>5, <2>1, BackendCarries, BackendGood
  <2>2. CASE q = [con[c] EXCEPT !.answer = TRUE]
    BY <1>5, <2>2 DEF Carries, IsCon, ConFields
  <2> QED BY <1>4, <2>1, <2>2
<1>7. Open' = Open /\ PeersKept(c) /\ SamePeer(client[con[c].fd], client'[con[c].fd])
  BY <1>1, PeersSame DEF Open, SamePeer
<1>8. Track(con[c], client[con[c].fd])
  BY <1>5 DEF OrderInv, TrackInv
<1>9. Track(q, client'[con[c].fd])
  BY <1>6, <1>7, <1>8, TrackKept
<1>10. <<"con", c>> \in events' => q.st # "RESPONSE_END"
  BY <1>1, <1>6 DEF OrderInv, AnsweredInv
<1> QED BY <1>1, <1>4, <1>5, <1>6, <1>7, <1>9, <1>10, OrderStep

(* A new connection has read and answered nothing.                           *)
LEMMA AcceptOrder == ASSUME Inv, OrderInv, connection_accept PROVE OrderInv'
<1> DEFINE c == connections_get_new_connection
           k == connection_reset(con[c])
<1>0. pc = "accept" /\ Core /\ used < MaxConns
  BY DEF Inv, connection_accept
<1>1. c \in Cons \ Open
  BY <1>0, NewConnection
<1> HIDE DEF c
<1>2. PICK p \in Arriving :
        /\ con' = [con EXCEPT ![c] = [connection_reset(@) EXCEPT !.st = "REQUEST_START", !.fd = p, !.ev = ""]]
        /\ client' = [client EXCEPT ![p].st = "accepted"]
        /\ used' = used + 1 /\ cur_fds' = cur_fds + 1
  BY DEF connection_accept, c
<1>3. UNCHANGED <<ptr, events>>
  BY DEF connection_accept, loopVars
<1> DEFINE q == [k EXCEPT !.st = "REQUEST_START", !.fd = p, !.ev = ""]
<1>4. con' = [con EXCEPT ![c] = q] /\ p \in Clients /\ client[p].st = "connecting"
  BY <1>2 DEF Arriving
<1>5. Good(con[c]) /\ IsCon(con[c]) /\ con[c].st = "CONNECT"
  BY <1>0, <1>1 DEF Core, ConsInv, Good
<1>6. k.rq = con[c].rq /\ k.count = con[c].count /\ k.req = "none"
  BY <1>5, ResetKeeps
<1>7. IsCon(k) /\ k.backend = "none" /\ k.mode = "DIRECT" /\ k.wr
  BY <1>5, ResetGood
<1> HIDE DEF k
<1>8. /\ q.st = "REQUEST_START" /\ q.fd = p /\ q.backend = "none" /\ q.mode = "DIRECT" /\ q.wr
      /\ q.rq = k.rq /\ q.count = k.count /\ q.req = "none" /\ IsCon(q)
  BY <1>4, <1>6, <1>7 DEF IsCon, ConFields, States
<1> HIDE DEF q
<1>9. Good(q) /\ BackendFd(q) = 0
  BY <1>8, ClearedGood
<1>10. Core' /\ Open' = Open \cup {c}
  BY <1>0, <1>2, <1>3, <1>4, <1>8, <1>9, AcceptStep DEF c
<1>11. DOMAIN con = Cons /\ \A d \in Cons : con'[d] = IF d = c THEN q ELSE con[d]
  BY <1>0, <1>1, <1>4 DEF Core, ConsInv
<1>12. q.rq = <<>> /\ q.count = 0
  BY <1>0, <1>1, <1>6, <1>8 DEF OrderInv, ClearedInv, Cleared
<1>13. /\ IsClient(client[p]) /\ DOMAIN client = Clients /\ client[p].answers = 0 /\ client[p].read = 0
       /\ Bodies(client[p].script)
  BY <1>0, <1>4 DEF Core, ClientsInv, OrderInv, ScriptsInv
<1> DEFINE e == [client[p] EXCEPT !.st = "accepted"]
<1>14. /\ e.st = "accepted" /\ e.script = client[p].script /\ e.read = 0 /\ e.answers = 0
       /\ client' = [client EXCEPT ![p] = e]
  BY <1>2, <1>13 DEF IsClient, ClientFields
<1> HIDE DEF e
<1>15. \A o \in Clients : client'[o] = IF o = p THEN e ELSE client[o]
  BY <1>13, <1>14
<1>16. TrackInv'
  <2> SUFFICES ASSUME NEW d \in Open \cup {c} PROVE Track(con'[d], client'[con'[d].fd])
    BY <1>10 DEF TrackInv
  <2>1. CASE d = c
    <3>1. con'[d] = q /\ client'[con'[d].fd] = e
      BY <1>1, <1>4, <1>8, <1>11, <1>15, <2>1
    <3>2. q.rq \in Seq(Tokens) /\ q.count \in Nat /\ e.answers \in Nat /\ Len(q.rq) = 0
          /\ e.read - Len(q.rq) = 0 /\ Len(q.rq) <= e.read /\ 1..Len(q.rq) = {}
      <4>1. q.rq \in Seq(Tokens) /\ Len(q.rq) = 0
        BY <1>12
      <4>2. q.count \in Nat /\ e.answers \in Nat
        BY <1>12, <1>14
      <4> DEFINE n == Len(q.rq)
      <4>3. n = 0 /\ e.read = 0
        BY <1>14, <4>1
      <4> HIDE DEF n
      <4>4. e.read - n = 0 /\ n <= e.read /\ 1..n = {}
        BY <4>3
      <4> QED BY <4>1, <4>2, <4>4 DEF n
    <3>3. Position(q, e) = 0
      BY <3>2 DEF Position
    <3>4. InQueue(q, e)
      BY <3>2 DEF InQueue
    <3>5. Requests(e.script, 0) = 0
      BY NoRequests
    <3>6. AtRequest(e.script, 0)
      <4>1. ASSUME 0 < Len(e.script) PROVE e.script[0 + 1] # "body"
        <5>1. e.script \in Seq(Tokens) /\ Len(e.script) \in Nat
          BY <1>13, <1>14 DEF IsClient
        <5>2. 1 \in 1..Len(e.script) /\ 0 + 1 = 1 /\ ~(1 > 1)
          BY <4>1, <5>1
        <5> QED BY <1>13, <1>14, <5>2 DEF Bodies
      <4> QED BY <4>1 DEF AtRequest
    <3>7. NextRequest(q, e, q.count)
      BY <1>12, <3>3, <3>4, <3>5, <3>6 DEF NextRequest
    <3>8. Track(q, e)
      BY <1>8, <1>12, <1>14, <3>2, <3>7 DEF Track, Serving
    <3> QED BY <3>1, <3>8
  <2>2. CASE d # c
    <3>1. d \in Open /\ d \in Cons /\ con'[d] = con[d]
      BY <1>0, <1>11, <2>2, OpenType DEF Core
    <3>2. con[d].fd \in Clients /\ con[d].fd # p
      BY <1>0, <1>4, <3>1 DEF Core, OwnersInv
    <3>3. client'[con[d].fd] = client[con[d].fd] /\ Track(con[d], client[con[d].fd])
      BY <1>15, <3>1, <3>2 DEF OrderInv, TrackInv
    <3> QED BY <3>1, <3>3
  <2> QED BY <2>1, <2>2
<1>17. ClearedInv'
  BY <1>0, <1>10, <1>11 DEF OrderInv, ClearedInv, Cleared
<1>18. ScriptsInv'
  BY <1>13, <1>14, <1>15 DEF OrderInv, ScriptsInv
<1>19. AnsweredInv'
  BY <1>3, <1>8, <1>11 DEF OrderInv, AnsweredInv
<1> QED BY <1>16, <1>17, <1>18, <1>19 DEF OrderInv

(* Peers connect, send, receive and end.                                     *)
LEMMA PeersOrder ==
  ASSUME Inv, OrderInv, NEW p \in Clients,
         ClientConnect(p) \/ ClientSends(p) \/ ClientReceives(p) \/ ClientEnds(p)
  PROVE  OrderInv'
<1>0. /\ pc = "poll" /\ IsClient(client[p]) /\ DOMAIN client = Clients /\ DOMAIN client[p] = ClientFields
  BY DEF Inv, Core, ClientsInv, IsClient, ClientConnect, ClientSends, ClientReceives, ClientEnds
<1>1. UNCHANGED <<con, ptr, used, events>>
  BY DEF ClientConnect, ClientSends, ClientReceives, ClientEnds, serverVars, loopVars
<1>2. \E q : /\ client' = [client EXCEPT ![p] = q] /\ Bodies(q.script)
             /\ q.st \in {"away", "connecting"} => q.answers = 0 /\ q.read = 0
             /\ client[p].st = "accepted" => SamePeer(client[p], q)
  <2>0. /\ Bodies(client[p].script)
        /\ client[p].st \in {"away", "connecting"} => client[p].answers = 0 /\ client[p].read = 0
    BY DEF OrderInv, ScriptsInv
  <2>1. CASE ClientConnect(p)
    <3>1. PICK s \in Scripts[p] : \E n \in {0, 1} \cap (0..Len(s)) :
            client' = [client EXCEPT ![p].st = "connecting", ![p].script = s, ![p].sent = n]
      BY <2>1 DEF ClientConnect
    <3>1a. PICK n \in {0, 1} \cap (0..Len(s)) :
            client' = [client EXCEPT ![p].st = "connecting", ![p].script = s, ![p].sent = n]
      BY <3>1
    <3> DEFINE q == [client[p] EXCEPT !.st = "connecting", !.script = s, !.sent = n]
    <3>2. client' = [client EXCEPT ![p] = q] /\ client[p].st = "away"
      BY <2>1, <3>1a DEF ClientConnect
    <3>3. q.script = s /\ q.read = client[p].read /\ q.answers = client[p].answers
      BY <1>0 DEF ClientFields
    <3>4. Bodies(s)
      BY ScriptsAssumption DEF Bodies
    <3> HIDE DEF q
    <3> QED BY <2>0, <3>2, <3>3, <3>4
  <2>2. CASE ClientSends(p)
    <3> DEFINE q == [client[p] EXCEPT !.sent = @ + 1]
    <3>1. client' = [client EXCEPT ![p] = q]
      BY <2>2 DEF ClientSends
    <3>2. SamePeer(client[p], q) /\ q.st = client[p].st
      BY <1>0 DEF ClientFields, SamePeer
    <3> HIDE DEF q
    <3> QED BY <2>0, <3>1, <3>2 DEF SamePeer
  <2>3. CASE ClientReceives(p)
    <3> DEFINE q == [client[p] EXCEPT !.full = FALSE]
    <3>1. client' = [client EXCEPT ![p] = q]
      BY <2>3 DEF ClientReceives
    <3>2. SamePeer(client[p], q) /\ q.st = client[p].st
      BY <1>0 DEF ClientFields, SamePeer
    <3> HIDE DEF q
    <3> QED BY <2>0, <3>1, <3>2 DEF SamePeer
  <2>4. CASE ClientEnds(p)
    <3>1. PICK f \in {"eof", "reset"} : client' = [client EXCEPT ![p].fin = f]
      BY <2>4 DEF ClientEnds
    <3> DEFINE q == [client[p] EXCEPT !.fin = f]
    <3>2. client' = [client EXCEPT ![p] = q]
      BY <3>1
    <3>3. SamePeer(client[p], q) /\ q.st = client[p].st
      BY <1>0 DEF ClientFields, SamePeer
    <3> HIDE DEF q
    <3> QED BY <2>0, <3>2, <3>3 DEF SamePeer
  <2> QED BY <2>1, <2>2, <2>3, <2>4
<1>3. PICK q : /\ client' = [client EXCEPT ![p] = q] /\ Bodies(q.script)
               /\ q.st \in {"away", "connecting"} => q.answers = 0 /\ q.read = 0
               /\ client[p].st = "accepted" => SamePeer(client[p], q)
  BY <1>2
<1>4. \A o \in Clients : client'[o] = IF o = p THEN q ELSE client[o]
  BY <1>0, <1>3
<1>5. Open' = Open
  BY <1>1 DEF Open
<1>6. TrackInv'
  <2> SUFFICES ASSUME NEW d \in Open PROVE Track(con[d], client'[con[d].fd])
    BY <1>1, <1>5 DEF TrackInv
  <2>1. con[d].fd \in Clients /\ client[con[d].fd].st = "accepted" /\ Track(con[d], client[con[d].fd])
    BY DEF Inv, Core, OwnersInv, OrderInv, TrackInv
  <2>2. SamePeer(client[con[d].fd], client'[con[d].fd])
    <3>1. CASE con[d].fd = p
      BY <1>3, <1>4, <2>1, <3>1
    <3>2. CASE con[d].fd # p
      BY <1>4, <2>1, <3>2 DEF SamePeer
    <3> QED BY <3>1, <3>2
  <2>3. Carries(con[d], con[d])
    BY DEF Carries
  <2> QED BY <2>1, <2>2, <2>3, TrackKept
<1>7. ClearedInv' /\ AnsweredInv'
  BY <1>0, <1>1, <1>5 DEF OrderInv, ClearedInv, AnsweredInv
<1>8. ScriptsInv'
  BY <1>3, <1>4 DEF OrderInv, ScriptsInv
<1> QED BY <1>6, <1>7, <1>8 DEF OrderInv

(* Every step keeps the order.                                               *)
LEMMA NextOrder == ASSUME Inv, OrderInv, [Next]_vars PROVE OrderInv'
<1>1. CASE Server
  BY <1>1, PhasesOrder, TopOrder, TriggerOrder, PollOrder, FdeventOrder, BackendsOrder, AcceptOrder,
     MachineKeepsOrder DEF Server
<1>2. CASE Environment
  BY <1>2, PhasesOrder, PeersOrder, BackendsOrder DEF Environment
<1>3. CASE UNCHANGED vars
  <2>1. UNCHANGED <<pc, run, con, client, ptr, used>> /\ events' \subseteq events
    BY <1>3 DEF vars, loopVars
  <2> QED BY <2>1, OrderFrame
<1> QED BY <1>1, <1>2, <1>3 DEF Next

(* Nothing is read, asked or answered at the start.                          *)
LEMMA InitOrder == ASSUME Init PROVE OrderInv
<1>1. /\ used = 0 /\ con = [c \in Cons |-> Blank] /\ events = {}
      /\ client = [p \in Clients |-> [st |-> "away", script |-> <<>>, sent |-> 0, read |-> 0,
                                      fin |-> "no", full |-> FALSE, answers |-> 0]]
  BY DEF Init
<1>2. Open = {}
  <2>1. 1..used = {}
    BY <1>1
  <2> QED BY <2>1 DEF Open
<1>3. ClearedInv
  BY <1>1 DEF ClearedInv, Cleared, Blank
<1>4. ScriptsInv
  <2>1. \A p \in Clients : client[p].script = <<>> /\ client[p].answers = 0 /\ client[p].read = 0
    BY <1>1
  <2>2. Bodies(<<>>)
    <3>1. 1..Len(<<>>) = {}
      OBVIOUS
    <3> QED BY <3>1 DEF Bodies
  <2> QED BY <2>1, <2>2 DEF ScriptsInv
<1>5. TrackInv /\ AnsweredInv
  BY <1>1, <1>2 DEF TrackInv, AnsweredInv
<1> QED BY <1>3, <1>4, <1>5 DEF OrderInv

(* What is tracked says that answers and requests match.                     *)
LEMMA OrderIsAnswered == ASSUME Inv, OrderInv PROVE AnsweredInOrder
<1> SUFFICES ASSUME NEW c \in Open
             PROVE  LET k == con[c]  p == k.fd IN
                    /\ k.st \in {"REQUEST_END", "READ_POST", "HANDLE_REQUEST", "RESPONSE_START", "WRITE"} =>
                         /\ client[p].answers = k.count - 1
                         /\ k.req # "none" => IsRequest(client[p].script, k.count, k.req)
                    /\ k.st \in {"RESPONSE_END", "REQUEST_START"} => client[p].answers = k.count
  BY DEF AnsweredInOrder
<1> DEFINE k == con[c]
           p == client[k.fd]
<1>1. Track(k, p) /\ IsClient(p) /\ Bodies(p.script)
  BY DEF OrderInv, TrackInv, ScriptsInv, Inv, Core, OwnersInv, ClientsInv
<1> HIDE DEF k, p
<1>2. k.count \in Nat /\ p.answers \in Nat
  BY <1>1 DEF Track
<1>3. p.answers + 1 = k.count => p.answers = k.count - 1
  BY <1>2
<1>4. CASE k.st \in {"REQUEST_END", "READ_POST"}
  <2>1. Parsing(k, p)
    BY <1>1, <1>4 DEF Track
  <2>2. IsRequest(p.script, k.count, k.req) /\ p.answers + 1 = k.count
    BY <1>1, <2>1, AfterRequest DEF Parsing
  <2> QED BY <1>3, <1>4, <2>2 DEF k, p
<1>5. CASE k.st \in Serving
  <2>1. Served(k, p)
    BY <1>1, <1>5 DEF Track
  <2> QED BY <1>3, <1>5, <2>1 DEF Serving, Served, k, p
<1>6. k.st \in {"RESPONSE_END", "REQUEST_START"} => p.answers = k.count
  BY <1>1 DEF Track
<1> QED BY <1>4, <1>5, <1>6 DEF Serving, k, p

(* A connection answers the requests of its peer once each and in order, and *)
(* never takes a body for a request, however they arrive, whatever time,     *)
(* backends and other connections do in between.                             *)
THEOREM AnswersInOrder == Spec => []AnsweredInOrder
<1>1. Init => OrderInv
  BY InitOrder
<1>2. Inv /\ OrderInv /\ [Next]_vars => OrderInv'
  BY NextOrder
<1>3. Inv /\ OrderInv => AnsweredInOrder
  BY OrderIsAnswered
<1> QED BY <1>1, <1>2, <1>3, Invariance, PTL DEF Spec

=============================================================================
