---------------------------- MODULE NodeApiProofs ----------------------------
(***************************************************************************)
(* Proof that the JS objects and the worker's agree once both are quiet,   *)
(* for any number of Transports, Producers and Consumers and whatever the  *)
(* application closes while creations are under way.  Nothing of this      *)
(* holds while messages are on their way: the invariant says of each       *)
(* object on which side it is and which message will settle the rest.      *)
(***************************************************************************)
EXTENDS NodeApi, TLAPS

(***************************************************************************)
(* What a queue holds, and in which order.                                 *)
(***************************************************************************)

Holds(q, S) == \E i \in 1..Len(q) : q[i] \in S

Once(q, S) == \A i, j \in 1..Len(q) : q[i] \in S /\ q[j] \in S => i = j

\* Before each of R there is one of S.
Led(q, S, R) ==
    \A j \in 1..Len(q) : q[j] \in R => \E i \in 1..Len(q) : i < j /\ q[i] \in S

(***************************************************************************)
(* The messages.                                                           *)
(***************************************************************************)

Ids == Producers \cup Consumers

ProduceRequest(t, p) == [method |-> "produce", transport |-> t, id |-> p]
ConsumeRequest(t, c, p) == [method |-> "consume", transport |-> t, id |-> c, producer |-> p]
ProducerClosing(t, p) == [method |-> "closeProducer", transport |-> t, id |-> p]
ConsumerClosing(t, c) == [method |-> "closeConsumer", transport |-> t, id |-> c]
TransportsClosing(ts) == [method |-> "closeTransports", transports |-> ts]
RouterClosing == [method |-> "closeRouter"]

\* The requests that create i, and those that close the Transport t.
Creations(i) ==
    {ProduceRequest(t, i) : t \in Transports} \cup {ConsumeRequest(t, i, p) : t \in Transports, p \in Producers}

Closings(t) == {TransportsClosing(ts) : ts \in {x \in SUBSET Transports : t \in x}} \cup {RouterClosing}

Requests ==
    {ProduceRequest(t, p) : t \in Transports, p \in Producers}
    \cup {ConsumeRequest(t, c, p) : t \in Transports, c \in Consumers, p \in Producers}
    \cup {ProducerClosing(t, p) : t \in Transports, p \in Producers}
    \cup {ConsumerClosing(t, c) : t \in Transports, c \in Consumers}
    \cup {TransportsClosing(ts) : ts \in SUBSET Transports}
    \cup {RouterClosing}

Answer(i, outcome) == [kind |-> "response", id |-> i, accepted |-> outcome]
Answers(i) == {Answer(i, TRUE), Answer(i, FALSE)}
Note(c) == [kind |-> "producerclose", id |-> c]

Replies == (UNION {Answers(i) : i \in Ids}) \cup {Note(c) : c \in Consumers}

Task(i, outcome) == [id |-> i, accepted |-> outcome]
Tasks(i) == {Task(i, TRUE), Task(i, FALSE)}

(***************************************************************************)
(* The inductive invariant.                                                *)
(***************************************************************************)

Typed ==
    /\ transport \in [Transports -> {"open", "closed"}]
    /\ producer \in [Producers -> Statuses]
    /\ consumer \in [Consumers -> Statuses]
    /\ producerTransport \in [Producers -> Transports \cup {None}]
    /\ consumerTransport \in [Consumers -> Transports \cup {None}]
    /\ consumed \in [Consumers -> Producers \cup {None}]
    /\ routerProducers \subseteq Producers
    /\ closeEvent \in [Consumers -> {None, "close", "transportclose", "producerclose"}]
    /\ sents \subseteq Ids
    /\ requests \in Seq(Requests) /\ replies \in Seq(Replies)
    /\ microtasks \in Seq(UNION {Tasks(i) : i \in Ids}) /\ immediates \in Seq(Consumers)
    /\ wTransports \subseteq Transports
    /\ wProduced \subseteq Transports \X Producers
    /\ wConsumed \subseteq Transports \X Consumers \X Producers
    /\ workerRunning \in BOOLEAN /\ channelClosed \in BOOLEAN /\ routerClosed \in BOOLEAN
    /\ workerRunning => ~channelClosed
    /\ \A p \in routerProducers : producer[p] \in {"open", "closed"}
    /\ \A p \in Producers : producer[p] # "none" => producerTransport[p] \in Transports
    /\ \A c \in Consumers : consumer[c] # "none" => consumerTransport[c] \in Transports /\ consumed[c] \in Producers

Status(i) == IF i \in Producers THEN producer[i] ELSE consumer[i]

\* A creation is under way exactly while its promise or its continuation is.
PromisesKept ==
    \A i \in Ids :
        /\ i \in sents \/ Holds(microtasks, Tasks(i)) <=> Status(i) = "pending"
        /\ i \in sents => ~Holds(microtasks, Tasks(i))
        /\ Once(microtasks, Tasks(i))

\* A Consumer that a notification is about was asked for.
NotesKnown ==
    \A c \in Consumers : Holds(replies, {Note(c)}) \/ Holds(immediates, {c}) => consumer[c] # "none"

\* While the worker runs, a creation that is not answered is a request or a response.
AskedOnce ==
    \A i \in Ids :
        /\ Once(requests, Creations(i)) /\ Once(replies, Answers(i))
        /\ Holds(requests, Creations(i)) => i \in sents /\ ~Holds(replies, Answers(i))
        /\ Holds(replies, Answers(i)) => i \in sents

AskedAsKnown ==
    /\ \A t \in Transports, p \in Producers : Holds(requests, {ProduceRequest(t, p)}) => producerTransport[p] = t
    /\ \A t \in Transports, c \in Consumers, p \in Producers :
          Holds(requests, {ConsumeRequest(t, c, p)}) => consumerTransport[c] = t /\ consumed[c] = p

TransportsAgree ==
    \A t \in Transports : transport[t] = "open" <=> t \in wTransports /\ ~Holds(requests, Closings(t))

\* i is open in JS, or will be.
Living(i) ==
    \/ Status(i) = "open"
    \/ Holds(replies, {Answer(i, TRUE)})
    \/ Holds(microtasks, {Task(i, TRUE)})

ProducerAgrees(t, p) ==
    /\ <<t, p>> \in wProduced =>
          /\ t \in wTransports /\ producerTransport[p] = t /\ producer[p] # "none"
          /\ Living(p) \/ Holds(requests, {ProducerClosing(t, p)}) \/ Holds(requests, Closings(t))
    /\ Living(p) /\ producerTransport[p] = t /\ transport[t] = "open" => <<t, p>> \in wProduced
    /\ Holds(requests, {ProducerClosing(t, p)}) => producer[p] = "closed"

ProducersAgree == \A t \in Transports, p \in Producers : ProducerAgrees(t, p)

Noted(c) == Holds(replies, {Note(c)}) \/ Holds(immediates, {c})

ConsumerAgrees(t, c, p) ==
    /\ <<t, c, p>> \in wConsumed =>
          /\ t \in wTransports /\ consumerTransport[c] = t /\ consumed[c] = p /\ consumer[c] # "none"
          /\ ~Noted(c) /\ (c \in sents => Holds(replies, Answers(c)))
          /\ Living(c) \/ Holds(requests, {ConsumerClosing(t, c)}) \/ Holds(requests, Closings(t))
    /\ Living(c) /\ consumerTransport[c] = t /\ consumed[c] = p /\ transport[t] = "open"
          => <<t, c, p>> \in wConsumed \/ Noted(c)
    /\ Holds(requests, {ConsumerClosing(t, c)}) => consumer[c] = "closed"

ConsumersAgree == \A t \in Transports, c \in Consumers, p \in Producers : ConsumerAgrees(t, c, p)

\* A Consumer is notified after its creation was answered.
NotesFollow ==
    \A c \in Consumers :
        /\ c \in sents => Led(replies, Answers(c), {Note(c)})
        /\ Holds(immediates, {c}) => c \notin sents

Agreement ==
    AskedOnce /\ AskedAsKnown /\ TransportsAgree /\ ProducersAgree /\ ConsumersAgree /\ NotesFollow

NodeInv ==
    /\ Typed /\ PromisesKept /\ NotesKnown /\ RouterKnowsProducers
    /\ workerRunning => Agreement

(***************************************************************************)
(* Facts about queues.                                                     *)
(***************************************************************************)

\* r is the queue q of messages of T with x put at the end.
IsAdded(r, q, x, T) ==
    /\ r \in Seq(T) /\ r # << >>
    /\ \A S : Holds(r, S) <=> Holds(q, S) \/ x \in S
    /\ \A S : Once(r, S) <=> Once(q, S) /\ (x \in S => ~Holds(q, S))
    /\ \A S, R : Led(r, S, R) <=> Led(q, S, R) /\ (x \in R => Holds(q, S))

\* r is the queue q of messages of T without its first one, x.
IsTaken(r, q, x, T) ==
    /\ r \in Seq(T) /\ x \in T
    /\ \A S : Holds(q, S) <=> x \in S \/ Holds(r, S)
    /\ \A S : Once(q, S) => Once(r, S) /\ (x \in S => ~Holds(r, S))
    /\ \A S, R : Led(q, S, R) /\ x \notin S => Led(r, S, R) /\ x \notin R

\* r is the queue q of messages of T with those of N put at the end, each once.
IsJoined(r, q, N, T) ==
    /\ r \in Seq(T)
    /\ \A S : Holds(r, S) <=> Holds(q, S) \/ \E x \in N : x \in S
    /\ \A S : /\ Once(q, S) /\ \A x, y \in N : x \in S /\ y \in S => x = y
              /\ Holds(q, S) => \A x \in N : x \notin S
              => Once(r, S)
    /\ \A S, R : Led(q, S, R) /\ (Holds(q, S) \/ \A x \in N : x \notin R) => Led(r, S, R)

\* Append() does so.
LEMMA Added ==
    ASSUME NEW T, NEW q \in Seq(T), NEW x \in T
    PROVE  IsAdded(Append(q, x), q, x, T)
<1> DEFINE r == Append(q, x)
           n == Len(q)
<1>1. /\ n \in Nat /\ Len(r) = n + 1 /\ r[n + 1] = x
      /\ \A i \in 1..n : r[i] = q[i]
      /\ r \in Seq(T) /\ r # << >>
  OBVIOUS
<1>2. \A i : i \in 1..(n + 1) <=> i \in 1..n \/ i = n + 1
  BY <1>1
<1> HIDE DEF r, n
<1>3. \A S : Holds(r, S) <=> Holds(q, S) \/ x \in S
  BY <1>1, <1>2, Zenon DEF Holds, n
<1>4. \A S : Once(r, S) <=> Once(q, S) /\ (x \in S => ~Holds(q, S))
  BY <1>1, <1>2 DEF Holds, Once, n
<1>5. \A S, R : Led(r, S, R) <=> Led(q, S, R) /\ (x \in R => Holds(q, S))
  BY <1>1, <1>2, SMTT(60) DEF Led, Holds, n
<1> QED BY <1>1, <1>3, <1>4, <1>5, Zenon DEF r, IsAdded

\* Tail() does so.
LEMMA Taken ==
    ASSUME NEW T, NEW q \in Seq(T), q # << >>
    PROVE  IsTaken(Tail(q), q, Head(q), T)
<1> DEFINE r == Tail(q)
           x == Head(q)
           n == Len(r)
<1>1. /\ n \in Nat /\ Len(q) = n + 1 /\ x = q[1]
      /\ \A i \in 1..n : r[i] = q[i + 1]
      /\ r \in Seq(T) /\ x \in T
  OBVIOUS
<1> HIDE DEF r, x, n
<1>2. /\ \A i \in 1..n : i + 1 \in 1..Len(q)
      /\ 1 \in 1..Len(q)
      /\ \A i \in 1..Len(q) : i = 1 \/ \E j \in 1..n : i = j + 1
  <2>1. \A i \in 1..Len(q) : i # 1 => i - 1 \in 1..n /\ i = (i - 1) + 1
    BY <1>1
  <2> QED BY <1>1, <2>1
<1>3. \A S : Holds(q, S) <=> x \in S \/ Holds(r, S)
  <2>1. ASSUME NEW S, Holds(q, S) PROVE x \in S \/ Holds(r, S)
    <3>1. PICK i \in 1..Len(q) : q[i] \in S
      BY <2>1 DEF Holds
    <3>2. CASE i = 1
      BY <1>1, <3>1, <3>2
    <3>3. CASE i # 1
      <4>1. PICK j \in 1..n : i = j + 1
        BY <1>2, <3>3
      <4> QED BY <1>1, <3>1, <4>1 DEF Holds, n
    <3> QED BY <3>2, <3>3
  <2>2. ASSUME NEW S, x \in S \/ Holds(r, S) PROVE Holds(q, S)
    <3>1. CASE x \in S
      BY <1>1, <1>2, <3>1 DEF Holds
    <3>2. CASE Holds(r, S)
      <4>1. PICK j \in 1..n : r[j] \in S
        BY <3>2 DEF Holds, n
      <4>2. q[j + 1] \in S /\ j + 1 \in 1..Len(q)
        BY <1>1, <1>2, <4>1
      <4> QED BY <4>2 DEF Holds
    <3> QED BY <2>2, <3>1, <3>2
  <2> QED BY <2>1, <2>2
<1>4. ASSUME NEW S, Once(q, S) PROVE Once(r, S) /\ (x \in S => ~Holds(r, S))
  <2>1. ASSUME NEW i \in 1..n, NEW j \in 1..n, r[i] \in S, r[j] \in S PROVE i = j
    <3>1. q[i + 1] \in S /\ q[j + 1] \in S /\ i + 1 \in 1..Len(q) /\ j + 1 \in 1..Len(q)
      BY <1>1, <1>2, <2>1
    <3>2. i + 1 = j + 1
      BY <1>4, <3>1 DEF Once
    <3> QED BY <3>2
  <2>2. ASSUME x \in S, NEW j \in 1..n, r[j] \in S PROVE FALSE
    <3>1. q[1] \in S /\ q[j + 1] \in S /\ 1 \in 1..Len(q) /\ j + 1 \in 1..Len(q)
      BY <1>1, <1>2, <2>2
    <3>2. j + 1 = 1
      BY <1>4, <3>1 DEF Once
    <3> QED BY <1>1, <3>2
  <2> QED BY <2>1, <2>2 DEF Once, Holds, n
<1>5. ASSUME NEW S, NEW R, Led(q, S, R), x \notin S PROVE Led(r, S, R) /\ x \notin R
  <2>1. ASSUME x \in R PROVE FALSE
    <3>1. PICK i \in 1..Len(q) : i < 1 /\ q[i] \in S
      BY <1>1, <1>2, <1>5, <2>1 DEF Led
    <3> QED BY <1>1, <3>1
  <2>2. ASSUME NEW j \in 1..n, r[j] \in R PROVE \E i \in 1..n : i < j /\ r[i] \in S
    <3>1. q[j + 1] \in R /\ j + 1 \in 1..Len(q)
      BY <1>1, <1>2, <2>2
    <3>2. PICK k \in 1..Len(q) : k < j + 1 /\ q[k] \in S
      BY <1>5, <3>1 DEF Led
    <3>3. k # 1
      BY <1>1, <1>5, <3>2
    <3>4. PICK i \in 1..n : k = i + 1
      BY <1>2, <3>3
    <3>5. i < j /\ r[i] \in S
      BY <1>1, <3>2, <3>4
    <3> QED BY <3>5
  <2> QED BY <2>1, <2>2 DEF Led, n
<1> QED BY <1>1, <1>3, <1>4, <1>5 DEF r, x, IsTaken

\* A loop over the set N does so.
LEMMA Joined ==
    ASSUME NEW T, NEW q \in Seq(T), NEW N, N \subseteq T, NEW s \in Listings(N)
    PROVE  IsJoined(q \o s, q, N, T)
<1>1. PICK m \in Nat : s \in [1..m -> N]
  BY NodeAssumption DEF Listings
<1>2. s \in Seq(T) /\ Len(s) = m /\ s \in Seq(N)
  BY <1>1
<1>3. /\ \A x \in N : \E i \in 1..m : s[i] = x
      /\ \A i, j \in 1..m : s[i] = s[j] => i = j
      /\ \A i \in 1..m : s[i] \in N
  BY <1>1, Zenon DEF Listings
<1> DEFINE r == q \o s
           n == Len(q)
<1>4. /\ n \in Nat /\ Len(r) = n + m /\ r \in Seq(T)
      /\ \A i \in 1..n : r[i] = q[i]
      /\ \A i \in 1..m : r[n + i] = s[i]
  BY <1>2
<1>5. /\ \A i \in 1..n : i \in 1..(n + m)
      /\ \A i \in 1..m : n + i \in 1..(n + m)
      /\ \A i \in 1..(n + m) : i \in 1..n \/ \E j \in 1..m : i = n + j
  <2>1. \A i \in 1..(n + m) : i \notin 1..n => i - n \in 1..m /\ i = n + (i - n)
    BY <1>4
  <2>2. \A i \in 1..(n + m) : i \in 1..n \/ \E j \in 1..m : i = n + j
    BY <2>1, Zenon
  <2>3. \A i \in 1..n : i \in 1..(n + m)
    BY <1>4
  <2>4. \A i \in 1..m : n + i \in 1..(n + m)
    BY <1>4
  <2> QED BY <2>2, <2>3, <2>4
<1> HIDE DEF r, n
<1>6. \A S : Holds(r, S) <=> Holds(q, S) \/ \E x \in N : x \in S
  <2>1. ASSUME NEW S, Holds(r, S) PROVE Holds(q, S) \/ \E x \in N : x \in S
    <3>1. PICK i \in 1..(n + m) : r[i] \in S
      BY <1>4, <2>1 DEF Holds
    <3>2. CASE i \in 1..n
      BY <1>4, <3>1, <3>2 DEF Holds, n
    <3>3. CASE i \notin 1..n
      <4>1. PICK j \in 1..m : i = n + j
        BY <1>5, <3>3
      <4> QED BY <1>3, <1>4, <3>1, <4>1, Zenon
    <3> QED BY <3>2, <3>3
  <2>2. ASSUME NEW S, Holds(q, S) PROVE Holds(r, S)
    BY <1>4, <1>5, <2>2 DEF Holds, n
  <2>3. ASSUME NEW S, NEW x \in N, x \in S PROVE Holds(r, S)
    <3>1. PICK i \in 1..m : s[i] = x
      BY <1>3
    <3>2. r[n + i] \in S /\ n + i \in 1..(n + m)
      BY <1>4, <1>5, <2>3, <3>1
    <3> QED BY <1>4, <3>2 DEF Holds
  <2> QED BY <2>1, <2>2, <2>3
<1>7. ASSUME NEW S, Once(q, S), \A x, y \in N : x \in S /\ y \in S => x = y,
             Holds(q, S) => \A x \in N : x \notin S
      PROVE  Once(r, S)
  <2>1. ASSUME NEW i \in 1..(n + m), NEW j \in 1..(n + m), r[i] \in S, r[j] \in S PROVE i = j
    <3>1. CASE i \in 1..n
      <4>1. Holds(q, S) /\ q[i] \in S
        BY <1>4, <2>1, <3>1 DEF Holds, n
      <4>2. j \in 1..n
        <5>1. ASSUME NEW k \in 1..m, j = n + k PROVE FALSE
          BY <1>3, <1>4, <1>7, <2>1, <4>1, <5>1, Zenon
        <5> QED BY <1>5, <5>1
      <4> QED BY <1>4, <1>7, <2>1, <3>1, <4>1, <4>2 DEF Once, n
    <3>2. CASE i \notin 1..n
      <4>1. PICK k \in 1..m : i = n + k
        BY <1>5, <3>2
      <4>2. s[k] \in N /\ s[k] \in S
        BY <1>3, <1>4, <2>1, <4>1
      <4>3. ~Holds(q, S)
        BY <1>7, <4>2
      <4>4. j \notin 1..n
        BY <1>4, <2>1, <4>3 DEF Holds, n
      <4>5. PICK l \in 1..m : j = n + l
        BY <1>5, <4>4
      <4>6. s[l] \in N /\ s[l] \in S
        BY <1>3, <1>4, <2>1, <4>5
      <4>7. k = l
        BY <1>3, <1>7, <4>2, <4>6
      <4> QED BY <4>1, <4>5, <4>7
    <3> QED BY <3>1, <3>2
  <2> QED BY <1>4, <2>1 DEF Once
<1>8. ASSUME NEW S, NEW R, Led(q, S, R), Holds(q, S) \/ \A x \in N : x \notin R PROVE Led(r, S, R)
  <2>1. ASSUME NEW j \in 1..(n + m), r[j] \in R PROVE \E i \in 1..(n + m) : i < j /\ r[i] \in S
    <3>1. CASE j \in 1..n
      <4>1. PICK i \in 1..n : i < j /\ q[i] \in S
        BY <1>4, <1>8, <2>1, <3>1 DEF Led, n
      <4> QED BY <1>4, <1>5, <4>1
    <3>2. CASE j \notin 1..n
      <4>1. PICK k \in 1..m : j = n + k
        BY <1>5, <3>2
      <4>2. Holds(q, S)
        BY <1>3, <1>4, <1>8, <2>1, <4>1, Zenon
      <4>3. PICK i \in 1..n : q[i] \in S
        BY <4>2 DEF Holds, n
      <4>4. i < j
        BY <1>4, <4>1, <4>3
      <4> QED BY <1>4, <1>5, <4>3, <4>4
    <3> QED BY <3>1, <3>2
  <2> QED BY <1>4, <2>1 DEF Led
<1> QED BY <1>4, <1>6, <1>7, <1>8 DEF r, IsJoined

\* An empty queue.
LEMMA Emptied ==
    /\ \A S : ~Holds(<< >>, S) /\ Once(<< >>, S)
    /\ \A S, R : Led(<< >>, S, R)
BY DEF Holds, Once, Led

\* A message among more.
LEMMA Wider ==
    ASSUME NEW q, NEW S, NEW R, S \subseteq R, Holds(q, S)
    PROVE  Holds(q, R)
BY DEF Holds

\* The requests that create i are among its Creations().
LEMMA ToCreate ==
    ASSUME NEW i
    PROVE  /\ \A u \in Transports : {ProduceRequest(u, i)} \subseteq Creations(i)
           /\ \A u \in Transports, q \in Producers : {ConsumeRequest(u, i, q)} \subseteq Creations(i)
BY DEF Creations

\* What leads is there, and before nothing everything leads.
LEMMA Leads ==
    ASSUME NEW q, NEW S, NEW R
    PROVE  /\ Led(q, S, R) /\ Holds(q, R) => Holds(q, S)
           /\ ~Holds(q, R) => Led(q, S, R)
BY DEF Holds, Led

(***************************************************************************)
(* Facts about messages.                                                   *)
(***************************************************************************)

\* The requests are told apart by their fields.
LEMMA Fields ==
    /\ \A t, p : /\ ProduceRequest(t, p).method = "produce" /\ ProduceRequest(t, p).transport = t
                 /\ ProduceRequest(t, p).id = p
    /\ \A t, c, p : /\ ConsumeRequest(t, c, p).method = "consume" /\ ConsumeRequest(t, c, p).transport = t
                    /\ ConsumeRequest(t, c, p).id = c /\ ConsumeRequest(t, c, p).producer = p
    /\ \A t, p : /\ ProducerClosing(t, p).method = "closeProducer" /\ ProducerClosing(t, p).transport = t
                 /\ ProducerClosing(t, p).id = p
    /\ \A t, c : /\ ConsumerClosing(t, c).method = "closeConsumer" /\ ConsumerClosing(t, c).transport = t
                 /\ ConsumerClosing(t, c).id = c
    /\ \A ts : /\ TransportsClosing(ts).method = "closeTransports"
               /\ TransportsClosing(ts).transports = ts
    /\ RouterClosing.method = "closeRouter"
BY DEF ProduceRequest, ConsumeRequest, ProducerClosing, ConsumerClosing, TransportsClosing, RouterClosing

\* What the sets of requests have of a request x, by its method.
Unrelated(x) ==
    /\ \A t, p : x # ProduceRequest(t, p)
    /\ \A t, c, p : x # ConsumeRequest(t, c, p)
    /\ \A i : x \notin Creations(i)

NoClosing(x) ==
    /\ \A t, p : x # ProducerClosing(t, p)
    /\ \A t, c : x # ConsumerClosing(t, c)
    /\ \A t : x \notin Closings(t)

\* The request of transport.produce(): it creates p, and closes nothing.
LEMMA ProduceFacts ==
    ASSUME NEW t \in Transports, NEW p \in Producers, NEW x, x = ProduceRequest(t, p)
    PROVE  /\ x \in Requests /\ NoClosing(x)
           /\ \A i : x \in Creations(i) <=> i = p
           /\ \A u, q : x = ProduceRequest(u, q) <=> u = t /\ q = p
           /\ \A u, c, q : x # ConsumeRequest(u, c, q)
<1>1. x \in Requests
  BY DEF Requests
<1>2. NoClosing(x)
  BY Fields DEF NoClosing, Closings
<1>3. \A u, q : x = ProduceRequest(u, q) <=> u = t /\ q = p
  BY Fields
<1>4. \A u, c, q : x # ConsumeRequest(u, c, q)
  BY Fields
<1>5. \A i : x \in Creations(i) <=> i = p
  BY <1>3, <1>4 DEF Creations
<1> QED BY <1>1, <1>2, <1>3, <1>4, <1>5

\* The request of transport.consume(): it creates c, and closes nothing.
LEMMA ConsumeFacts ==
    ASSUME NEW t \in Transports, NEW c \in Consumers, NEW p \in Producers, NEW x, x = ConsumeRequest(t, c, p)
    PROVE  /\ x \in Requests /\ NoClosing(x)
           /\ \A i : x \in Creations(i) <=> i = c
           /\ \A u, q : x # ProduceRequest(u, q)
           /\ \A u, d, q : x = ConsumeRequest(u, d, q) <=> u = t /\ d = c /\ q = p
<1>1. x \in Requests
  BY DEF Requests
<1>2. NoClosing(x)
  BY Fields DEF NoClosing, Closings
<1>3. \A u, q : x # ProduceRequest(u, q)
  BY Fields
<1>4. \A u, d, q : x = ConsumeRequest(u, d, q) <=> u = t /\ d = c /\ q = p
  BY Fields
<1>5. \A i : x \in Creations(i) <=> i = c
  BY <1>3, <1>4 DEF Creations
<1> QED BY <1>1, <1>2, <1>3, <1>4, <1>5

\* The request of producer.close(): it closes p only.
LEMMA ProducerClosingFacts ==
    ASSUME NEW t \in Transports, NEW p \in Producers, NEW x, x = ProducerClosing(t, p)
    PROVE  /\ x \in Requests /\ Unrelated(x)
           /\ \A u, q : x = ProducerClosing(u, q) <=> u = t /\ q = p
           /\ \A u, c : x # ConsumerClosing(u, c)
           /\ \A u : x \notin Closings(u)
<1>1. x \in Requests
  BY DEF Requests
<1>2. Unrelated(x)
  BY Fields DEF Unrelated, Creations
<1>3. \A u, q : x = ProducerClosing(u, q) <=> u = t /\ q = p
  BY Fields
<1>4. \A u, c : x # ConsumerClosing(u, c)
  BY Fields
<1>5. \A u : x \notin Closings(u)
  BY Fields DEF Closings
<1> QED BY <1>1, <1>2, <1>3, <1>4, <1>5

\* The request of consumer.close(): it closes c only.
LEMMA ConsumerClosingFacts ==
    ASSUME NEW t \in Transports, NEW c \in Consumers, NEW x, x = ConsumerClosing(t, c)
    PROVE  /\ x \in Requests /\ Unrelated(x)
           /\ \A u, q : x # ProducerClosing(u, q)
           /\ \A u, d : x = ConsumerClosing(u, d) <=> u = t /\ d = c
           /\ \A u : x \notin Closings(u)
<1>1. x \in Requests
  BY DEF Requests
<1>2. Unrelated(x)
  BY Fields DEF Unrelated, Creations
<1>3. \A u, q : x # ProducerClosing(u, q)
  BY Fields
<1>4. \A u, d : x = ConsumerClosing(u, d) <=> u = t /\ d = c
  BY Fields
<1>5. \A u : x \notin Closings(u)
  BY Fields DEF Closings
<1> QED BY <1>1, <1>2, <1>3, <1>4, <1>5

\* Closing the Transports ts, or with the Router all of them.
ClosesExactly(x, ts) ==
    /\ x \in Requests /\ Unrelated(x)
    /\ \A t, p : x # ProducerClosing(t, p)
    /\ \A t, c : x # ConsumerClosing(t, c)
    /\ \A t \in Transports : x \in Closings(t) <=> t \in ts

\* The request of transport.close() closes that Transport, the one of
\* webRtcServer.close() all that use the WebRtcServer.
LEMMA TransportsClosingFacts ==
    ASSUME NEW ts \in SUBSET Transports, NEW x, x = TransportsClosing(ts)
    PROVE  ClosesExactly(x, ts)
<1>1. x \in Requests
  BY DEF Requests
<1>2. Unrelated(x)
  BY Fields DEF Unrelated, Creations
<1>3. \A t, p : x # ProducerClosing(t, p)
  BY Fields
<1>4. \A t, c : x # ConsumerClosing(t, c)
  BY Fields
<1>5. ASSUME NEW t \in Transports PROVE x \in Closings(t) <=> t \in ts
  <2>1. x # RouterClosing
    BY Fields
  <2>2. \A us : x = TransportsClosing(us) <=> us = ts
    BY Fields
  <2> QED BY <2>1, <2>2 DEF Closings
<1> QED BY <1>1, <1>2, <1>3, <1>4, <1>5 DEF ClosesExactly

\* The request of router.close() closes every Transport.
LEMMA RouterClosingFacts == ClosesExactly(RouterClosing, Transports)
<1>1. RouterClosing \in Requests
  BY DEF Requests
<1>2. Unrelated(RouterClosing)
  BY Fields DEF Unrelated, Creations
<1>3. /\ \A t, p : RouterClosing # ProducerClosing(t, p)
      /\ \A t, c : RouterClosing # ConsumerClosing(t, c)
  BY Fields
<1> QED BY <1>1, <1>2, <1>3 DEF ClosesExactly, Closings

\* Responses, notifications and continuations.
LEMMA ReplyFacts ==
    /\ \A i, j, b, a : (Answer(i, b) = Answer(j, a) <=> i = j /\ b = a) /\ (Task(i, b) = Task(j, a) <=> i = j /\ b = a)
    /\ \A i, b, c : Answer(i, b) # Note(c)
    /\ \A c, d : Note(c) = Note(d) <=> c = d
    /\ \A i, b : /\ Answer(i, b).id = i /\ Answer(i, b).accepted = b /\ Answer(i, b).kind = "response"
                 /\ Task(i, b).id = i /\ Task(i, b).accepted = b
    /\ \A c : Note(c).id = c /\ Note(c).kind = "producerclose"
<1>1. \A i, b : /\ Answer(i, b).id = i /\ Answer(i, b).accepted = b /\ Answer(i, b).kind = "response"
                /\ Task(i, b).id = i /\ Task(i, b).accepted = b
  BY DEF Answer, Task
<1>2. \A c : Note(c).id = c /\ Note(c).kind = "producerclose"
  BY DEF Note
<1> QED BY <1>1, <1>2

\* What the sets of responses and of continuations have.
LEMMA ReplySets ==
    /\ \A i, j : \A b \in BOOLEAN : (Answer(i, b) \in Answers(j) <=> j = i) /\ (Task(i, b) \in Tasks(j) <=> j = i)
    /\ \A i, c : Note(c) \notin Answers(i)
    /\ \A m \in Replies : \/ \E i \in Ids, b \in BOOLEAN : m = Answer(i, b)
                          \/ \E c \in Consumers : m = Note(c)
    /\ \A i : \A m \in Tasks(i) : \E b \in BOOLEAN : m = Task(i, b)
<1>1. ASSUME NEW i, NEW j, NEW b \in BOOLEAN PROVE (Answer(i, b) \in Answers(j) <=> j = i) /\ (Task(i, b) \in Tasks(j) <=> j = i)
  <2>1. Answer(i, b) \in Answers(j) <=> j = i
    BY Zenon DEF Answer, Answers
  <2>2. Task(i, b) \in Tasks(j) <=> j = i
    BY Zenon DEF Task, Tasks
  <2> QED BY <2>1, <2>2
<1>2. ASSUME NEW i, NEW c PROVE Note(c) \notin Answers(i)
  BY DEF Answer, Answers, Note
<1>3. ASSUME NEW m \in Replies
      PROVE  (\E i \in Ids, b \in BOOLEAN : m = Answer(i, b)) \/ \E c \in Consumers : m = Note(c)
  <2>1. CASE \E i \in Ids : m \in Answers(i)
    <3>1. PICK i \in Ids : m = Answer(i, TRUE) \/ m = Answer(i, FALSE)
      BY <2>1, Zenon DEF Answers
    <3>2. TRUE \in BOOLEAN /\ FALSE \in BOOLEAN
      OBVIOUS
    <3> QED BY <3>1, <3>2, Zenon
  <2>2. CASE \E c \in Consumers : m = Note(c)
    BY <2>2
  <2>3. m \in UNION {Answers(i) : i \in Ids} \/ m \in {Note(c) : c \in Consumers}
    BY <1>3 DEF Replies
  <2>4. CASE m \in UNION {Answers(i) : i \in Ids}
    <3>1. \E i \in Ids : m \in Answers(i)
      BY <2>4
    <3> QED BY <2>1, <3>1
  <2>5. CASE m \in {Note(c) : c \in Consumers}
    <3>1. \E c \in Consumers : m = Note(c)
      BY <2>5
    <3> QED BY <2>2, <3>1
  <2> QED BY <2>3, <2>4, <2>5
<1>4. ASSUME NEW i, NEW m \in Tasks(i) PROVE \E b \in BOOLEAN : m = Task(i, b)
  BY <1>4, Zenon DEF Tasks
<1> QED BY <1>1, <1>2, <1>3, <1>4

\* A producer's id is no consumer's.
LEMMA Apart ==
    /\ \A p \in Producers : p \notin Consumers /\ p \in Ids /\ Status(p) = producer[p]
    /\ \A c \in Consumers : c \notin Producers /\ c \in Ids /\ Status(c) = consumer[c]
BY NodeAssumption DEF Status, Ids

\* The invariant gives what is to be shown.
LEMMA NodeInvImplies == NodeInv => ObjectsAgree
<1> SUFFICES ASSUME NodeInv PROVE ObjectsAgree
  OBVIOUS
<1> USE DEF NodeInv, Agreement
<1>1. TypeOK
  <2>1. sents \subseteq {p \in Producers : producer[p] = "pending"} \cup {c \in Consumers : consumer[c] = "pending"}
    BY Apart DEF PromisesKept, Typed, Ids
  <2>2. ASSUME NEW k \in 1..Len(microtasks)
        PROVE  microtasks[k].id \in {p \in Producers : producer[p] = "pending"}
                                      \cup {c \in Consumers : consumer[c] = "pending"}
    <3>1. PICK i \in Ids : microtasks[k] \in Tasks(i)
      BY DEF Typed
    <3>2. microtasks[k].id = i
      <4>1. microtasks[k] = Task(i, TRUE) \/ microtasks[k] = Task(i, FALSE)
        BY <3>1, Zenon DEF Tasks
      <4>2. Task(i, TRUE).id = i /\ Task(i, FALSE).id = i
        BY ReplyFacts, Zenon
      <4> QED BY <4>1, <4>2, Zenon
    <3>3. Status(i) = "pending"
      BY <3>1 DEF PromisesKept, Holds
    <3> QED BY <3>2, <3>3, Apart DEF Ids
  <2>3. ASSUME NEW k \in 1..Len(immediates) PROVE consumer[immediates[k]] \notin {"none"}
    <3>1. immediates[k] \in Consumers /\ Holds(immediates, {immediates[k]})
      BY DEF Typed, Holds
    <3> QED BY <3>1, Zenon DEF NotesKnown
  <2> QED BY <2>1, <2>2, <2>3 DEF Typed, TypeOK
<1>2. ASSUME Quiet
      PROVE  /\ TransportsAgree /\ ProducersAgree /\ ConsumersAgree
             /\ \A S : ~Holds(requests, S) /\ ~Holds(replies, S) /\ ~Holds(microtasks, S) /\ ~Holds(immediates, S)
  BY <1>2, Emptied DEF Quiet
<1>3. WorkerHoldsNothingUnknown
  <2>1. SUFFICES ASSUME Quiet
                 PROVE  /\ \A pair \in wProduced : producer[pair[2]] = "open" /\ transport[pair[1]] = "open"
                        /\ \A triple \in wConsumed : consumer[triple[2]] = "open" /\ transport[triple[1]] = "open"
                        /\ \A t \in wTransports : transport[t] = "open"
    BY DEF WorkerHoldsNothingUnknown
  <2>2. \A t \in wTransports : transport[t] = "open"
    BY <1>2, <2>1 DEF TransportsAgree, Typed
  <2>3. ASSUME NEW pair \in wProduced PROVE producer[pair[2]] = "open" /\ transport[pair[1]] = "open"
    <3>1. PICK t \in Transports, p \in Producers : pair = <<t, p>>
      BY SMTT(30) DEF Typed
    <3>2. pair[1] = t /\ pair[2] = p /\ <<t, p>> \in wProduced
      BY <3>1
    <3>3. t \in wTransports /\ Living(p)
      <4>1. ProducersAgree /\ ~Holds(requests, {ProducerClosing(t, p)}) /\ ~Holds(requests, Closings(t))
        BY <1>2, <2>1
      <4>2. /\ t \in wTransports
            /\ Living(p) \/ Holds(requests, {ProducerClosing(t, p)}) \/ Holds(requests, Closings(t))
        BY <3>2, <4>1, SMTT(30) DEF ProducersAgree, ProducerAgrees
      <4> QED BY <4>1, <4>2
    <3>4. producer[p] = "open"
      BY <1>2, <2>1, <3>3, Apart, SMTT(30) DEF Living
    <3> QED BY <2>2, <3>2, <3>3, <3>4
  <2>4. ASSUME NEW triple \in wConsumed PROVE consumer[triple[2]] = "open" /\ transport[triple[1]] = "open"
    <3>1. PICK t \in Transports, c \in Consumers, p \in Producers : triple = <<t, c, p>>
      BY DEF Typed
    <3>2. triple[1] = t /\ triple[2] = c /\ <<t, c, p>> \in wConsumed
      BY <3>1
    <3>3. t \in wTransports /\ Living(c)
      <4>1. ConsumersAgree /\ ~Holds(requests, {ConsumerClosing(t, c)}) /\ ~Holds(requests, Closings(t))
        BY <1>2, <2>1
      <4>2. /\ t \in wTransports
            /\ Living(c) \/ Holds(requests, {ConsumerClosing(t, c)}) \/ Holds(requests, Closings(t))
        BY <3>2, <4>1 DEF ConsumersAgree, ConsumerAgrees
      <4> QED BY <4>1, <4>2
    <3>4. consumer[c] = "open"
      BY <1>2, <2>1, <3>3, Apart, Zenon DEF Living
    <3> QED BY <2>2, <3>2, <3>3, <3>4, Zenon
  <2> QED BY <2>2, <2>3, <2>4
<1>4. OpenObjectsExist
  <2>1. SUFFICES ASSUME Quiet
                 PROVE  /\ \A p \in Producers :
                             producer[p] = "open" /\ transport[producerTransport[p]] = "open"
                                 => <<producerTransport[p], p>> \in wProduced
                        /\ \A c \in Consumers :
                             consumer[c] = "open" /\ transport[consumerTransport[c]] = "open"
                                 => <<consumerTransport[c], c, consumed[c]>> \in wConsumed
    BY Zenon DEF OpenObjectsExist
  <2>2. ASSUME NEW p \in Producers, producer[p] = "open", transport[producerTransport[p]] = "open"
        PROVE  <<producerTransport[p], p>> \in wProduced
    <3>1. producerTransport[p] \in Transports
      BY <2>2, SMTT(30) DEF Typed
    <3> QED BY <1>2, <2>1, <2>2, <3>1, Apart, Zenon DEF ProducersAgree, ProducerAgrees, Living
  <2>3. ASSUME NEW c \in Consumers, consumer[c] = "open", transport[consumerTransport[c]] = "open"
        PROVE  <<consumerTransport[c], c, consumed[c]>> \in wConsumed
    <3>1. consumerTransport[c] \in Transports /\ consumed[c] \in Producers
      BY <2>3, SMTT(30) DEF Typed
    <3>2. Living(c) /\ ~Noted(c)
      BY <1>2, <2>1, <2>3, Apart, SMTT(30) DEF Living, Noted
    <3>3. \A t \in Transports, p \in Producers :
            Living(c) /\ consumerTransport[c] = t /\ consumed[c] = p /\ transport[t] = "open"
            => <<t, c, p>> \in wConsumed \/ Noted(c)
      BY <1>2, <2>1, Zenon DEF ConsumersAgree, ConsumerAgrees
    <3> QED BY <2>3, <3>1, <3>2, <3>3, Zenon
  <2> QED BY <2>2, <2>3, Zenon
<1> QED BY <1>1, <1>3, <1>4 DEF ObjectsAgree, SidesAgree

\* The first state.
LEMMA NodeInitInv == Init => NodeInv
<1> SUFFICES ASSUME Init PROVE NodeInv
  OBVIOUS
<1>1. \A S : /\ ~Holds(requests, S) /\ ~Holds(replies, S) /\ ~Holds(microtasks, S) /\ ~Holds(immediates, S)
             /\ Once(requests, S) /\ Once(replies, S) /\ Once(microtasks, S)
  BY Emptied DEF Init
<1>2. Typed
  <2>1. /\ transport \in [Transports -> {"open", "closed"}]
        /\ producer \in [Producers -> Statuses] /\ consumer \in [Consumers -> Statuses]
        /\ producerTransport \in [Producers -> Transports \cup {None}]
        /\ consumerTransport \in [Consumers -> Transports \cup {None}]
        /\ consumed \in [Consumers -> Producers \cup {None}]
        /\ closeEvent \in [Consumers -> {None, "close", "transportclose", "producerclose"}]
    BY SMTT(30) DEF Init, Statuses
  <2>2. /\ requests \in Seq(Requests) /\ replies \in Seq(Replies)
        /\ microtasks \in Seq(UNION {Tasks(i) : i \in Ids}) /\ immediates \in Seq(Consumers)
    BY DEF Init
  <2>3. /\ routerProducers \subseteq Producers /\ sents \subseteq Ids /\ wTransports \subseteq Transports
        /\ wProduced \subseteq Transports \X Producers
        /\ wConsumed \subseteq Transports \X Consumers \X Producers
        /\ workerRunning = TRUE /\ channelClosed = FALSE /\ routerClosed = FALSE
    BY DEF Init
  <2>4. routerProducers = {}
    BY DEF Init
  <2>5. /\ \A p \in Producers : producer[p] = "none"
        /\ \A c \in Consumers : consumer[c] = "none"
    BY DEF Init
  <2> QED BY <2>1, <2>2, <2>3, <2>4, <2>5, Zenon DEF Typed
<1>3. PromisesKept /\ NotesKnown
  BY <1>1 DEF Init, PromisesKept, NotesKnown, Status, Ids
<1>4. RouterKnowsProducers
  BY DEF Init, RouterKnowsProducers
<1>5. AskedOnce /\ AskedAsKnown
  BY <1>1, Zenon DEF AskedOnce, AskedAsKnown
<1>6. TransportsAgree
  BY <1>1 DEF Init, TransportsAgree
<1>7. \A i \in Ids : ~Living(i)
  BY <1>1 DEF Init, Living, Status, Ids
<1>8. ProducersAgree
  BY <1>1, <1>7, Apart DEF Init, ProducersAgree, ProducerAgrees
<1>9. ConsumersAgree
  BY <1>1, <1>7, Apart, SMTT(30) DEF Init, ConsumersAgree, ConsumerAgrees
<1>10. NotesFollow
  BY <1>1, SMTT(30) DEF Init, NotesFollow
<1> QED BY <1>2, <1>3, <1>4, <1>5, <1>6, <1>8, <1>9, <1>10 DEF NodeInv, Agreement

(***************************************************************************)
(* API calls.                                                              *)
(***************************************************************************)

\* Nothing is known of an object that was not asked for.
LEMMA Unasked ==
    ASSUME NodeInv, NEW i \in Ids, Status(i) = "none"
    PROVE  /\ i \notin sents /\ ~Holds(microtasks, Tasks(i)) /\ ~Holds(microtasks, {Task(i, TRUE)})
           /\ workerRunning => /\ ~Holds(requests, Creations(i)) /\ ~Holds(replies, Answers(i))
                               /\ ~Living(i)
<1> USE DEF NodeInv
<1>1. i \notin sents /\ ~Holds(microtasks, Tasks(i))
  BY SMTT(30) DEF PromisesKept
<1>2. ~Holds(microtasks, {Task(i, TRUE)})
  <2>1. {Task(i, TRUE)} \subseteq Tasks(i)
    BY DEF Tasks
  <2> QED BY <1>1, <2>1, Wider, Zenon
<1>3. ASSUME workerRunning PROVE ~Holds(requests, Creations(i)) /\ ~Holds(replies, Answers(i))
  BY <1>1, <1>3 DEF AskedOnce, Agreement
<1>4. ASSUME workerRunning PROVE ~Living(i)
  <2>1. {Answer(i, TRUE)} \subseteq Answers(i)
    BY DEF Answers
  <2>2. ~Holds(replies, {Answer(i, TRUE)})
    BY <1>3, <1>4, <2>1, Wider, Zenon
  <2> QED BY <1>2, <2>2 DEF Living
<1> QED BY <1>1, <1>2, <1>3, <1>4

\* transport.produce() sends its request.
LEMMA ProduceInv ==
    ASSUME NodeInv, NEW t \in Transports, NEW p \in Producers, Produce(t, p)
    PROVE  NodeInv'
<1> USE DEF NodeInv
<1>1. PICK x : x = ProduceRequest(t, p)
  BY SMTT(30)
<1>2. /\ producer[p] = "none" /\ ~channelClosed
      /\ producer' = [producer EXCEPT ![p] = "pending"]
      /\ producerTransport' = [producerTransport EXCEPT ![p] = t]
      /\ sents' = sents \cup {p}
      /\ requests' = Append(requests, x)
      /\ UNCHANGED <<transport, consumer, consumerTransport, consumed, routerClosed, routerProducers, closeEvent,
                     replies, microtasks, immediates, channelClosed, workerRunning, wTransports, wProduced, wConsumed>>
  BY <1>1, SMTT(30) DEF Produce, Send, ProduceRequest, workerVars
<1>3. /\ x \in Requests /\ NoClosing(x)
      /\ \A i : x \in Creations(i) <=> i = p
      /\ \A u, q : x = ProduceRequest(u, q) <=> u = t /\ q = p
      /\ \A u, c, q : x # ConsumeRequest(u, c, q)
  BY <1>1, ProduceFacts
<1>4. IsAdded(requests', requests, x, Requests)
  BY <1>2, <1>3, Added, Zenon DEF Typed
<1>5. p \in Ids /\ p \notin Consumers /\ Status(p) = "none"
  BY <1>2, Apart, SMTT(30)
<1>6. /\ p \notin sents /\ ~Holds(microtasks, Tasks(p)) /\ ~Holds(microtasks, {Task(p, TRUE)})
      /\ workerRunning => /\ ~Holds(requests, Creations(p)) /\ ~Holds(replies, Answers(p))
                          /\ ~Living(p)
  BY <1>5, Unasked, Zenon
<1>7. /\ \A q \in Producers : producer'[q] = (IF q = p THEN "pending" ELSE producer[q])
      /\ \A q \in Producers : producerTransport'[q] = (IF q = p THEN t ELSE producerTransport[q])
      /\ producer' \in [Producers -> Statuses] /\ producerTransport' \in [Producers -> Transports \cup {None}]
  BY <1>2, Zenon DEF Typed, Statuses
<1>8. \A i \in Ids : Status(i)' = IF i = p THEN "pending" ELSE Status(i)
  BY <1>2, <1>5, <1>7, SMTT(30) DEF Status, Ids
<1>9. Typed'
  <2>1. requests' \in Seq(Requests) /\ sents' \subseteq Ids
    BY <1>2, <1>4, <1>5, Zenon DEF IsAdded, Typed
  <2>2. \A q \in routerProducers : q # p
    BY <1>2, Zenon DEF Typed
  <2> QED BY <1>2, <1>7, <2>1, <2>2 DEF Typed
<1>10. PromisesKept'
  BY <1>2, <1>6, <1>8, Zenon DEF PromisesKept
<1>11. NotesKnown'
  BY <1>2, Zenon DEF NotesKnown
<1>12. RouterKnowsProducers'
  BY <1>2, <1>7, SMTT(60) DEF RouterKnowsProducers, Typed
<1>13. ASSUME workerRunning
       PROVE  Agreement'
  <2>1. /\ AskedOnce /\ AskedAsKnown /\ TransportsAgree /\ ProducersAgree /\ ConsumersAgree /\ NotesFollow
        /\ ~Holds(requests, Creations(p)) /\ ~Holds(replies, Answers(p)) /\ ~Living(p)
    BY <1>6, <1>13, Zenon DEF Agreement
  <2>2. AskedOnce'
    BY <1>2, <1>3, <1>4, <2>1, Zenon DEF AskedOnce, IsAdded
  <2>3. \A u \in Transports : ~Holds(requests, {ProduceRequest(u, p)})
    <3>1. \A u \in Transports : {ProduceRequest(u, p)} \subseteq Creations(p)
      BY ToCreate, Zenon
    <3> QED BY <2>1, <3>1, Wider, Zenon
  <2>4. AskedAsKnown'
    BY <1>2, <1>3, <1>4, <1>7, <2>1, <2>3, SMTT(60) DEF AskedAsKnown, IsAdded
  <2>5. /\ \A u : Holds(requests', Closings(u)) <=> Holds(requests, Closings(u))
        /\ \A u, q : Holds(requests', {ProducerClosing(u, q)}) <=> Holds(requests, {ProducerClosing(u, q)})
        /\ \A u, c : Holds(requests', {ConsumerClosing(u, c)}) <=> Holds(requests, {ConsumerClosing(u, c)})
    BY <1>3, <1>4, Zenon DEF IsAdded, NoClosing
  <2>6. TransportsAgree'
    BY <1>2, <2>1, <2>5, Zenon DEF TransportsAgree
  <2>7. \A i \in Ids : Living(i)' <=> Living(i)
    BY <1>2, <1>5, <1>8 DEF Living
  <2>8. ASSUME NEW u \in Transports, NEW q \in Producers PROVE ProducerAgrees(u, q)'
    <3>1. ProducerAgrees(u, q) /\ (Living(q)' <=> Living(q))
      BY <2>1, <2>7, Apart, Zenon DEF ProducersAgree
    <3> QED BY <1>2, <1>7, <2>1, <2>5, <3>1, Zenon DEF ProducerAgrees
  <2>9. ASSUME NEW u \in Transports, NEW c \in Consumers, NEW q \in Producers PROVE ConsumerAgrees(u, c, q)'
    <3>1. ConsumerAgrees(u, c, q) /\ (Living(c)' <=> Living(c)) /\ c # p
      BY <1>5, <2>1, <2>7, Apart, Zenon DEF ConsumersAgree
    <3> QED BY <1>2, <2>5, <3>1, Zenon DEF ConsumerAgrees, Noted
  <2>10. NotesFollow'
    BY <1>2, <1>5, <2>1, Zenon DEF NotesFollow
  <2> QED BY <2>2, <2>4, <2>6, <2>8, <2>9, <2>10 DEF Agreement, ProducersAgree, ConsumersAgree
<1> QED BY <1>2, <1>9, <1>10, <1>11, <1>12, <1>13, SMTT(30)

\* transport.consume() sends its request.
LEMMA ConsumeInv ==
    ASSUME NodeInv, NEW t \in Transports, NEW c \in Consumers, NEW p \in Producers, Consume(t, c, p)
    PROVE  NodeInv'
<1> USE DEF NodeInv
<1>1. PICK x : x = ConsumeRequest(t, c, p)
  OBVIOUS
<1>2. /\ consumer[c] = "none" /\ ~channelClosed
      /\ consumer' = [consumer EXCEPT ![c] = "pending"]
      /\ consumerTransport' = [consumerTransport EXCEPT ![c] = t]
      /\ consumed' = [consumed EXCEPT ![c] = p]
      /\ sents' = sents \cup {c}
      /\ requests' = Append(requests, x)
      /\ UNCHANGED <<transport, producer, producerTransport, routerClosed, routerProducers, closeEvent,
                     replies, microtasks, immediates, channelClosed, workerRunning, wTransports, wProduced, wConsumed>>
  BY <1>1 DEF Consume, Send, ConsumeRequest, workerVars
<1>3. /\ x \in Requests /\ NoClosing(x)
      /\ \A i : x \in Creations(i) <=> i = c
      /\ \A u, q : x # ProduceRequest(u, q)
      /\ \A u, d, q : x = ConsumeRequest(u, d, q) <=> u = t /\ d = c /\ q = p
  BY <1>1, ConsumeFacts
<1>4. IsAdded(requests', requests, x, Requests)
  BY <1>2, <1>3, Added, Zenon DEF Typed
<1>5. c \in Ids /\ c \notin Producers /\ Status(c) = "none"
  BY <1>2, Apart, Zenon
<1>6. /\ c \notin sents /\ ~Holds(microtasks, Tasks(c)) /\ ~Holds(microtasks, {Task(c, TRUE)})
      /\ workerRunning => /\ ~Holds(requests, Creations(c)) /\ ~Holds(replies, Answers(c))
                          /\ ~Living(c)
  BY <1>5, Unasked, Zenon
<1>7. /\ \A d \in Consumers : consumer'[d] = (IF d = c THEN "pending" ELSE consumer[d])
      /\ \A d \in Consumers : consumerTransport'[d] = (IF d = c THEN t ELSE consumerTransport[d])
      /\ \A d \in Consumers : consumed'[d] = (IF d = c THEN p ELSE consumed[d])
      /\ consumer' \in [Consumers -> Statuses] /\ consumerTransport' \in [Consumers -> Transports \cup {None}]
      /\ consumed' \in [Consumers -> Producers \cup {None}]
  BY <1>2, Zenon DEF Typed, Statuses
<1>8. \A i \in Ids : Status(i)' = IF i = c THEN "pending" ELSE Status(i)
  BY <1>2, <1>5, <1>7, Zenon DEF Status, Ids
<1>9. Typed'
  <2>1. requests' \in Seq(Requests) /\ sents' \subseteq Ids
    BY <1>2, <1>4, <1>5, Zenon DEF IsAdded, Typed
  <2> QED BY <1>2, <1>7, <2>1, Zenon DEF Typed
<1>10. PromisesKept'
  BY <1>2, <1>6, <1>8, Zenon DEF PromisesKept
<1>11. NotesKnown'
  BY <1>2, <1>7, Zenon DEF NotesKnown
<1>12. RouterKnowsProducers'
  BY <1>2, Zenon DEF RouterKnowsProducers
<1>13. ASSUME workerRunning
       PROVE  Agreement'
  <2>1. /\ AskedOnce /\ AskedAsKnown /\ TransportsAgree /\ ProducersAgree /\ ConsumersAgree /\ NotesFollow
        /\ ~Holds(requests, Creations(c)) /\ ~Holds(replies, Answers(c)) /\ ~Living(c)
    BY <1>6, <1>13 DEF Agreement
  <2>2. AskedOnce'
    BY <1>2, <1>3, <1>4, <2>1, Zenon DEF AskedOnce, IsAdded
  <2>3. \A u \in Transports, q \in Producers : ~Holds(requests, {ConsumeRequest(u, c, q)})
    <3>1. \A u \in Transports, q \in Producers : {ConsumeRequest(u, c, q)} \subseteq Creations(c)
      BY ToCreate, Zenon
    <3> QED BY <2>1, <3>1, Wider
  <2>4. AskedAsKnown'
    <3>1. \A u \in Transports, q \in Producers : Holds(requests', {ProduceRequest(u, q)}) => producerTransport'[q] = u
      BY <1>2, <1>3, <1>4, <2>1, Zenon DEF AskedAsKnown, IsAdded
    <3>2. ASSUME NEW u \in Transports, NEW d \in Consumers, NEW q \in Producers,
                 Holds(requests', {ConsumeRequest(u, d, q)})
          PROVE  consumerTransport'[d] = u /\ consumed'[d] = q
      <4>1. Holds(requests, {ConsumeRequest(u, d, q)}) \/ (u = t /\ d = c /\ q = p)
        BY <1>3, <1>4, <3>2, Zenon DEF IsAdded
      <4>2. Holds(requests, {ConsumeRequest(u, d, q)}) => d # c /\ consumerTransport[d] = u /\ consumed[d] = q
        BY <2>1, <2>3, Zenon DEF AskedAsKnown
      <4> QED BY <1>7, <4>1, <4>2, Zenon
    <3> QED BY <3>1, <3>2, Zenon DEF AskedAsKnown
  <2>5. /\ \A u : Holds(requests', Closings(u)) <=> Holds(requests, Closings(u))
        /\ \A u, q : Holds(requests', {ProducerClosing(u, q)}) <=> Holds(requests, {ProducerClosing(u, q)})
        /\ \A u, d : Holds(requests', {ConsumerClosing(u, d)}) <=> Holds(requests, {ConsumerClosing(u, d)})
    BY <1>3, <1>4, Zenon DEF IsAdded, NoClosing
  <2>6. TransportsAgree'
    BY <1>2, <2>1, <2>5, Zenon DEF TransportsAgree
  <2>7. \A i \in Ids : Living(i)' <=> Living(i)
    BY <1>2, <1>5, <1>8, Zenon DEF Living
  <2>8. ASSUME NEW u \in Transports, NEW q \in Producers PROVE ProducerAgrees(u, q)'
    <3>1. ProducerAgrees(u, q) /\ (Living(q)' <=> Living(q))
      BY <2>1, <2>7, Apart, Zenon DEF ProducersAgree
    <3> QED BY <1>2, <2>5, <3>1, Zenon DEF ProducerAgrees
  <2>9. ~Holds(replies, {Note(c)}) /\ ~Holds(immediates, {c})
    BY <1>2, Zenon DEF NotesKnown
  <2>10. ASSUME NEW u \in Transports, NEW d \in Consumers, NEW q \in Producers PROVE ConsumerAgrees(u, d, q)'
    <3>1. ConsumerAgrees(u, d, q) /\ (Living(d)' <=> Living(d))
      BY <2>1, <2>7, Apart, Zenon DEF ConsumersAgree
    <3>2. consumer[c] = "none"
      BY <1>2, Zenon
    <3> QED BY <1>2, <1>7, <2>1, <2>5, <3>1, <3>2, Zenon DEF ConsumerAgrees, Noted
  <2>11. Led(replies, Answers(c), {Note(c)})
    BY <2>9, Leads
  <2>12. NotesFollow'
    BY <1>2, <2>1, <2>9, <2>11, Zenon DEF NotesFollow
  <2> QED BY <2>2, <2>4, <2>6, <2>8, <2>10, <2>12 DEF Agreement, ProducersAgree, ConsumersAgree
<1> QED BY <1>2, <1>9, <1>10, <1>11, <1>12, <1>13

\* What the closing calls have in common: the Producers ps, the Consumers cs and
\* some Transports are closed, and the request x tells the worker of each.
Closes(x, ps, cs) ==
    /\ x \in Requests /\ Unrelated(x) /\ Send(x)
    /\ ps \subseteq Producers /\ cs \subseteq Consumers
    /\ transport' \in [Transports -> {"open", "closed"}]
    /\ \A t \in Transports : transport'[t] = "open" <=> transport[t] = "open" /\ x \notin Closings(t)
    /\ producer' = [p \in Producers |-> IF p \in ps THEN "closed" ELSE producer[p]]
    /\ consumer' = [c \in Consumers |-> IF c \in cs THEN "closed" ELSE consumer[c]]
    /\ \A p \in ps : /\ producer[p] = "open"
                     /\ x = ProducerClosing(producerTransport[p], p) \/ x \in Closings(producerTransport[p])
    /\ \A c \in cs : /\ consumer[c] = "open"
                     /\ x = ConsumerClosing(consumerTransport[c], c) \/ x \in Closings(consumerTransport[c])
    /\ \A t, p : x = ProducerClosing(t, p) => p \in ps
    /\ \A t, c : x = ConsumerClosing(t, c) => c \in cs
    /\ closeEvent' \in [Consumers -> {None, "close", "transportclose", "producerclose"}]
    /\ routerProducers' \subseteq routerProducers /\ routerClosed' \in BOOLEAN
    /\ UNCHANGED <<producerTransport, consumerTransport, consumed, sents, replies, microtasks, immediates,
                   channelClosed, workerRunning, wTransports, wProduced, wConsumed>>

\* A closing call keeps the invariant: what it closes in JS, its request closes in the worker.
LEMMA ClosingInv ==
    ASSUME NodeInv, RouterKnowsProducers', NEW x, NEW ps, NEW cs, Closes(x, ps, cs)
    PROVE  NodeInv'
<1> USE DEF NodeInv
<1>1. UNCHANGED <<producerTransport, consumerTransport, consumed, sents, replies, microtasks, immediates,
                  channelClosed, workerRunning, wTransports, wProduced, wConsumed>>
  BY Zenon DEF Closes
<1>2. /\ x \in Requests /\ Unrelated(x) /\ Send(x)
      /\ transport' \in [Transports -> {"open", "closed"}]
      /\ closeEvent' \in [Consumers -> {None, "close", "transportclose", "producerclose"}]
      /\ routerProducers' \subseteq routerProducers /\ routerClosed' \in BOOLEAN
  BY Zenon DEF Closes
<1>3. /\ \A t \in Transports : transport'[t] = "open" <=> transport[t] = "open" /\ x \notin Closings(t)
      /\ \A p \in ps : /\ producer[p] = "open"
                       /\ x = ProducerClosing(producerTransport[p], p) \/ x \in Closings(producerTransport[p])
      /\ \A c \in cs : /\ consumer[c] = "open"
                       /\ x = ConsumerClosing(consumerTransport[c], c) \/ x \in Closings(consumerTransport[c])
      /\ \A t, p : x = ProducerClosing(t, p) => p \in ps
      /\ \A t, c : x = ConsumerClosing(t, c) => c \in cs
  BY Zenon DEF Closes
<1>4. /\ \A p \in Producers : producer'[p] = IF p \in ps THEN "closed" ELSE producer[p]
      /\ \A c \in Consumers : consumer'[c] = IF c \in cs THEN "closed" ELSE consumer[c]
      /\ producer' \in [Producers -> Statuses] /\ consumer' \in [Consumers -> Statuses]
  BY Zenon DEF Typed, Statuses, Closes
<1>5. requests' \in Seq(Requests) /\ (~channelClosed => IsAdded(requests', requests, x, Requests))
  <2>1. CASE channelClosed
    BY <1>2, <2>1 DEF Send, Typed
  <2>2. CASE ~channelClosed
    <3>1. requests' = Append(requests, x)
      BY <1>2, <2>2 DEF Send
    <3>2. IsAdded(requests', requests, x, Requests)
      BY <1>2, <3>1, Added, Zenon DEF Typed
    <3> QED BY <3>2 DEF IsAdded
  <2> QED BY <2>1, <2>2
<1>6. /\ \A i \in Ids : Status(i)' = Status(i) \/ (Status(i)' = "closed" /\ Status(i) = "open")
      /\ \A p \in Producers : Status(p)' = IF p \in ps THEN "closed" ELSE Status(p)
      /\ \A c \in Consumers : Status(c)' = IF c \in cs THEN "closed" ELSE Status(c)
  BY <1>3, <1>4, Apart, Zenon DEF Status, Ids, Closes
<1>7. Typed'
  <2>1. \A p \in routerProducers' : producer'[p] \in {"open", "closed"}
    BY <1>2, <1>4, Zenon DEF Typed
  <2>2. \A p \in Producers : producer'[p] # "none" => producer[p] # "none"
    BY <1>3, <1>4, Zenon
  <2>3. \A c \in Consumers : consumer'[c] # "none" => consumer[c] # "none"
    BY <1>3, <1>4, Zenon
  <2>4. routerProducers' \subseteq Producers
    BY <1>2, Zenon DEF Typed
  <2> QED BY <1>1, <1>2, <1>4, <1>5, <2>1, <2>2, <2>3, <2>4, Zenon DEF Typed
<1>8. PromisesKept'
  BY <1>1, <1>6, Zenon DEF PromisesKept
<1>9. NotesKnown'
  BY <1>1, <1>4, Zenon DEF NotesKnown
<1>10. ASSUME workerRunning PROVE Agreement'
  <2>1. /\ AskedOnce /\ AskedAsKnown /\ TransportsAgree /\ ProducersAgree /\ ConsumersAgree /\ NotesFollow
    BY <1>10 DEF Agreement
  <2>2. IsAdded(requests', requests, x, Requests)
    BY <1>5, <1>10 DEF Typed
  <2>3. /\ \A i : Holds(requests', Creations(i)) <=> Holds(requests, Creations(i))
        /\ \A i : Once(requests', Creations(i)) <=> Once(requests, Creations(i))
        /\ \A u, q : Holds(requests', {ProduceRequest(u, q)}) <=> Holds(requests, {ProduceRequest(u, q)})
        /\ \A u, d, q : Holds(requests', {ConsumeRequest(u, d, q)}) <=> Holds(requests, {ConsumeRequest(u, d, q)})
        /\ \A u : Holds(requests', Closings(u)) <=> Holds(requests, Closings(u)) \/ x \in Closings(u)
        /\ \A u, q : Holds(requests', {ProducerClosing(u, q)})
                         <=> Holds(requests, {ProducerClosing(u, q)}) \/ x = ProducerClosing(u, q)
        /\ \A u, c : Holds(requests', {ConsumerClosing(u, c)})
                         <=> Holds(requests, {ConsumerClosing(u, c)}) \/ x = ConsumerClosing(u, c)
    BY <1>2, <2>2, Zenon DEF IsAdded, Unrelated
  <2>4. AskedOnce'
    BY <1>1, <2>1, <2>3, Zenon DEF AskedOnce
  <2>5. AskedAsKnown'
    BY <1>1, <2>1, <2>3, Zenon DEF AskedAsKnown
  <2>6. TransportsAgree'
    <3>1. \A t \in Transports : transport'[t] = "open" <=> transport[t] = "open" /\ x \notin Closings(t)
      BY <1>3, Zenon
    <3>2. \A u : Holds(requests', Closings(u)) <=> Holds(requests, Closings(u)) \/ x \in Closings(u)
      BY <2>3, Zenon
    <3> QED BY <1>1, <2>1, <3>1, <3>2, Zenon DEF TransportsAgree
  <2>7. /\ \A i \in Ids : Living(i)' => Living(i)
        /\ \A p \in Producers : Living(p) => Living(p)' \/ p \in ps
        /\ \A c \in Consumers : Living(c) => Living(c)' \/ c \in cs
    BY <1>1, <1>6, Zenon DEF Living
  <2>8. ASSUME NEW u \in Transports, NEW q \in Producers PROVE ProducerAgrees(u, q)'
    <3>1. ProducerAgrees(u, q) /\ (Living(q)' => Living(q)) /\ (Living(q) => Living(q)' \/ q \in ps)
      BY <2>1, <2>7, Apart, Zenon DEF ProducersAgree
    <3>2. /\ producer'[q] = (IF q \in ps THEN "closed" ELSE producer[q])
          /\ transport'[u] = "open" => transport[u] = "open"
          /\ q \in ps => x = ProducerClosing(producerTransport[q], q) \/ x \in Closings(producerTransport[q])
          /\ x = ProducerClosing(u, q) => q \in ps
      <4>1. producer'[q] = (IF q \in ps THEN "closed" ELSE producer[q])
        BY <1>4, Zenon
      <4>2. transport'[u] = "open" => transport[u] = "open"
        BY <1>3, Zenon
      <4>3. /\ q \in ps => x = ProducerClosing(producerTransport[q], q) \/ x \in Closings(producerTransport[q])
            /\ x = ProducerClosing(u, q) => q \in ps
        BY <1>3, Zenon
      <4> QED BY <4>1, <4>2, <4>3, Zenon
    <3>3. /\ Holds(requests', Closings(u)) <=> Holds(requests, Closings(u)) \/ x \in Closings(u)
          /\ Holds(requests', {ProducerClosing(u, q)})
                         <=> Holds(requests, {ProducerClosing(u, q)}) \/ x = ProducerClosing(u, q)
      BY <2>3, Zenon
    <3> QED BY <1>1, <3>1, <3>2, <3>3, Zenon DEF ProducerAgrees
  <2>9. ASSUME NEW u \in Transports, NEW c \in Consumers, NEW q \in Producers PROVE ConsumerAgrees(u, c, q)'
    <3>1. ConsumerAgrees(u, c, q) /\ (Living(c)' => Living(c)) /\ (Living(c) => Living(c)' \/ c \in cs)
      BY <2>1, <2>7, Apart, Zenon DEF ConsumersAgree
    <3>2. /\ consumer'[c] = (IF c \in cs THEN "closed" ELSE consumer[c])
          /\ transport'[u] = "open" => transport[u] = "open"
          /\ c \in cs => x = ConsumerClosing(consumerTransport[c], c) \/ x \in Closings(consumerTransport[c])
          /\ x = ConsumerClosing(u, c) => c \in cs
      <4>1. consumer'[c] = (IF c \in cs THEN "closed" ELSE consumer[c])
        BY <1>4, Zenon
      <4>2. transport'[u] = "open" => transport[u] = "open"
        BY <1>3, Zenon
      <4>3. /\ c \in cs => x = ConsumerClosing(consumerTransport[c], c) \/ x \in Closings(consumerTransport[c])
            /\ x = ConsumerClosing(u, c) => c \in cs
        BY <1>3, Zenon
      <4> QED BY <4>1, <4>2, <4>3, Zenon
    <3>3. /\ Holds(requests', Closings(u)) <=> Holds(requests, Closings(u)) \/ x \in Closings(u)
          /\ Holds(requests', {ConsumerClosing(u, c)})
                         <=> Holds(requests, {ConsumerClosing(u, c)}) \/ x = ConsumerClosing(u, c)
      BY <2>3, Zenon
    <3> QED BY <1>1, <3>1, <3>2, <3>3, Zenon DEF ConsumerAgrees, Noted
  <2>10. NotesFollow'
    BY <1>1, <2>1 DEF NotesFollow
  <2> QED BY <2>4, <2>5, <2>6, <2>8, <2>9, <2>10 DEF Agreement, ProducersAgree, ConsumersAgree
<1> QED BY <1>1, <1>7, <1>8, <1>9, <1>10

\* producer.close().
LEMMA CloseProducerInv ==
    ASSUME NodeInv, NEW p \in Producers, CloseProducer(p)
    PROVE  NodeInv'
<1>1. producerTransport[p] \in Transports /\ producer[p] = "open"
  BY Zenon DEF CloseProducer, NodeInv, Typed
<1>2. PICK x : x = ProducerClosing(producerTransport[p], p)
  OBVIOUS
<1>3. /\ x \in Requests /\ Unrelated(x)
      /\ \A u, q : x = ProducerClosing(u, q) <=> u = producerTransport[p] /\ q = p
      /\ \A u, c : x # ConsumerClosing(u, c)
      /\ \A u : x \notin Closings(u)
  BY <1>1, <1>2, ProducerClosingFacts, SMTT(60)
<1>4. /\ Send(x)
      /\ UNCHANGED <<producerTransport, consumerTransport, consumed, sents, replies, microtasks, immediates,
                     channelClosed, workerRunning, wTransports, wProduced, wConsumed>>
      /\ UNCHANGED <<transport, consumer, closeEvent, routerClosed>>
      /\ routerProducers' = routerProducers \ {p}
  BY <1>2, Zenon DEF CloseProducer, ProducerClosing, workerVars
<1>5. /\ producer' = [q \in Producers |-> IF q \in {p} THEN "closed" ELSE producer[q]]
      /\ consumer' = [c \in Consumers |-> IF c \in {} THEN "closed" ELSE consumer[c]]
  BY <1>4, Zenon DEF CloseProducer, NodeInv, Typed
<1>6. RouterKnowsProducers'
  BY <1>4, <1>5, Zenon DEF RouterKnowsProducers, NodeInv, Typed
<1>7. \A t \in Transports : transport'[t] = "open" <=> transport[t] = "open" /\ x \notin Closings(t)
  BY <1>3, <1>4
<1>8. /\ transport' \in [Transports -> {"open", "closed"}] /\ routerProducers' \subseteq routerProducers
      /\ closeEvent' \in [Consumers -> {None, "close", "transportclose", "producerclose"}] /\ routerClosed' \in BOOLEAN
  BY <1>4, Zenon DEF NodeInv, Typed
<1>9. Closes(x, {p}, {})
  <2>1. /\ {p} \subseteq Producers /\ {} \subseteq Consumers
        /\ \A q \in {p} : /\ producer[q] = "open"
                          /\ x = ProducerClosing(producerTransport[q], q) \/ x \in Closings(producerTransport[q])
        /\ \A c \in {} : /\ consumer[c] = "open"
                         /\ x = ConsumerClosing(consumerTransport[c], c) \/ x \in Closings(consumerTransport[c])
        /\ \A t, q : x = ProducerClosing(t, q) => q \in {p}
        /\ \A t, c : x = ConsumerClosing(t, c) => c \in {}
    BY <1>1, <1>2, <1>3
  <2> QED BY <1>3, <1>4, <1>5, <1>7, <1>8, <2>1, Zenon DEF Closes
<1> QED BY <1>6, <1>9, ClosingInv

\* consumer.close().
LEMMA CloseConsumerInv ==
    ASSUME NodeInv, NEW c \in Consumers, CloseConsumer(c)
    PROVE  NodeInv'
<1>1. consumerTransport[c] \in Transports /\ consumer[c] = "open"
  BY Zenon DEF CloseConsumer, NodeInv, Typed
<1>2. PICK x : x = ConsumerClosing(consumerTransport[c], c)
  OBVIOUS
<1>3. /\ x \in Requests /\ Unrelated(x)
      /\ \A u, q : x # ProducerClosing(u, q)
      /\ \A u, d : x = ConsumerClosing(u, d) <=> u = consumerTransport[c] /\ d = c
      /\ \A u : x \notin Closings(u)
  BY <1>1, <1>2, ConsumerClosingFacts, SMTT(60)
<1>4. /\ Send(x)
      /\ UNCHANGED <<producerTransport, consumerTransport, consumed, sents, replies, microtasks, immediates,
                     channelClosed, workerRunning, wTransports, wProduced, wConsumed>>
      /\ UNCHANGED <<transport, producer, routerClosed, routerProducers>>
  BY <1>2 DEF CloseConsumer, ConsumerClosing, workerVars
<1>5. /\ producer' = [q \in Producers |-> IF q \in {} THEN "closed" ELSE producer[q]]
      /\ consumer' = [d \in Consumers |-> IF d \in {c} THEN "closed" ELSE consumer[d]]
      /\ closeEvent' \in [Consumers -> {None, "close", "transportclose", "producerclose"}]
  BY <1>4, Zenon DEF CloseConsumer, NodeInv, Typed
<1>6. RouterKnowsProducers'
  BY <1>4, Zenon DEF RouterKnowsProducers, NodeInv
<1>7. \A t \in Transports : transport'[t] = "open" <=> transport[t] = "open" /\ x \notin Closings(t)
  BY <1>3, <1>4
<1>8. /\ transport' \in [Transports -> {"open", "closed"}] /\ routerProducers' \subseteq routerProducers
      /\ routerClosed' \in BOOLEAN
  BY <1>4, Zenon DEF NodeInv, Typed
<1>9. Closes(x, {}, {c})
  <2>1. /\ {} \subseteq Producers /\ {c} \subseteq Consumers
        /\ \A p \in {} : /\ producer[p] = "open"
                         /\ x = ProducerClosing(producerTransport[p], p) \/ x \in Closings(producerTransport[p])
        /\ \A d \in {c} : /\ consumer[d] = "open"
                          /\ x = ConsumerClosing(consumerTransport[d], d) \/ x \in Closings(consumerTransport[d])
        /\ \A t, p : x = ProducerClosing(t, p) => p \in {}
        /\ \A t, d : x = ConsumerClosing(t, d) => d \in {c}
    BY <1>1, <1>2, <1>3
  <2> QED BY <1>3, <1>4, <1>5, <1>7, <1>8, <2>1, Zenon DEF Closes
<1> QED BY <1>6, <1>9, ClosingInv

\* Closing the Transports ts, when x closes them and no other that is open.
LEMMA ChildrenInv ==
    ASSUME NodeInv, RouterKnowsProducers', NEW ts \in SUBSET Transports, ChildrenClosed(ts),
           NEW x, NEW cover, ClosesExactly(x, cover), Send(x), ts \subseteq cover,
           \A t \in Transports : t \in cover /\ t \notin ts => transport[t] = "closed",
           routerProducers' \subseteq routerProducers, routerClosed' \in BOOLEAN,
           UNCHANGED <<sents, replies, microtasks, immediates, channelClosed, workerRunning, workerVars>>
    PROVE  NodeInv'
<1>1. /\ x \in Requests /\ Unrelated(x)
      /\ \A t, p : x # ProducerClosing(t, p)
      /\ \A t, c : x # ConsumerClosing(t, c)
      /\ \A t \in Transports : x \in Closings(t) <=> t \in cover
  BY DEF ClosesExactly
<1>2. /\ transport' = [t \in Transports |-> IF t \in ts THEN "closed" ELSE transport[t]]
      /\ producer' = [p \in Producers |-> IF p \in ProducersOf(ts) THEN "closed" ELSE producer[p]]
      /\ consumer' = [c \in Consumers |-> IF c \in ConsumersOf(ts) THEN "closed" ELSE consumer[c]]
      /\ UNCHANGED <<producerTransport, consumerTransport, consumed, sents, replies, microtasks, immediates,
                     channelClosed, workerRunning, wTransports, wProduced, wConsumed>>
  BY Zenon DEF ChildrenClosed, workerVars
<1>3. /\ ProducersOf(ts) \in SUBSET Producers /\ ConsumersOf(ts) \in SUBSET Consumers
      /\ \A p \in ProducersOf(ts) : producer[p] = "open" /\ producerTransport[p] \in ts
      /\ \A c \in ConsumersOf(ts) : consumer[c] = "open" /\ consumerTransport[c] \in ts
  BY Zenon DEF ProducersOf, ConsumersOf
<1>4. /\ transport' \in [Transports -> {"open", "closed"}]
      /\ \A t \in Transports : transport'[t] = "open" <=> transport[t] = "open" /\ x \notin Closings(t)
  BY <1>1, <1>2, Zenon DEF NodeInv, Typed
<1>5. closeEvent' \in [Consumers -> {None, "close", "transportclose", "producerclose"}]
  BY Zenon DEF ChildrenClosed, NodeInv, Typed
<1>6. /\ \A p \in ProducersOf(ts) : x \in Closings(producerTransport[p])
      /\ \A c \in ConsumersOf(ts) : x \in Closings(consumerTransport[c])
  BY <1>1, <1>3, Zenon
<1>7. Closes(x, ProducersOf(ts), ConsumersOf(ts))
  <2>1. /\ ProducersOf(ts) \subseteq Producers /\ ConsumersOf(ts) \subseteq Consumers
        /\ \A p \in ProducersOf(ts) :
              /\ producer[p] = "open"
              /\ x = ProducerClosing(producerTransport[p], p) \/ x \in Closings(producerTransport[p])
        /\ \A c \in ConsumersOf(ts) :
              /\ consumer[c] = "open"
              /\ x = ConsumerClosing(consumerTransport[c], c) \/ x \in Closings(consumerTransport[c])
        /\ \A t, p : x = ProducerClosing(t, p) => p \in ProducersOf(ts)
        /\ \A t, c : x = ConsumerClosing(t, c) => c \in ConsumersOf(ts)
    BY <1>1, <1>3, <1>6, Zenon
  <2> QED BY <1>1, <1>2, <1>4, <1>5, <2>1, Zenon DEF Closes
<1> QED BY <1>7, ClosingInv, Zenon

\* transport.close().
LEMMA CloseTransportInv ==
    ASSUME NodeInv, NEW t \in Transports, CloseTransport(t)
    PROVE  NodeInv'
<1>1. PICK x : x = TransportsClosing({t})
  OBVIOUS
<1>2. ClosesExactly(x, {t}) /\ Send(x) /\ {t} \in SUBSET Transports
  BY <1>1, TransportsClosingFacts DEF CloseTransport, TransportsClosing
<1>3. RouterKnowsProducers'
  BY Zenon DEF CloseTransport, ChildrenClosed, ProducersOf, RouterKnowsProducers, NodeInv, Typed
<1>4. /\ ChildrenClosed({t}) /\ routerProducers' \subseteq routerProducers /\ routerClosed' \in BOOLEAN
      /\ UNCHANGED <<sents, replies, microtasks, immediates, channelClosed, workerRunning, workerVars>>
  BY Zenon DEF CloseTransport, NodeInv, Typed
<1> QED BY <1>2, <1>3, <1>4, ChildrenInv, Zenon

\* webRtcServer.close().
LEMMA CloseWebRtcServerInv ==
    ASSUME NodeInv, CloseWebRtcServer
    PROVE  NodeInv'
<1>1. PICK x : x = TransportsClosing(ServedTransports)
  OBVIOUS
<1>2. /\ ServedTransports \in SUBSET Transports /\ OpenAmong(ServedTransports) \subseteq ServedTransports
      /\ \A t \in Transports : t \in ServedTransports /\ t \notin OpenAmong(ServedTransports) => transport[t] = "closed"
  BY NodeAssumption DEF OpenAmong, NodeInv, Typed
<1>3. ClosesExactly(x, ServedTransports) /\ Send(x)
  BY <1>1, <1>2, TransportsClosingFacts DEF CloseWebRtcServer, TransportsClosing
<1>4. RouterKnowsProducers'
  BY <1>2, Zenon DEF CloseWebRtcServer, ChildrenClosed, ProducersOf, RouterKnowsProducers, NodeInv, Typed
<1>5. /\ ChildrenClosed(OpenAmong(ServedTransports)) /\ routerProducers' \subseteq routerProducers
      /\ routerClosed' \in BOOLEAN
      /\ UNCHANGED <<sents, replies, microtasks, immediates, channelClosed, workerRunning, workerVars>>
  BY Zenon DEF CloseWebRtcServer, NodeInv, Typed
<1> QED BY <1>2, <1>3, <1>4, <1>5, ChildrenInv, Zenon

\* router.close().
LEMMA CloseRouterInv ==
    ASSUME NodeInv, CloseRouter
    PROVE  NodeInv'
<1>1. PICK x : x = RouterClosing
  OBVIOUS
<1>2. /\ OpenAmong(Transports) \in SUBSET Transports
      /\ \A t \in Transports : t \in Transports /\ t \notin OpenAmong(Transports) => transport[t] = "closed"
  BY DEF OpenAmong, NodeInv, Typed
<1>3. ClosesExactly(x, Transports) /\ Send(x)
  BY <1>1, RouterClosingFacts DEF CloseRouter, RouterClosing
<1>4. RouterKnowsProducers'
  BY <1>2, Zenon DEF CloseRouter, ChildrenClosed, ProducersOf, RouterKnowsProducers, NodeInv, Typed
<1>5. /\ ChildrenClosed(OpenAmong(Transports)) /\ routerProducers' \subseteq routerProducers
      /\ routerClosed' \in BOOLEAN
      /\ UNCHANGED <<sents, replies, microtasks, immediates, channelClosed, workerRunning, workerVars>>
  BY Zenon DEF CloseRouter, NodeInv, Typed
<1> QED BY <1>2, <1>3, <1>4, <1>5, ChildrenInv, Zenon

(***************************************************************************)
(* The end of the worker.                                                  *)
(***************************************************************************)

\* worker.close(), or the 'exit' event.
LEMMA WorkerClosedInv ==
    ASSUME NodeInv, WorkerClosed
    PROVE  NodeInv'
<1> USE DEF NodeInv
<1> DEFINE Rejected(i) == Task(i, FALSE)
           N == {Rejected(i) : i \in sents}
           ts == IF routerClosed THEN {} ELSE OpenAmong(Transports)
           U == UNION {Tasks(i) : i \in Ids}
<1>1. PICK tasks \in Listings(N) : microtasks' = microtasks \o tasks
  BY Zenon DEF WorkerClosed, RejectSents, Task
<1>2. \A i, j : Rejected(i) \in Tasks(j) <=> j = i
  BY Zenon DEF Task, Tasks
<1> HIDE DEF Rejected
<1>3. N \subseteq U
  BY <1>2 DEF Typed
<1>4. IsJoined(microtasks', microtasks, N, U)
  <2> HIDE DEF N, U
  <2>1. microtasks \in Seq(U)
    BY Zenon DEF Typed, U
  <2> QED BY <1>1, <1>3, <2>1, Joined
<1>5. \A i : (\E x \in N : x \in Tasks(i)) <=> i \in sents
  BY <1>2, SMTT(60)
<1>6. \A i : \A x, y \in N : x \in Tasks(i) /\ y \in Tasks(i) => x = y
  BY <1>2
<1>7. /\ sents' = {} /\ channelClosed' = TRUE /\ workerRunning' = FALSE /\ routerClosed' = TRUE
      /\ routerProducers' = IF routerClosed THEN routerProducers ELSE {}
      /\ UNCHANGED <<requests, replies, immediates, wTransports, wProduced, wConsumed,
                     producerTransport, consumerTransport, consumed>>
  BY Zenon DEF WorkerClosed, workerVars, ChildrenClosed
<1>8. /\ transport' = [t \in Transports |-> IF t \in ts THEN "closed" ELSE transport[t]]
      /\ producer' = [p \in Producers |-> IF p \in ProducersOf(ts) THEN "closed" ELSE producer[p]]
      /\ consumer' = [c \in Consumers |-> IF c \in ConsumersOf(ts) THEN "closed" ELSE consumer[c]]
      /\ closeEvent' = [c \in Consumers |-> IF c \in ConsumersOf(ts) THEN "transportclose" ELSE closeEvent[c]]
  BY Zenon DEF WorkerClosed, ChildrenClosed
<1>9. /\ \A p \in ProducersOf(ts) : producer[p] = "open" /\ producerTransport[p] \in ts
      /\ \A c \in ConsumersOf(ts) : consumer[c] = "open"
  BY Zenon DEF ProducersOf, ConsumersOf
<1>10. routerClosed => ts = {}
  OBVIOUS
<1>11. ASSUME ~routerClosed PROVE \A t \in Transports : transport'[t] = "closed"
  BY <1>8, <1>11, Zenon DEF OpenAmong, Typed
<1> HIDE DEF N, ts, U
<1>12. Typed'
  <2>1. microtasks' \in Seq(U)
    BY <1>4 DEF IsJoined
  <2>2. /\ transport' \in [Transports -> {"open", "closed"}] /\ producer' \in [Producers -> Statuses]
        /\ consumer' \in [Consumers -> Statuses]
        /\ closeEvent' \in [Consumers -> {None, "close", "transportclose", "producerclose"}]
    BY <1>8, Zenon DEF Typed, Statuses
  <2>3. /\ \A p \in routerProducers' : producer'[p] \in {"open", "closed"}
        /\ \A p \in Producers : producer'[p] # "none" => producerTransport'[p] \in Transports
        /\ \A c \in Consumers : consumer'[c] # "none" => consumerTransport'[c] \in Transports /\ consumed'[c] \in Producers
    BY <1>7, <1>8, <1>9, Zenon DEF Typed
  <2> QED BY <1>7, <2>1, <2>2, <2>3, Zenon DEF Typed, U
<1>13. \A i \in Ids : Status(i)' = Status(i) \/ (Status(i)' = "closed" /\ Status(i) = "open")
  BY <1>8, <1>9, Zenon DEF Status, Ids
<1>14. PromisesKept'
  <2>1. ASSUME NEW i \in Ids
        PROVE  /\ Holds(microtasks', Tasks(i)) <=> Status(i)' = "pending"
               /\ Once(microtasks', Tasks(i))
    <3>1. /\ i \in sents \/ Holds(microtasks, Tasks(i)) <=> Status(i) = "pending"
          /\ i \in sents => ~Holds(microtasks, Tasks(i))
          /\ Once(microtasks, Tasks(i))
      BY DEF PromisesKept
    <3>2. Holds(microtasks', Tasks(i)) <=> Holds(microtasks, Tasks(i)) \/ i \in sents
      BY <1>4, <1>5 DEF IsJoined
    <3>3. Holds(microtasks, Tasks(i)) => \A x \in N : x \notin Tasks(i)
      BY <1>5, <3>1
    <3>4. Once(microtasks', Tasks(i))
      BY <1>4, <1>6, <3>1, <3>3, Zenon DEF IsJoined
    <3> QED BY <1>13, <3>1, <3>2, <3>4
  <2> QED BY <1>7, <2>1, Zenon DEF PromisesKept
<1>15. NotesKnown'
  BY <1>7, <1>8, <1>9, Zenon DEF NotesKnown
<1>16. RouterKnowsProducers'
  <2>1. CASE routerClosed
    BY <1>7, <1>8, <1>9, <1>10, <2>1, Zenon DEF RouterKnowsProducers, Typed
  <2>2. CASE ~routerClosed
    BY <1>7, <1>11, <1>12, <2>2, Zenon DEF RouterKnowsProducers, Typed
  <2> QED BY <2>1, <2>2
<1> QED BY <1>7, <1>12, <1>14, <1>15, <1>16

\* The process is killed or aborts.
LEMMA WorkerDiesInv ==
    ASSUME NodeInv, WorkerDies
    PROVE  NodeInv'
<1> USE DEF NodeInv
<1>1. workerRunning' = FALSE /\ UNCHANGED <<jsVars, queueVars, channelClosed, workerVars>>
  BY DEF WorkerDies
<1>2. Typed'
  BY <1>1, Zenon DEF Typed, jsVars, queueVars, workerVars
<1>3. PromisesKept' /\ NotesKnown' /\ RouterKnowsProducers'
  BY <1>1, Zenon DEF PromisesKept, NotesKnown, RouterKnowsProducers, Status, jsVars, queueVars
<1> QED BY <1>1, <1>2, <1>3

(***************************************************************************)
(* The Node event loop.                                                    *)
(***************************************************************************)

\* A response settles its promise.
LEMMA ReceiveResponseInv ==
    ASSUME NodeInv, Receive, Head(replies).kind = "response"
    PROVE  NodeInv'
<1> USE DEF NodeInv
<1>1. IsTaken(replies', replies, Head(replies), Replies)
  BY Taken, Zenon DEF Receive, Typed
<1>2. Head(replies) \in Replies
  BY <1>1 DEF IsTaken
<1>3. PICK i \in Ids, b \in BOOLEAN : Head(replies) = Answer(i, b)
  BY <1>2, ReplySets, ReplyFacts, Zenon
<1>4. PICK m : m = Head(replies)
  OBVIOUS
<1>5. /\ m = Answer(i, b) /\ m.id = i /\ m.accepted = b /\ m.kind = "response"
      /\ IsTaken(replies', replies, m, Replies)
  BY <1>1, <1>3, <1>4, ReplyFacts, SMTT(60)
<1>6. /\ sents' = sents \ {i}
      /\ microtasks' = IF i \in sents THEN Append(microtasks, Task(i, b)) ELSE microtasks
      /\ UNCHANGED immediates
      /\ UNCHANGED <<jsVars, requests, channelClosed, workerRunning, workerVars>>
  BY <1>4, <1>5, Zenon DEF Receive, Task
<1>7. UNCHANGED <<transport, producer, consumer, producerTransport, consumerTransport,
                  consumed, routerClosed, routerProducers, closeEvent, wTransports, wProduced, wConsumed>>
  BY <1>6 DEF jsVars, workerVars
<1>8. /\ \A j : m \in Answers(j) <=> j = i
      /\ \A j : m = Answer(j, TRUE) <=> j = i /\ b = TRUE
      /\ \A c : m # Note(c)
      /\ \A j : Task(i, b) \in Tasks(j) <=> j = i
      /\ \A j : Task(i, b) = Task(j, TRUE) <=> j = i /\ b = TRUE
  <2>1. Answer(i, b) = m
    BY <1>5
  <2>2. /\ \A j : (Answer(i, b) \in Answers(j) <=> j = i) /\ (Task(i, b) \in Tasks(j) <=> j = i)
        /\ \A j : Answer(i, b) = Answer(j, TRUE) <=> i = j /\ b = TRUE
        /\ \A j : Task(i, b) = Task(j, TRUE) <=> i = j /\ b = TRUE
        /\ \A c : Answer(i, b) # Note(c)
    <3>1. \A j : (Answer(i, b) \in Answers(j) <=> j = i) /\ (Task(i, b) \in Tasks(j) <=> j = i)
      BY ReplySets
    <3>2. /\ \A j : Answer(i, b) = Answer(j, TRUE) <=> i = j /\ b = TRUE
          /\ \A c : Answer(i, b) # Note(c)
      BY Zenon DEF Answer, Note
    <3>3. \A j : Task(i, b) = Task(j, TRUE) <=> i = j /\ b = TRUE
      BY Zenon DEF Task
    <3> QED BY <3>1, <3>2, <3>3, Zenon
  <2> QED BY <2>1, <2>2, Zenon
<1>9. /\ microtasks' \in Seq(UNION {Tasks(j) : j \in Ids})
      /\ i \in sents => IsAdded(microtasks', microtasks, Task(i, b), UNION {Tasks(j) : j \in Ids})
  <2>1. CASE i \in sents
    <3>1. Task(i, b) \in UNION {Tasks(j) : j \in Ids}
      BY <1>8
    <3>2. IsAdded(microtasks', microtasks, Task(i, b), UNION {Tasks(j) : j \in Ids})
      BY <1>6, <2>1, <3>1, Added, Zenon DEF Typed
    <3> QED BY <3>2, Zenon DEF IsAdded
  <2>2. CASE i \notin sents
    BY <1>6, <2>2, Zenon DEF Typed
  <2> QED BY <2>1, <2>2
<1>10. \A j \in Ids : Status(j)' = Status(j)
  BY <1>7, Zenon DEF Status
<1>11. Typed'
  <2>1. replies' \in Seq(Replies)
    BY <1>5 DEF IsTaken
  <2> QED BY <1>6, <1>7, <1>9, <2>1, Zenon DEF Typed
<1>12. PromisesKept'
  <2>1. CASE i \in sents
    <3>1. /\ \A j : Holds(microtasks', Tasks(j)) <=> Holds(microtasks, Tasks(j)) \/ j = i
          /\ \A j : Once(microtasks', Tasks(j)) <=> Once(microtasks, Tasks(j)) /\ (j = i => ~Holds(microtasks, Tasks(j)))
      BY <1>8, <1>9, <2>1, Zenon DEF IsAdded
    <3> QED BY <1>6, <1>10, <2>1, <3>1, Zenon DEF PromisesKept
  <2>2. CASE i \notin sents
    BY <1>6, <1>10, <2>2, Zenon DEF PromisesKept
  <2> QED BY <2>1, <2>2
<1>13. \A S : Holds(replies', S) => Holds(replies, S)
  BY <1>5 DEF IsTaken
<1>14. NotesKnown'
  BY <1>6, <1>7, <1>13, Zenon DEF NotesKnown
<1>15. RouterKnowsProducers'
  BY <1>7, Zenon DEF RouterKnowsProducers
<1>16. ASSUME workerRunning PROVE Agreement'
  <2>1. /\ AskedOnce /\ AskedAsKnown /\ TransportsAgree /\ ProducersAgree /\ ConsumersAgree /\ NotesFollow
    BY <1>16 DEF Agreement
  <2>2. /\ \A j : Holds(replies, Answers(j)) <=> Holds(replies', Answers(j)) \/ j = i
        /\ \A j : Once(replies, Answers(j)) => Once(replies', Answers(j)) /\ (j = i => ~Holds(replies', Answers(j)))
        /\ \A c : Holds(replies', {Note(c)}) <=> Holds(replies, {Note(c)})
        /\ \A j : Holds(replies, {Answer(j, TRUE)}) <=> Holds(replies', {Answer(j, TRUE)}) \/ (j = i /\ b = TRUE)
        /\ \A c : c # i /\ Led(replies, Answers(c), {Note(c)}) => Led(replies', Answers(c), {Note(c)})
    BY <1>5, <1>8, Zenon DEF IsTaken
  <2>3. i \in sents
    BY <2>1, <2>2, Zenon DEF AskedOnce
  <2>4. \A j : Holds(microtasks', {Task(j, TRUE)}) <=> Holds(microtasks, {Task(j, TRUE)}) \/ (j = i /\ b = TRUE)
    BY <1>8, <1>9, <2>3, Zenon DEF IsAdded
  <2>5. AskedOnce'
    BY <1>6, <2>1, <2>2, Zenon DEF AskedOnce
  <2>6. AskedAsKnown' /\ TransportsAgree'
    <3>1. AskedAsKnown'
      BY <1>6, <1>7, <2>1, Zenon DEF AskedAsKnown
    <3>2. TransportsAgree'
      BY <1>6, <1>7, <2>1, Zenon DEF TransportsAgree
    <3> QED BY <3>1, <3>2
  <2>7. \A j \in Ids : Living(j)' <=> Living(j)
    BY <1>10, <2>2, <2>4, Zenon DEF Living
  <2>8. ASSUME NEW u \in Transports, NEW q \in Producers PROVE ProducerAgrees(u, q)'
    <3>1. ProducerAgrees(u, q) /\ (Living(q)' <=> Living(q))
      BY <2>1, <2>7, Apart, Zenon DEF ProducersAgree
    <3> QED BY <1>6, <1>7, <3>1, Zenon DEF ProducerAgrees
  <2>9. ASSUME NEW u \in Transports, NEW c \in Consumers, NEW q \in Producers PROVE ConsumerAgrees(u, c, q)'
    <3>1. ConsumerAgrees(u, c, q) /\ (Living(c)' <=> Living(c))
      BY <2>1, <2>7, Apart, Zenon DEF ConsumersAgree
    <3>2. /\ Noted(c)' <=> Noted(c)
          /\ (c \in sents => Holds(replies, Answers(c))) => (c \in sents' => Holds(replies', Answers(c)))
      BY <1>6, <2>2, Zenon DEF Noted
    <3> QED BY <1>6, <1>7, <3>1, <3>2, Zenon DEF ConsumerAgrees
  <2>10. NotesFollow'
    BY <1>6, <2>1, <2>2, Zenon DEF NotesFollow
  <2> QED BY <2>5, <2>6, <2>8, <2>9, <2>10 DEF Agreement, ProducersAgree, ConsumersAgree
<1> QED BY <1>6, <1>11, <1>12, <1>14, <1>15, <1>16

\* A notification is put off.
LEMMA ReceiveNoteInv ==
    ASSUME NodeInv, Receive, Head(replies).kind # "response"
    PROVE  NodeInv'
<1> USE DEF NodeInv
<1>1. IsTaken(replies', replies, Head(replies), Replies)
  BY Taken, Zenon DEF Receive, Typed
<1>2. Head(replies) \in Replies
  BY <1>1, Zenon DEF IsTaken
<1>3. PICK n \in Consumers : Head(replies) = Note(n)
  BY <1>2, ReplySets, ReplyFacts, SMTT(60)
<1>4. PICK m : m = Head(replies)
  OBVIOUS
<1>5. m = Note(n) /\ m.id = n /\ m.kind = "producerclose" /\ IsTaken(replies', replies, m, Replies)
  BY <1>1, <1>3, <1>4, ReplyFacts, ZenonT(40)
<1>6. /\ immediates' = Append(immediates, n)
      /\ UNCHANGED <<sents, microtasks>>
      /\ UNCHANGED <<jsVars, requests, channelClosed, workerRunning, workerVars>>
  BY <1>4, <1>5, Zenon DEF Receive
<1>7. UNCHANGED <<transport, producer, consumer, producerTransport, consumerTransport,
                  consumed, routerClosed, routerProducers, closeEvent, wTransports, wProduced, wConsumed>>
  BY <1>6, Zenon DEF jsVars, workerVars
<1>8. IsAdded(immediates', immediates, n, Consumers)
  BY <1>6, Added, Zenon DEF Typed
<1>9. /\ \A S : Holds(replies, S) <=> m \in S \/ Holds(replies', S)
      /\ \A S : Holds(immediates', S) <=> Holds(immediates, S) \/ n \in S
      /\ \A S : Once(replies, S) => Once(replies', S)
      /\ replies' \in Seq(Replies) /\ immediates' \in Seq(Consumers)
  BY <1>5, <1>8, Zenon DEF IsTaken, IsAdded
<1>10. /\ \A j : m \notin Answers(j) /\ m # Answer(j, TRUE)
       /\ \A c : m = Note(c) <=> c = n
  <2>1. \A j : Note(n) \notin Answers(j) /\ Note(n) # Answer(j, TRUE)
    BY Zenon DEF Answer, Answers, Note
  <2>2. \A c : Note(n) = Note(c) <=> c = n
    BY ReplyFacts, Zenon
  <2> QED BY <1>5, <2>1, <2>2, Zenon
<1>11. \A j \in Ids : Status(j)' = Status(j)
  BY <1>7, Zenon DEF Status
<1>12. Typed'
  BY <1>6, <1>7, <1>9, Zenon DEF Typed
<1>13. PromisesKept'
  BY <1>6, <1>11, Zenon DEF PromisesKept
<1>14. \A c : Noted(c)' <=> Noted(c)
  BY <1>9, <1>10, Zenon DEF Noted
<1>15. NotesKnown'
  BY <1>7, <1>14, Zenon DEF NotesKnown, Noted
<1>16. RouterKnowsProducers'
  BY <1>7, Zenon DEF RouterKnowsProducers
<1>17. ASSUME workerRunning PROVE Agreement'
  <2>1. /\ AskedOnce /\ AskedAsKnown /\ TransportsAgree /\ ProducersAgree /\ ConsumersAgree /\ NotesFollow
    BY <1>17 DEF Agreement
  <2>2. /\ \A j : Holds(replies, Answers(j)) <=> Holds(replies', Answers(j))
        /\ \A j : Once(replies, Answers(j)) => Once(replies', Answers(j))
        /\ \A j : Holds(replies, {Answer(j, TRUE)}) <=> Holds(replies', {Answer(j, TRUE)})
    BY <1>9, <1>10, Zenon
  <2>3. /\ \A c : Led(replies, Answers(c), {Note(c)}) => Led(replies', Answers(c), {Note(c)}) /\ c # n
    BY <1>5, <1>10, Zenon DEF IsTaken
  <2>4. n \notin sents
    BY <2>1, <2>3, Zenon DEF NotesFollow
  <2>5. AskedOnce'
    BY <1>6, <2>1, <2>2, Zenon DEF AskedOnce
  <2>6. AskedAsKnown' /\ TransportsAgree'
    BY <1>6, <1>7, <2>1, Zenon DEF AskedAsKnown, TransportsAgree
  <2>7. \A j \in Ids : Living(j)' <=> Living(j)
    BY <1>6, <1>11, <2>2, Zenon DEF Living
  <2>8. ASSUME NEW u \in Transports, NEW q \in Producers PROVE ProducerAgrees(u, q)'
    <3>1. ProducerAgrees(u, q) /\ (Living(q)' <=> Living(q))
      BY <2>1, <2>7, Apart, Zenon DEF ProducersAgree
    <3> QED BY <1>6, <1>7, <3>1, Zenon DEF ProducerAgrees
  <2>9. ASSUME NEW u \in Transports, NEW c \in Consumers, NEW q \in Producers PROVE ConsumerAgrees(u, c, q)'
    <3>1. /\ ConsumerAgrees(u, c, q) /\ (Living(c)' <=> Living(c)) /\ (Noted(c)' <=> Noted(c))
          /\ Holds(replies, Answers(c)) <=> Holds(replies', Answers(c))
      BY <1>14, <2>1, <2>2, <2>7, Apart, Zenon DEF ConsumersAgree
    <3> QED BY <1>6, <1>7, <3>1, Zenon DEF ConsumerAgrees
  <2>10. NotesFollow'
    BY <1>6, <1>9, <2>1, <2>3, <2>4, Zenon DEF NotesFollow
  <2> QED BY <2>5, <2>6, <2>8, <2>9, <2>10, Zenon DEF Agreement, ProducersAgree, ConsumersAgree
<1> QED BY <1>6, <1>12, <1>13, <1>15, <1>16, <1>17, Zenon

\* What follows an await: the object is open, or its creation failed.
LEMMA ContinueInv ==
    ASSUME NodeInv, Continue
    PROVE  NodeInv'
<1> USE DEF NodeInv
<1> DEFINE U == UNION {Tasks(j) : j \in Ids}
<1>1. IsTaken(microtasks', microtasks, Head(microtasks), U)
  BY Taken, Zenon DEF Continue, Typed
<1>2. Head(microtasks) \in U
  BY <1>1 DEF IsTaken
<1>3. PICK i \in Ids : Head(microtasks) \in Tasks(i)
  BY <1>2
<1>4. PICK b \in BOOLEAN : Head(microtasks) = Task(i, b)
  BY <1>3, ReplySets, Zenon
<1>5. PICK m : m = Head(microtasks)
  BY Zenon
<1>6. m = Task(i, b) /\ m.id = i /\ m.accepted = b /\ IsTaken(microtasks', microtasks, m, U)
  BY <1>1, <1>4, <1>5, ReplyFacts, SMTT(60)
<1> HIDE DEF U
<1>7. PICK s : s = IF b THEN "open" ELSE "failed"
  OBVIOUS
<1>8. /\ \A p \in Producers : producer'[p] = IF p = i THEN s ELSE producer[p]
      /\ \A c \in Consumers : consumer'[c] = IF c = i THEN s ELSE consumer[c]
      /\ producer' \in [Producers -> Statuses] /\ consumer' \in [Consumers -> Statuses]
      /\ i \in Producers /\ b => routerProducers' = routerProducers \cup {i}
      /\ ~(i \in Producers /\ b) => routerProducers' = routerProducers
  <2>1. s \in Statuses
    BY <1>7 DEF Statuses
  <2>2. CASE i \in Producers
    <3>1. /\ producer' = [producer EXCEPT ![i] = s]
          /\ routerProducers' = IF b THEN routerProducers \cup {i} ELSE routerProducers
          /\ UNCHANGED consumer
      BY <1>5, <1>6, <1>7, <2>2, Apart, Zenon DEF Continue
    <3>2. i \notin Consumers
      BY <2>2, Apart, Zenon
    <3> QED BY <2>1, <2>2, <3>1, <3>2, Zenon DEF Typed
  <2>3. CASE i \in Consumers
    <3>1. /\ consumer' = [consumer EXCEPT ![i] = s] /\ UNCHANGED <<producer, routerProducers>>
      BY <1>5, <1>6, <1>7, <2>3, Apart, Zenon DEF Continue
    <3>2. i \notin Producers
      BY <2>3, Apart, Zenon
    <3> QED BY <2>1, <2>3, <3>1, <3>2, Zenon DEF Typed
  <2> QED BY <2>2, <2>3, Zenon DEF Ids
<1>9. UNCHANGED <<transport, producerTransport, consumerTransport, consumed, routerClosed, closeEvent, sents, requests,
                  replies, immediates, channelClosed, workerRunning, wTransports, wProduced, wConsumed>>
  BY Zenon DEF Continue, workerVars
<1>10. /\ \A j : m \in Tasks(j) <=> j = i
       /\ \A j : m = Task(j, TRUE) <=> j = i /\ b
  <2>1. \A j : Task(i, b) \in Tasks(j) <=> j = i
    BY ReplySets, Zenon
  <2>2. \A j : Task(i, b) = Task(j, TRUE) <=> i = j /\ b
    BY Zenon DEF Task
  <2> QED BY <1>6, <2>1, <2>2, Zenon
<1>11. /\ \A j : Holds(microtasks, Tasks(j)) <=> j = i \/ Holds(microtasks', Tasks(j))
       /\ \A j : Once(microtasks, Tasks(j)) => Once(microtasks', Tasks(j)) /\ (j = i => ~Holds(microtasks', Tasks(j)))
       /\ \A j : Holds(microtasks, {Task(j, TRUE)}) <=> (j = i /\ b) \/ Holds(microtasks', {Task(j, TRUE)})
       /\ microtasks' \in Seq(U)
  BY <1>6, <1>10, Zenon DEF IsTaken
<1>12. /\ Status(i) = "pending" /\ i \notin sents
       /\ ~Holds(microtasks', Tasks(i))
  BY <1>11, Zenon DEF PromisesKept
<1>13. ~Holds(microtasks', {Task(i, TRUE)})
  <2>1. {Task(i, TRUE)} \subseteq Tasks(i)
    BY DEF Tasks
  <2> QED BY <1>12, <2>1, Wider, Zenon
<1>14. \A j \in Ids : Status(j)' = IF j = i THEN s ELSE Status(j)
  BY <1>8, Apart, Zenon DEF Status, Ids
<1>15. /\ i \in Producers => producer[i] = "pending"
       /\ i \in Consumers => consumer[i] = "pending"
  BY <1>12, Apart, Zenon
<1>16. Typed'
  <2>1. /\ \A p \in Producers : producer'[p] # "none" => producerTransport'[p] \in Transports
        /\ \A c \in Consumers : consumer'[c] # "none" => consumerTransport'[c] \in Transports /\ consumed'[c] \in Producers
    BY <1>8, <1>9, <1>15, ZenonT(40) DEF Typed
  <2>2. \A p \in routerProducers' : producer'[p] \in {"open", "closed"} /\ p \in Producers
    <3>1. \A p \in routerProducers : p \in Producers /\ p # i /\ producer[p] \in {"open", "closed"}
      BY <1>15, Zenon DEF Typed
    <3>2. CASE i \in Producers /\ b
      BY <1>7, <1>8, <3>1, <3>2, Zenon
    <3>3. CASE ~(i \in Producers /\ b)
      BY <1>8, <3>1, <3>3, Zenon
    <3> QED BY <3>2, <3>3, Zenon
  <2> QED BY <1>8, <1>9, <1>11, <2>1, <2>2, Zenon DEF Typed, U
<1>17. PromisesKept'
  BY <1>7, <1>9, <1>11, <1>12, <1>14, Zenon DEF PromisesKept
<1>18. NotesKnown'
  BY <1>7, <1>8, <1>9, Zenon DEF NotesKnown
<1>19. RouterKnowsProducers'
  <2>1. ASSUME NEW p \in routerProducers' PROVE producer'[p] = "open" \/ producerTransport'[p] \in ServedTransports
    BY <1>7, <1>8, <1>9, <1>15, <2>1, SMTT(60) DEF RouterKnowsProducers, Typed
  <2>2. ASSUME NEW p \in Producers, producer'[p] = "open", transport'[producerTransport'[p]] = "open"
        PROVE  p \in routerProducers'
    BY <1>7, <1>8, <1>9, <2>2, Zenon DEF RouterKnowsProducers
  <2> QED BY <2>1, <2>2, Zenon DEF RouterKnowsProducers
<1>20. ASSUME workerRunning PROVE Agreement'
  <2>1. /\ AskedOnce /\ AskedAsKnown /\ TransportsAgree /\ ProducersAgree /\ ConsumersAgree /\ NotesFollow
    BY <1>20, Zenon DEF Agreement
  <2>2. ~Holds(replies, {Answer(i, TRUE)})
    <3>1. {Answer(i, TRUE)} \subseteq Answers(i) /\ ~Holds(replies, Answers(i))
      BY <1>12, <2>1, Zenon DEF Answers, AskedOnce
    <3> QED BY <3>1, Wider, Zenon
  <2>3. AskedOnce' /\ AskedAsKnown' /\ TransportsAgree' /\ NotesFollow'
    BY <1>9, <2>1, Zenon DEF AskedOnce, AskedAsKnown, TransportsAgree, NotesFollow
  <2>4. \A j \in Ids : Living(j)' <=> Living(j)
    <3>1. ASSUME NEW j \in Ids, j # i PROVE Living(j)' <=> Living(j)
      BY <1>9, <1>11, <1>14, <3>1, Zenon DEF Living
    <3>2. Living(i)' <=> b
      BY <1>7, <1>9, <1>13, <1>14, <2>2, Zenon DEF Living
    <3>3. Living(i) <=> b
      BY <1>11, <1>12, <1>13, <2>2, Zenon DEF Living
    <3> QED BY <3>1, <3>2, <3>3
  <2>5. ASSUME NEW u \in Transports, NEW q \in Producers PROVE ProducerAgrees(u, q)'
    <3>1. ProducerAgrees(u, q) /\ (Living(q)' <=> Living(q))
      BY <2>1, <2>4, Apart, Zenon DEF ProducersAgree
    <3>2. (producer[q] # "none" => producer'[q] # "none") /\ (producer[q] = "closed" => producer'[q] = "closed")
      BY <1>7, <1>8, <1>15, Zenon
    <3> QED BY <1>9, <3>1, <3>2, Zenon DEF ProducerAgrees
  <2>6. ASSUME NEW u \in Transports, NEW c \in Consumers, NEW q \in Producers PROVE ConsumerAgrees(u, c, q)'
    <3>1. ConsumerAgrees(u, c, q) /\ (Living(c)' <=> Living(c)) /\ (Noted(c)' <=> Noted(c))
      BY <1>9, <2>1, <2>4, Apart, Zenon DEF ConsumersAgree, Noted
    <3>2. (consumer[c] # "none" => consumer'[c] # "none") /\ (consumer[c] = "closed" => consumer'[c] = "closed")
      BY <1>7, <1>8, <1>15, Zenon
    <3> QED BY <1>9, <3>1, <3>2, Zenon DEF ConsumerAgrees
  <2> QED BY <2>3, <2>5, <2>6, Zenon DEF Agreement, ProducersAgree, ConsumersAgree
<1> QED BY <1>9, <1>16, <1>17, <1>18, <1>19, <1>20, Zenon

\* A notification closes its Consumer, which the worker does not have any more.
LEMMA EmitInv ==
    ASSUME NodeInv, Emit
    PROVE  NodeInv'
<1> USE DEF NodeInv
<1>1. PICK n : n = Head(immediates)
  OBVIOUS
<1>2. IsTaken(immediates', immediates, n, Consumers)
  BY <1>1, Taken, Zenon DEF Emit, Typed
<1>3. /\ n \in Consumers /\ immediates' \in Seq(Consumers)
      /\ \A S : Holds(immediates, S) <=> n \in S \/ Holds(immediates', S)
  BY <1>2, Zenon DEF IsTaken
<1>4. /\ \A c \in Consumers : consumer'[c] = IF c = n /\ consumer[c] = "open" THEN "closed" ELSE consumer[c]
      /\ consumer' \in [Consumers -> Statuses]
      /\ closeEvent' \in [Consumers -> {None, "close", "transportclose", "producerclose"}]
  <2>1. CASE consumer[n] = "open"
    <3>1. consumer' = [consumer EXCEPT ![n] = "closed"] /\ closeEvent' = [closeEvent EXCEPT ![n] = "producerclose"]
      BY <1>1, <2>1, Zenon DEF Emit
    <3> QED BY <1>3, <2>1, <3>1, Zenon DEF Typed, Statuses
  <2>2. CASE consumer[n] # "open"
    <3>1. UNCHANGED <<consumer, closeEvent>>
      BY <1>1, <2>2, Zenon DEF Emit
    <3> QED BY <2>2, <3>1, Zenon DEF Typed
  <2> QED BY <2>1, <2>2, Zenon
<1>5. /\ microtasks = << >>
      /\ UNCHANGED <<transport, producer, producerTransport, consumerTransport, consumed, routerClosed, routerProducers,
                     sents, requests, replies, microtasks, channelClosed, workerRunning, wTransports, wProduced, wConsumed>>
  BY Zenon DEF Emit, workerVars
<1>6. \A j \in Ids : Status(j)' = Status(j) \/ (Status(j)' = "closed" /\ Status(j) = "open")
  BY <1>4, <1>5, Zenon DEF Status, Ids
<1>7. Typed'
  BY <1>3, <1>4, <1>5, Zenon DEF Typed
<1>8. PromisesKept'
  BY <1>5, <1>6, Zenon DEF PromisesKept
<1>9. NotesKnown'
  BY <1>3, <1>4, <1>5, Zenon DEF NotesKnown
<1>10. RouterKnowsProducers'
  BY <1>5, Zenon DEF RouterKnowsProducers
<1>11. ASSUME workerRunning PROVE Agreement'
  <2>1. /\ AskedOnce /\ AskedAsKnown /\ TransportsAgree /\ ProducersAgree /\ ConsumersAgree /\ NotesFollow
    BY <1>11 DEF Agreement
  <2>2. Holds(immediates, {n}) /\ Noted(n) /\ n \notin sents
    BY <1>3, <2>1, Zenon DEF NotesFollow, Noted
  <2>3. ~Holds(replies, {Answer(n, TRUE)})
    <3>1. {Answer(n, TRUE)} \subseteq Answers(n) /\ ~Holds(replies, Answers(n))
      BY <1>3, <2>1, <2>2, Apart, Zenon DEF Answers, AskedOnce
    <3> QED BY <3>1, Wider, Zenon
  <2>4. AskedOnce' /\ AskedAsKnown' /\ TransportsAgree'
    BY <1>5, <2>1, Zenon DEF AskedOnce, AskedAsKnown, TransportsAgree
  <2>5. NotesFollow'
    BY <1>3, <1>5, <2>1, Zenon DEF NotesFollow
  <2>6. /\ \A p \in Producers : Living(p)' <=> Living(p)
        /\ \A c \in Consumers : c # n => (Living(c)' <=> Living(c))
    BY <1>4, <1>5, Apart, Zenon DEF Living, Status
  <2>7. ~Living(n)'
    <3>1. ~Holds(microtasks', {Task(n, TRUE)})
      BY <1>5, Emptied, Zenon
    <3>2. Status(n)' # "open"
      BY <1>3, <1>4, Apart, Zenon DEF Status
    <3> QED BY <1>5, <2>3, <3>1, <3>2, Zenon DEF Living
  <2>8. ASSUME NEW u \in Transports, NEW q \in Producers PROVE ProducerAgrees(u, q)'
    <3>1. ProducerAgrees(u, q) /\ (Living(q)' <=> Living(q))
      BY <2>1, <2>6 DEF ProducersAgree
    <3> QED BY <1>5, <3>1, Zenon DEF ProducerAgrees
  <2>9. ASSUME NEW u \in Transports, NEW c \in Consumers, NEW q \in Producers PROVE ConsumerAgrees(u, c, q)'
    <3>1. ConsumerAgrees(u, c, q) /\ (c # n => (Living(c)' <=> Living(c)))
      BY <2>1, <2>6 DEF ConsumersAgree
    <3>2. c # n => (Noted(c)' <=> Noted(c))
      BY <1>3, <1>5, Zenon DEF Noted
    <3>3. /\ consumer[c] # "none" => consumer'[c] # "none"
          /\ consumer[c] = "closed" => consumer'[c] = "closed"
      BY <1>4, Zenon
    <3>4. CASE c = n
      BY <1>5, <2>2, <2>7, <3>1, <3>3, <3>4, Zenon DEF ConsumerAgrees
    <3>5. CASE c # n
      BY <1>5, <3>1, <3>2, <3>3, <3>5, Zenon DEF ConsumerAgrees
    <3> QED BY <3>4, <3>5
  <2> QED BY <2>4, <2>5, <2>8, <2>9, Zenon DEF Agreement, ProducersAgree, ConsumersAgree
<1> QED BY <1>5, <1>7, <1>8, <1>9, <1>10, <1>11, Zenon

(***************************************************************************)
(* The worker.                                                             *)
(***************************************************************************)

\* What every step of the worker leaves alone.
WorkerOnly ==
    UNCHANGED <<transport, producer, consumer, producerTransport, consumerTransport, consumed, routerClosed,
                routerProducers, closeEvent, sents, microtasks, immediates, channelClosed, workerRunning>>

\* The worker answers the request r that creates i, and has i from then on if it accepts.
Creates(r, i, b) ==
    /\ workerRunning /\ WorkerOnly
    /\ i \in Ids /\ b \in BOOLEAN /\ r \in Creations(i) /\ NoClosing(r)
    /\ IsTaken(requests', requests, r, Requests)
    /\ replies' = Append(replies, Answer(i, b))
    /\ wTransports' = wTransports
    /\ wProduced' \subseteq Transports \X Producers
    /\ wConsumed' \subseteq Transports \X Consumers \X Producers
    /\ \A u \in Transports, q \in Producers :
          <<u, q>> \in wProduced' <=> <<u, q>> \in wProduced \/ (b /\ q = i /\ u = producerTransport[q])
    /\ \A u \in Transports, c \in Consumers, q \in Producers :
          <<u, c, q>> \in wConsumed' <=>
              <<u, c, q>> \in wConsumed \/ (b /\ c = i /\ u = consumerTransport[c] /\ q = consumed[c])
    /\ b /\ i \in Producers => producerTransport[i] \in wTransports
    /\ b /\ i \in Consumers => consumerTransport[i] \in wTransports

\* The worker's answer to a creation keeps the invariant.
LEMMA CreatesInv ==
    ASSUME NodeInv, NEW r, NEW i, NEW b, Creates(r, i, b)
    PROVE  NodeInv'
<1> USE DEF NodeInv
<1>1. /\ workerRunning /\ i \in Ids /\ b \in BOOLEAN /\ r \in Creations(i) /\ NoClosing(r)
      /\ IsTaken(requests', requests, r, Requests)
      /\ replies' = Append(replies, Answer(i, b))
      /\ UNCHANGED <<transport, producer, consumer, producerTransport, consumerTransport, consumed, routerClosed,
                     routerProducers, closeEvent, sents, microtasks, immediates, channelClosed, workerRunning, wTransports>>
  BY Zenon DEF Creates, WorkerOnly
<1>2. /\ AskedOnce /\ AskedAsKnown /\ TransportsAgree /\ ProducersAgree /\ ConsumersAgree /\ NotesFollow
  BY <1>1 DEF Agreement
<1>3. /\ \A j : Answer(i, b) \in Answers(j) <=> j = i
      /\ \A j : Answer(i, b) = Answer(j, TRUE) <=> j = i /\ b
      /\ \A c : Answer(i, b) # Note(c)
      /\ Answer(i, b) \in Replies
  <2>1. \A j : Answer(i, b) \in Answers(j) <=> j = i
    BY <1>1, ReplySets, Zenon
  <2>2. \A j : Answer(i, b) = Answer(j, TRUE) <=> j = i /\ b
    BY <1>1, Zenon DEF Answer
  <2>3. \A c : Answer(i, b) # Note(c)
    BY Zenon DEF Answer, Note
  <2>4. Answer(i, b) \in Replies
    BY <1>1, <2>1, Zenon DEF Replies
  <2> QED BY <2>1, <2>2, <2>3, <2>4, Zenon
<1>4. IsAdded(replies', replies, Answer(i, b), Replies)
  BY <1>1, <1>3, Added, Zenon DEF Typed
<1>5. /\ \A j : Holds(replies', Answers(j)) <=> Holds(replies, Answers(j)) \/ j = i
      /\ \A j : Once(replies', Answers(j)) <=> Once(replies, Answers(j)) /\ (j = i => ~Holds(replies, Answers(j)))
      /\ \A j : Holds(replies', {Answer(j, TRUE)}) <=> Holds(replies, {Answer(j, TRUE)}) \/ (j = i /\ b)
      /\ \A c : Holds(replies', {Note(c)}) <=> Holds(replies, {Note(c)})
      /\ \A c : Led(replies', Answers(c), {Note(c)}) <=> Led(replies, Answers(c), {Note(c)})
      /\ replies' \in Seq(Replies)
  BY <1>3, <1>4, Zenon DEF IsAdded
<1>6. /\ \A S : Holds(requests', S) => Holds(requests, S)
      /\ \A S : Once(requests, S) => Once(requests', S)
      /\ Holds(requests, Creations(i))
      /\ Once(requests, Creations(i)) => ~Holds(requests', Creations(i))
      /\ \A u : Holds(requests', Closings(u)) <=> Holds(requests, Closings(u))
      /\ \A u, q : Holds(requests', {ProducerClosing(u, q)}) <=> Holds(requests, {ProducerClosing(u, q)})
      /\ \A u, c : Holds(requests', {ConsumerClosing(u, c)}) <=> Holds(requests, {ConsumerClosing(u, c)})
      /\ requests' \in Seq(Requests)
  BY <1>1, Zenon DEF IsTaken, NoClosing
<1>7. /\ i \in sents /\ ~Holds(replies, Answers(i)) /\ ~Holds(requests', Creations(i))
      /\ Status(i) = "pending"
  BY <1>1, <1>2, <1>6, Zenon DEF AskedOnce, PromisesKept
<1>8. \A j : Status(j)' = Status(j)
  BY <1>1, Zenon DEF Status
<1>9. Typed'
  <2>1. wProduced' \subseteq Transports \X Producers /\ wConsumed' \subseteq Transports \X Consumers \X Producers
    BY Zenon DEF Creates
  <2> QED BY <1>1, <1>5, <1>6, <2>1, Zenon DEF Typed
<1>10. PromisesKept' /\ RouterKnowsProducers'
  BY <1>1, <1>8, Zenon DEF PromisesKept, RouterKnowsProducers
<1>11. NotesKnown'
  BY <1>1, <1>5, Zenon DEF NotesKnown
<1>12. AskedOnce'
  BY <1>1, <1>2, <1>5, <1>6, <1>7, Zenon DEF AskedOnce
<1>13. AskedAsKnown'
  BY <1>1, <1>2, <1>6, Zenon DEF AskedAsKnown
<1>14. TransportsAgree'
  BY <1>1, <1>2, <1>6, Zenon DEF TransportsAgree
<1>15. NotesFollow'
  BY <1>1, <1>2, <1>5, Zenon DEF NotesFollow
<1>16. \A j : Living(j)' <=> Living(j) \/ (j = i /\ b)
  BY <1>1, <1>5, <1>8, Zenon DEF Living
<1>17. ASSUME NEW u \in Transports, NEW q \in Producers PROVE ProducerAgrees(u, q)'
  <2>1. ProducerAgrees(u, q) /\ (Living(q)' <=> Living(q) \/ (q = i /\ b))
    BY <1>2, <1>16, Zenon DEF ProducersAgree
  <2>2. /\ <<u, q>> \in wProduced' <=> <<u, q>> \in wProduced \/ (b /\ q = i /\ u = producerTransport[q])
        /\ b /\ q = i => producerTransport[q] \in wTransports
    BY Zenon DEF Creates
  <2>3. q = i => producer[q] = "pending"
    BY <1>7, Apart, Zenon
  <2> QED BY <1>1, <1>6, <2>1, <2>2, <2>3, Zenon DEF ProducerAgrees
<1>18. ASSUME NEW u \in Transports, NEW c \in Consumers, NEW q \in Producers PROVE ConsumerAgrees(u, c, q)'
  <2>1. ConsumerAgrees(u, c, q) /\ (Living(c)' <=> Living(c) \/ (c = i /\ b))
    BY <1>2, <1>16, Zenon DEF ConsumersAgree
  <2>2. /\ <<u, c, q>> \in wConsumed' <=>
              <<u, c, q>> \in wConsumed \/ (b /\ c = i /\ u = consumerTransport[c] /\ q = consumed[c])
        /\ b /\ c = i => consumerTransport[c] \in wTransports
    BY Zenon DEF Creates
  <2>3. c = i => consumer[c] = "pending"
    BY <1>7, Apart, Zenon
  <2>4. c = i => ~Noted(c)
    <3>1. ASSUME c = i PROVE ~Holds(immediates, {c}) /\ Led(replies, Answers(c), {Note(c)})
      BY <1>2, <1>7, <3>1, Zenon DEF NotesFollow
    <3>2. ASSUME c = i PROVE ~Holds(replies, {Note(c)})
      BY <1>7, <3>1, <3>2, Leads, Zenon
    <3> QED BY <3>1, <3>2, Zenon DEF Noted
  <2>5. (Noted(c)' <=> Noted(c)) /\ (Holds(replies', Answers(c)) <=> Holds(replies, Answers(c)) \/ c = i)
    BY <1>1, <1>5, Zenon DEF Noted
  <2>6. /\ Holds(requests', {ConsumerClosing(u, c)}) <=> Holds(requests, {ConsumerClosing(u, c)})
        /\ Holds(requests', Closings(u)) <=> Holds(requests, Closings(u))
    BY <1>6, Zenon
  <2> QED BY <1>1, <2>1, <2>2, <2>3, <2>4, <2>5, <2>6, Zenon DEF ConsumerAgrees
<1> QED BY <1>1, <1>9, <1>10, <1>11, <1>12, <1>13, <1>14, <1>15, <1>17, <1>18, Zenon
        DEF Agreement, ProducersAgree, ConsumersAgree

\* The worker handles the request r, which closes something, and notifies the Consumers cs.
Shuts(r, cs) ==
    /\ workerRunning /\ WorkerOnly /\ Unrelated(r) /\ cs \subseteq Consumers
    /\ IsTaken(requests', requests, r, Requests)
    /\ IsJoined(replies', replies, {Note(c) : c \in cs}, Replies)
    /\ wTransports' \subseteq wTransports /\ wProduced' \subseteq wProduced /\ wConsumed' \subseteq wConsumed
    /\ \A u \in Transports : u \in wTransports' <=> u \in wTransports /\ r \notin Closings(u)
    /\ \A u \in Transports, q \in Producers :
          /\ <<u, q>> \in wProduced' => u \in wTransports' /\ r # ProducerClosing(u, q)
          /\ <<u, q>> \in wProduced \ wProduced' => r \in Closings(u) \/ r = ProducerClosing(u, q)
    /\ \A u \in Transports, c \in Consumers, q \in Producers :
          /\ <<u, c, q>> \in wConsumed' => u \in wTransports' /\ r # ConsumerClosing(u, c) /\ c \notin cs
          /\ <<u, c, q>> \in wConsumed \ wConsumed' => c \in cs \/ r \in Closings(u) \/ r = ConsumerClosing(u, c)
    /\ \A c \in cs : \E u \in Transports, q \in Producers : <<u, c, q>> \in wConsumed

\* The worker's closing keeps the invariant: the Consumers it takes away are notified, or JS
\* has closed them.
LEMMA ShutsInv ==
    ASSUME NodeInv, NEW r, NEW cs, Shuts(r, cs)
    PROVE  NodeInv'
<1> USE DEF NodeInv
<1>1. /\ workerRunning /\ Unrelated(r) /\ cs \subseteq Consumers
      /\ IsTaken(requests', requests, r, Requests)
      /\ UNCHANGED <<transport, producer, consumer, producerTransport, consumerTransport, consumed, routerClosed,
                     routerProducers, closeEvent, sents, microtasks, immediates, channelClosed, workerRunning>>
  BY Zenon DEF Shuts, WorkerOnly
<1>2. /\ AskedOnce /\ AskedAsKnown /\ TransportsAgree /\ ProducersAgree /\ ConsumersAgree /\ NotesFollow
  BY <1>1, Zenon DEF Agreement
<1> DEFINE N == {Note(c) : c \in cs}
<1>3. IsJoined(replies', replies, N, Replies)
  BY Zenon DEF Shuts
<1>4. /\ \A j : \A x \in N : x \notin Answers(j) /\ x # Answer(j, TRUE)
      /\ \A c : Note(c) \in N <=> c \in cs
      /\ \A c : \A x \in N : x = Note(c) => c \in cs
  <2>1. \A j, c : Note(c) \notin Answers(j) /\ Note(c) # Answer(j, TRUE)
    BY Zenon DEF Answer, Answers, Note
  <2>2. \A c, d : Note(c) = Note(d) <=> c = d
    BY ReplyFacts, Zenon
  <2>3. ASSUME NEW j, NEW x \in N PROVE x \notin Answers(j) /\ x # Answer(j, TRUE)
    <3>1. PICK c \in cs : x = Note(c)
      BY <2>3
    <3> QED BY <2>1, <3>1, Zenon
  <2>4. \A c : (Note(c) \in N <=> c \in cs) /\ \A x \in N : x = Note(c) => c \in cs
    BY <2>2
  <2> QED BY <2>3, <2>4, Zenon
<1> HIDE DEF N
<1>5. /\ \A j : Holds(replies', Answers(j)) <=> Holds(replies, Answers(j))
      /\ \A j : Holds(replies', {Answer(j, TRUE)}) <=> Holds(replies, {Answer(j, TRUE)})
      /\ \A c : Holds(replies', {Note(c)}) <=> Holds(replies, {Note(c)}) \/ c \in cs
      /\ replies' \in Seq(Replies)
  BY <1>3, <1>4, Zenon DEF IsJoined
<1>6. /\ \A j : Once(replies, Answers(j)) => Once(replies', Answers(j))
      /\ \A c : Led(replies, Answers(c), {Note(c)}) /\ (c \in cs => Holds(replies, Answers(c)))
                  => Led(replies', Answers(c), {Note(c)})
  BY <1>3, <1>4, Zenon DEF IsJoined
<1>7. /\ \A S : Holds(requests', S) => Holds(requests, S)
      /\ \A S : Once(requests, S) => Once(requests', S)
      /\ \A u : Holds(requests, Closings(u)) <=> r \in Closings(u) \/ Holds(requests', Closings(u))
      /\ \A u, q : Holds(requests, {ProducerClosing(u, q)})
                      <=> r = ProducerClosing(u, q) \/ Holds(requests', {ProducerClosing(u, q)})
      /\ \A u, c : Holds(requests, {ConsumerClosing(u, c)})
                      <=> r = ConsumerClosing(u, c) \/ Holds(requests', {ConsumerClosing(u, c)})
      /\ requests' \in Seq(Requests)
  BY <1>1, Zenon DEF IsTaken
<1>8. \A j : Status(j)' = Status(j)
  BY <1>1, Zenon DEF Status
<1>9. Typed'
  <2>1. wTransports' \subseteq wTransports /\ wProduced' \subseteq wProduced /\ wConsumed' \subseteq wConsumed
    BY Zenon DEF Shuts
  <2> QED BY <1>1, <1>5, <1>7, <2>1, Zenon DEF Typed
<1>10. PromisesKept' /\ RouterKnowsProducers'
  BY <1>1, <1>8, Zenon DEF PromisesKept, RouterKnowsProducers
<1>11. \A c \in cs : consumer[c] # "none" /\ (c \in sents => Holds(replies, Answers(c)))
  <2>1. ASSUME NEW c \in cs PROVE consumer[c] # "none" /\ (c \in sents => Holds(replies, Answers(c)))
    <3>1. PICK u \in Transports, q \in Producers : <<u, c, q>> \in wConsumed
      BY Zenon DEF Shuts
    <3>2. ConsumerAgrees(u, c, q)
      BY <1>1, <1>2, Zenon DEF ConsumersAgree
    <3> QED BY <3>1, <3>2, Zenon DEF ConsumerAgrees
  <2> QED BY <2>1
<1>12. NotesKnown'
  BY <1>1, <1>5, <1>11, Zenon DEF NotesKnown
<1>13. AskedOnce'
  BY <1>1, <1>2, <1>5, <1>6, <1>7, Zenon DEF AskedOnce
<1>14. AskedAsKnown'
  BY <1>1, <1>2, <1>7, Zenon DEF AskedAsKnown
<1>15. TransportsAgree'
  <2>1. \A u \in Transports : u \in wTransports' <=> u \in wTransports /\ r \notin Closings(u)
    BY Zenon DEF Shuts
  <2> QED BY <1>1, <1>2, <1>7, <2>1, Zenon DEF TransportsAgree
<1>16. NotesFollow'
  BY <1>1, <1>2, <1>6, <1>11, Zenon DEF NotesFollow
<1>17. \A j : Living(j)' <=> Living(j)
  BY <1>1, <1>5, <1>8, Zenon DEF Living
<1>18. \A j \in Ids : Status(j) = "closed" => ~Living(j)
  <2>1. ASSUME NEW j \in Ids, Status(j) = "closed" PROVE ~Living(j)
    <3>1. j \notin sents /\ ~Holds(microtasks, Tasks(j)) /\ ~Holds(replies, Answers(j))
      BY <1>2, <2>1, Zenon DEF PromisesKept, AskedOnce
    <3>2. {Task(j, TRUE)} \subseteq Tasks(j) /\ {Answer(j, TRUE)} \subseteq Answers(j)
      BY DEF Tasks, Answers
    <3>3. ~Holds(microtasks, {Task(j, TRUE)}) /\ ~Holds(replies, {Answer(j, TRUE)})
      BY <3>1, <3>2, Wider, Zenon
    <3> QED BY <2>1, <3>3, Zenon DEF Living
  <2> QED BY <2>1
<1>19. ASSUME NEW u \in Transports, NEW q \in Producers PROVE ProducerAgrees(u, q)'
  <2>1. ProducerAgrees(u, q) /\ (Living(q)' <=> Living(q)) /\ (producer[q] = "closed" => ~Living(q))
    BY <1>2, <1>17, <1>18, Apart, Zenon DEF ProducersAgree
  <2>2. /\ <<u, q>> \in wProduced' => <<u, q>> \in wProduced /\ u \in wTransports' /\ r # ProducerClosing(u, q)
        /\ <<u, q>> \in wProduced /\ <<u, q>> \notin wProduced' => r \in Closings(u) \/ r = ProducerClosing(u, q)
        /\ u \in wTransports' => r \notin Closings(u)
    BY Zenon DEF Shuts
  <2>3. transport[u] = "open" => r \notin Closings(u)
    BY <1>2, <1>7, Zenon DEF TransportsAgree
  <2>4. /\ Holds(requests, Closings(u)) <=> r \in Closings(u) \/ Holds(requests', Closings(u))
        /\ Holds(requests, {ProducerClosing(u, q)})
                      <=> r = ProducerClosing(u, q) \/ Holds(requests', {ProducerClosing(u, q)})
    BY <1>7, Zenon
  <2> QED BY <1>1, <2>1, <2>2, <2>3, <2>4, Zenon DEF ProducerAgrees
<1>20. ASSUME NEW u \in Transports, NEW c \in Consumers, NEW q \in Producers PROVE ConsumerAgrees(u, c, q)'
  <2>1. ConsumerAgrees(u, c, q) /\ (Living(c)' <=> Living(c)) /\ (consumer[c] = "closed" => ~Living(c))
    BY <1>2, <1>17, <1>18, Apart, Zenon DEF ConsumersAgree
  <2>2. /\ <<u, c, q>> \in wConsumed' =>
              <<u, c, q>> \in wConsumed /\ u \in wTransports' /\ r # ConsumerClosing(u, c) /\ c \notin cs
        /\ <<u, c, q>> \in wConsumed /\ <<u, c, q>> \notin wConsumed' =>
              c \in cs \/ r \in Closings(u) \/ r = ConsumerClosing(u, c)
        /\ u \in wTransports' => r \notin Closings(u)
    BY Zenon DEF Shuts
  <2>3. transport[u] = "open" => r \notin Closings(u)
    BY <1>2, <1>7, Zenon DEF TransportsAgree
  <2>4. /\ Holds(requests, Closings(u)) <=> r \in Closings(u) \/ Holds(requests', Closings(u))
        /\ Holds(requests, {ConsumerClosing(u, c)})
                      <=> r = ConsumerClosing(u, c) \/ Holds(requests', {ConsumerClosing(u, c)})
    BY <1>7, Zenon
  <2>5. (Noted(c)' <=> Noted(c) \/ c \in cs) /\ (Holds(replies', Answers(c)) <=> Holds(replies, Answers(c)))
    BY <1>1, <1>5, Zenon DEF Noted
  <2> QED BY <1>1, <2>1, <2>2, <2>3, <2>4, <2>5, Zenon DEF ConsumerAgrees
<1> QED BY <1>1, <1>9, <1>10, <1>12, <1>13, <1>14, <1>15, <1>16, <1>19, <1>20, Zenon
        DEF Agreement, ProducersAgree, ConsumersAgree

\* The Consumers of the Producers ps.
Told(ps) == {c \in Consumers : \E u \in Transports, q \in Producers : q \in ps /\ <<u, c, q>> \in wConsumed}

\* consumer->ProducerClosed() for each of them, and for none.
LEMMA Notified ==
    ASSUME NodeInv, NEW ps, NotifyConsumers(ps)
    PROVE  IsJoined(replies', replies, {Note(c) : c \in Told(ps)}, Replies)
<1> USE DEF NodeInv
<1> DEFINE M == {[kind |-> "producerclose", id |-> triple[2]] : triple \in {x \in wConsumed : x[3] \in ps}}
           N == {Note(c) : c \in Told(ps)}
<1>1. M = N
  <2>1. ASSUME NEW m \in M PROVE m \in N
    <3>1. PICK triple \in wConsumed : triple[3] \in ps /\ m = Note(triple[2])
      BY <2>1, Zenon DEF Note
    <3>2. PICK u \in Transports, c \in Consumers, q \in Producers : triple = <<u, c, q>>
      BY SMTT(60) DEF Typed
    <3>3. triple[2] = c /\ triple[3] = q
      BY <3>2, Zenon
    <3>4. c \in Told(ps)
      BY <3>1, <3>2, <3>3, Zenon DEF Told
    <3> QED BY <3>1, <3>3, <3>4, Zenon
  <2>2. ASSUME NEW m \in N PROVE m \in M
    <3>1. PICK c \in Told(ps) : m = Note(c)
      BY <2>2
    <3>2. PICK u \in Transports, q \in Producers : q \in ps /\ <<u, c, q>> \in wConsumed
      BY DEF Told
    <3>3. PICK triple : triple = <<u, c, q>>
      BY Zenon
    <3>4. triple \in {x \in wConsumed : x[3] \in ps} /\ triple[2] = c
      BY <3>2, <3>3
    <3> QED BY <3>1, <3>4, Zenon DEF Note
  <2> HIDE DEF M, N
  <2> QED BY <2>1, <2>2
<1>2. N \subseteq Replies
  BY DEF Replies, Told
<1>3. PICK notes \in Listings(N) : replies' = replies \o notes
  <2>1. \E notes \in Listings(M) : replies' = replies \o notes
    BY Zenon DEF NotifyConsumers
  <2> HIDE DEF M, N
  <2> QED BY <1>1, <2>1, Zenon
<1> HIDE DEF N
<1>4. IsJoined(replies', replies, N, Replies)
  BY <1>2, <1>3, Joined, Zenon DEF Typed
<1> QED BY <1>4, Zenon DEF N

\* Where there is nobody to tell, nothing is sent.
LEMMA NotNotified ==
    ASSUME NodeInv, UNCHANGED replies
    PROVE  IsJoined(replies', replies, {Note(c) : c \in {}}, Replies)
BY Zenon DEF IsJoined, NodeInv, Typed

\* A Consumer in the worker has one Transport and one Producer.
LEMMA OneTriple ==
    ASSUME NodeInv, workerRunning,
           NEW u \in Transports, NEW c \in Consumers, NEW q \in Producers, <<u, c, q>> \in wConsumed
    PROVE  u \in wTransports /\ consumerTransport[c] = u /\ consumed[c] = q
<1>1. ConsumerAgrees(u, c, q)
  BY DEF NodeInv, Agreement, ConsumersAgree
<1> QED BY <1>1, Zenon DEF ConsumerAgrees

\* A Producer in the worker has one Transport.
LEMMA OnePair ==
    ASSUME NodeInv, workerRunning, NEW u \in Transports, NEW q \in Producers, <<u, q>> \in wProduced
    PROVE  u \in wTransports /\ producerTransport[q] = u
<1>1. ProducerAgrees(u, q)
  BY DEF NodeInv, Agreement, ProducersAgree
<1> QED BY <1>1, Zenon DEF ProducerAgrees

\* What the handling of a request has in common.
Handles(r) ==
    /\ workerRunning /\ WorkerOnly
    /\ r \in Requests /\ IsTaken(requests', requests, r, Requests)

\* transport.produce().
LEMMA WorkerProduceInv ==
    ASSUME NodeInv, NEW t \in Transports, NEW p \in Producers, NEW r, r = ProduceRequest(t, p),
           Handles(r), WorkerProduce(r)
    PROVE  NodeInv'
<1>1. /\ r.transport = t /\ r.id = p
      /\ NoClosing(r) /\ r \in Creations(p) /\ p \in Ids /\ p \notin Consumers
  <2>1. r.transport = t /\ r.id = p
    BY Fields, SMTT(30)
  <2>2. NoClosing(r) /\ r \in Creations(p)
    BY ProduceFacts
  <2> QED BY <2>1, <2>2, Apart, Zenon
<1>2. producerTransport[p] = t
  <2>1. Holds(requests, {ProduceRequest(t, p)})
    BY Zenon DEF Handles, IsTaken
  <2> QED BY <2>1, Zenon DEF NodeInv, Agreement, AskedAsKnown, Handles
<1>3. CASE Tree!OpenProducer(t, p) /\ Respond(p, TRUE)
  <2>1. /\ t \in wTransports /\ wProduced' = wProduced \cup {<<t, p>>} /\ UNCHANGED <<wTransports, wConsumed>>
        /\ replies' = Append(replies, Answer(p, TRUE))
    BY <1>3, Zenon DEF Tree!OpenProducer, Respond, Answer
  <2>2. \A u \in Transports, q \in Producers :
            <<u, q>> \in wProduced' <=> <<u, q>> \in wProduced \/ (q = p /\ u = producerTransport[q])
    BY <1>2, <2>1, Zenon
  <2>3. wProduced' \subseteq Transports \X Producers /\ wConsumed' \subseteq Transports \X Consumers \X Producers
    BY <2>1, SMTT(60) DEF NodeInv, Typed
  <2>4. Creates(r, p, TRUE)
    <3>1. TRUE \in BOOLEAN
      BY Zenon
    <3>2. workerRunning /\ WorkerOnly /\ IsTaken(requests', requests, r, Requests)
      BY DEF Handles
    <3>3. \A u \in Transports, c \in Consumers, q \in Producers :
              <<u, c, q>> \in wConsumed' <=>
                  <<u, c, q>> \in wConsumed \/ (c = p /\ u = consumerTransport[c] /\ q = consumed[c])
      BY <1>1, <2>1, Zenon
    <3> QED BY <1>1, <1>2, <2>1, <2>2, <2>3, <3>1, <3>2, <3>3, Zenon DEF Creates
  <2> QED BY <2>4, CreatesInv, Zenon
<1>4. CASE Refuse(r)
  <2>1. /\ replies' = Append(replies, Answer(p, FALSE)) /\ UNCHANGED <<wTransports, wProduced, wConsumed>>
    BY <1>1, <1>4, Zenon DEF Refuse, Respond, Answer, workerVars
  <2>2. wProduced' \subseteq Transports \X Producers /\ wConsumed' \subseteq Transports \X Consumers \X Producers
    BY <2>1, Zenon DEF NodeInv, Typed
  <2>3. Creates(r, p, FALSE)
    <3>1. FALSE \in BOOLEAN
      BY Zenon
    <3>2. workerRunning /\ WorkerOnly /\ IsTaken(requests', requests, r, Requests)
      BY DEF Handles
    <3> QED BY <1>1, <2>1, <2>2, <3>1, <3>2, Zenon DEF Creates
  <2> QED BY <2>3, CreatesInv, Zenon
<1> QED BY <1>1, <1>3, <1>4, Zenon DEF WorkerProduce

\* transport.consume().
LEMMA WorkerConsumeInv ==
    ASSUME NodeInv, NEW t \in Transports, NEW c \in Consumers, NEW p \in Producers, NEW r, r = ConsumeRequest(t, c, p),
           Handles(r), WorkerConsume(r)
    PROVE  NodeInv'
<1>1. /\ r.transport = t /\ r.id = c /\ r.producer = p
      /\ NoClosing(r) /\ r \in Creations(c) /\ c \in Ids /\ c \notin Producers
  <2>1. r.transport = t /\ r.id = c /\ r.producer = p
    BY Fields, SMTT(60)
  <2>2. NoClosing(r) /\ r \in Creations(c)
    BY ConsumeFacts
  <2> QED BY <2>1, <2>2, Apart, Zenon
<1>2. consumerTransport[c] = t /\ consumed[c] = p
  <2>1. Holds(requests, {ConsumeRequest(t, c, p)})
    BY Zenon DEF Handles, IsTaken
  <2> QED BY <2>1, Zenon DEF NodeInv, Agreement, AskedAsKnown, Handles
<1>3. CASE Tree!OpenConsumer(t, c, p) /\ Respond(c, TRUE)
  <2>1. /\ t \in wTransports /\ wConsumed' = wConsumed \cup {<<t, c, p>>} /\ UNCHANGED <<wTransports, wProduced>>
        /\ replies' = Append(replies, Answer(c, TRUE))
    BY <1>3, Zenon DEF Tree!OpenConsumer, Respond, Answer
  <2>2. \A u \in Transports, d \in Consumers, q \in Producers :
            <<u, d, q>> \in wConsumed' <=>
                <<u, d, q>> \in wConsumed \/ (d = c /\ u = consumerTransport[d] /\ q = consumed[d])
    BY <1>2, <2>1, Zenon
  <2>3. wProduced' \subseteq Transports \X Producers /\ wConsumed' \subseteq Transports \X Consumers \X Producers
    BY <2>1, SMTT(60) DEF NodeInv, Typed
  <2>4. Creates(r, c, TRUE)
    <3>1. TRUE \in BOOLEAN
      BY Zenon
    <3>2. workerRunning /\ WorkerOnly /\ IsTaken(requests', requests, r, Requests)
      BY DEF Handles
    <3>3. \A u \in Transports, q \in Producers :
              <<u, q>> \in wProduced' <=> <<u, q>> \in wProduced \/ (q = c /\ u = producerTransport[q])
      BY <1>1, <2>1, Zenon
    <3> QED BY <1>1, <1>2, <2>1, <2>2, <2>3, <3>1, <3>2, <3>3, Zenon DEF Creates
  <2> QED BY <2>4, CreatesInv, Zenon
<1>4. CASE Refuse(r)
  <2>1. /\ replies' = Append(replies, Answer(c, FALSE)) /\ UNCHANGED <<wTransports, wProduced, wConsumed>>
    BY <1>1, <1>4, Zenon DEF Refuse, Respond, Answer, workerVars
  <2>2. wProduced' \subseteq Transports \X Producers /\ wConsumed' \subseteq Transports \X Consumers \X Producers
    BY <2>1, Zenon DEF NodeInv, Typed
  <2>3. Creates(r, c, FALSE)
    <3>1. FALSE \in BOOLEAN
      OBVIOUS
    <3>2. workerRunning /\ WorkerOnly /\ IsTaken(requests', requests, r, Requests)
      BY DEF Handles
    <3> QED BY <1>1, <2>1, <2>2, <3>1, <3>2, Zenon DEF Creates
  <2> QED BY <2>3, CreatesInv, Zenon
<1> QED BY <1>1, <1>3, <1>4, Zenon DEF WorkerConsume

\* producer.close().
LEMMA WorkerCloseProducerInv ==
    ASSUME NodeInv, NEW t \in Transports, NEW p \in Producers, NEW r, r = ProducerClosing(t, p),
           Handles(r), WorkerCloseProducer(r)
    PROVE  NodeInv'
<1>1. /\ r.transport = t /\ r.id = p
  BY Fields, SMTT(60)
<1>2. /\ Unrelated(r)
      /\ \A u, q : r = ProducerClosing(u, q) <=> u = t /\ q = p
      /\ \A u, c : r # ConsumerClosing(u, c)
      /\ \A u : r \notin Closings(u)
  BY ProducerClosingFacts
<1>3. workerRunning /\ WorkerOnly /\ IsTaken(requests', requests, r, Requests)
  BY DEF Handles
<1>4. CASE Tree!ShutProducer(t, p) /\ NotifyConsumers({p})
  <2>1. /\ <<t, p>> \in wProduced /\ wTransports' = wTransports
        /\ wProduced' = {pair \in wProduced : pair[2] # p}
        /\ wConsumed' = {triple \in wConsumed : triple[3] # p}
    BY <1>4, Zenon DEF Tree!ShutProducer
  <2>2. ASSUME NEW u \in Transports, NEW q \in Producers
        PROVE  /\ <<u, q>> \in wProduced' => u \in wTransports' /\ r # ProducerClosing(u, q)
               /\ <<u, q>> \in wProduced \ wProduced' => r \in Closings(u) \/ r = ProducerClosing(u, q)
    <3>1. producerTransport[p] = t /\ (<<u, q>> \in wProduced => u \in wTransports /\ producerTransport[q] = u)
      BY <1>3, <2>1, OnePair, Zenon
    <3>2. <<u, q>> \in wProduced' <=> <<u, q>> \in wProduced /\ q # p
      BY <2>1
    <3> QED BY <1>2, <2>1, <3>1, <3>2, Zenon
  <2>3. ASSUME NEW u \in Transports, NEW c \in Consumers, NEW q \in Producers
        PROVE  /\ <<u, c, q>> \in wConsumed' => u \in wTransports' /\ r # ConsumerClosing(u, c) /\ c \notin Told({p})
               /\ <<u, c, q>> \in wConsumed \ wConsumed' =>
                      c \in Told({p}) \/ r \in Closings(u) \/ r = ConsumerClosing(u, c)
    <3>1. <<u, c, q>> \in wConsumed => u \in wTransports /\ consumed[c] = q
      BY <1>3, OneTriple, Zenon
    <3>2. c \in Told({p}) => consumed[c] = p
      BY <1>3, OneTriple, Zenon DEF Told
    <3>3. <<u, c, q>> \in wConsumed' <=> <<u, c, q>> \in wConsumed /\ q # p
      BY <2>1
    <3>4. <<u, c, p>> \in wConsumed => c \in Told({p})
      BY DEF Told
    <3> QED BY <1>2, <2>1, <3>1, <3>2, <3>3, <3>4, Zenon
  <2>4. IsJoined(replies', replies, {Note(c) : c \in Told({p})}, Replies)
    BY <1>4, Notified
  <2>5. /\ Told({p}) \subseteq Consumers
        /\ \A c \in Told({p}) : \E u \in Transports, q \in Producers : <<u, c, q>> \in wConsumed
    BY Zenon DEF Told
  <2>6. wTransports' \subseteq wTransports /\ wProduced' \subseteq wProduced /\ wConsumed' \subseteq wConsumed
    BY <2>1
  <2>7. Shuts(r, Told({p}))
    BY <1>2, <1>3, <2>1, <2>2, <2>3, <2>4, <2>5, <2>6, Zenon DEF Shuts
  <2> QED BY <2>7, ShutsInv
<1>5. CASE <<t, p>> \notin wProduced /\ UNCHANGED <<replies, workerVars>>
  <2>1. UNCHANGED <<wTransports, wProduced, wConsumed>> /\ UNCHANGED replies
    BY <1>5 DEF workerVars
  <2>2. \A u \in Transports, q \in Producers : <<u, q>> \in wProduced => u \in wTransports
    BY <1>3, OnePair
  <2>3. \A u \in Transports, c \in Consumers, q \in Producers : <<u, c, q>> \in wConsumed => u \in wTransports
    BY <1>3, OneTriple, Zenon
  <2>4. IsJoined(replies', replies, {Note(c) : c \in {}}, Replies)
    BY <2>1, NotNotified
  <2>5. Shuts(r, {})
    BY <1>2, <1>3, <1>5, <2>1, <2>2, <2>3, <2>4, SMTT(60) DEF Shuts
  <2> QED BY <2>5, ShutsInv, Zenon
<1> QED BY <1>1, <1>4, <1>5, Zenon DEF WorkerCloseProducer

\* consumer.close().
LEMMA WorkerCloseConsumerInv ==
    ASSUME NodeInv, NEW t \in Transports, NEW c \in Consumers, NEW r, r = ConsumerClosing(t, c),
           Handles(r), WorkerCloseConsumer(r)
    PROVE  NodeInv'
<1>1. /\ r.transport = t /\ r.id = c
  BY Fields, SMTT(60)
<1>2. /\ Unrelated(r)
      /\ \A u, q : r # ProducerClosing(u, q)
      /\ \A u, d : r = ConsumerClosing(u, d) <=> u = t /\ d = c
      /\ \A u : r \notin Closings(u)
  BY ConsumerClosingFacts, SMTT(30)
<1>3. workerRunning /\ WorkerOnly /\ IsTaken(requests', requests, r, Requests)
  BY DEF Handles
<1>4. /\ wTransports' = wTransports /\ wProduced' = wProduced /\ wConsumed' \subseteq wConsumed
      /\ UNCHANGED replies
  BY <1>1, Zenon DEF WorkerCloseConsumer, Tree!ShutConsumer, workerVars
<1>5. ASSUME NEW u \in Transports, NEW d \in Consumers, NEW q \in Producers
      PROVE  <<u, d, q>> \in wConsumed' <=> <<u, d, q>> \in wConsumed /\ ~(u = t /\ d = c)
  <2>1. CASE Tree!ShutConsumer(t, c)
    <3>1. PICK p \in Producers : <<t, c, p>> \in wConsumed
      BY <2>1 DEF Tree!ShutConsumer
    <3>2. consumerTransport[c] = t
      BY <1>3, <3>1, OneTriple, Zenon
    <3>3. <<u, d, q>> \in wConsumed => consumerTransport[d] = u
      BY <1>3, OneTriple, Zenon
    <3>4. <<u, d, q>> \in wConsumed' <=> <<u, d, q>> \in wConsumed /\ d # c
      BY <2>1, Zenon DEF Tree!ShutConsumer
    <3> QED BY <3>2, <3>3, <3>4, Zenon
  <2>2. CASE (\A p \in Producers : <<t, c, p>> \notin wConsumed) /\ UNCHANGED workerVars
    BY <2>2 DEF workerVars
  <2> QED BY <1>1, <2>1, <2>2, Zenon DEF WorkerCloseConsumer
<1>6. \A u \in Transports, q \in Producers : <<u, q>> \in wProduced => u \in wTransports
  BY <1>3, OnePair
<1>7. \A u \in Transports, d \in Consumers, q \in Producers : <<u, d, q>> \in wConsumed => u \in wTransports
  BY <1>3, OneTriple, Zenon
<1>8. IsJoined(replies', replies, {Note(d) : d \in {}}, Replies)
  BY <1>4, NotNotified
<1>9. Shuts(r, {})
  BY <1>2, <1>3, <1>4, <1>5, <1>6, <1>7, <1>8, Zenon DEF Shuts
<1> QED BY <1>9, ShutsInv, Zenon

\* transport.close() and webRtcServer.close().
LEMMA WorkerCloseTransportsInv ==
    ASSUME NodeInv, NEW us \in SUBSET Transports, NEW r, r = TransportsClosing(us),
           Handles(r), WorkerCloseTransports(r)
    PROVE  NodeInv'
<1>1. r.transports = us
  BY Fields, Zenon
<1>2. /\ Unrelated(r)
      /\ \A u, q : r # ProducerClosing(u, q)
      /\ \A u, c : r # ConsumerClosing(u, c)
      /\ \A u \in Transports : r \in Closings(u) <=> u \in us
  BY TransportsClosingFacts, Zenon DEF ClosesExactly
<1>3. workerRunning /\ WorkerOnly /\ IsTaken(requests', requests, r, Requests)
  BY DEF Handles
<1>4. PICK ts : ts = us \cap wTransports
  BY Zenon
<1>5. PICK ps : ps = {pair[2] : pair \in {x \in wProduced : x[1] \in ts}}
  BY Zenon
<1>6. /\ wTransports' = wTransports \ ts
      /\ wProduced' = {pair \in wProduced : pair[1] \notin ts}
      /\ wConsumed' = {triple \in wConsumed : /\ triple[1] \notin ts
                                              /\ \A t \in ts : <<t, triple[3]>> \notin wProduced}
      /\ NotifyConsumers(ps)
  BY <1>1, <1>4, <1>5, Zenon DEF WorkerCloseTransports, Tree!ShutTransports
<1>7. \A q \in Producers : q \in ps <=> \E t \in ts : <<t, q>> \in wProduced
  <2>1. ASSUME NEW q \in Producers, q \in ps PROVE \E t \in ts : <<t, q>> \in wProduced
    <3>1. PICK pair \in wProduced : pair[1] \in ts /\ pair[2] = q
      BY <1>5, <2>1, Zenon
    <3>2. PICK u \in Transports, p \in Producers : pair = <<u, p>>
      BY SMTT(60) DEF NodeInv, Typed
    <3>3. u \in ts /\ p = q
      BY <3>1, <3>2
    <3> QED BY <3>1, <3>2, <3>3, Zenon
  <2>2. ASSUME NEW q \in Producers, NEW t \in ts, <<t, q>> \in wProduced PROVE q \in ps
    <3>1. PICK pair : pair = <<t, q>>
      BY Zenon
    <3>2. pair \in wProduced /\ pair[1] \in ts /\ pair[2] = q
      BY <2>2, <3>1
    <3> QED BY <1>5, <3>2, Zenon
  <2> QED BY <2>1, <2>2, Zenon
<1>8. ASSUME NEW u \in Transports, NEW q \in Producers
      PROVE  /\ <<u, q>> \in wProduced' => u \in wTransports' /\ r # ProducerClosing(u, q)
             /\ <<u, q>> \in wProduced \ wProduced' => r \in Closings(u) \/ r = ProducerClosing(u, q)
  <2>1. <<u, q>> \in wProduced => u \in wTransports
    BY <1>3, OnePair
  <2>2. <<u, q>> \in wProduced' <=> <<u, q>> \in wProduced /\ u \notin ts
    BY <1>6, Zenon
  <2> QED BY <1>2, <1>4, <1>6, <2>1, <2>2, Zenon
<1>9. ASSUME NEW u \in Transports, NEW c \in Consumers, NEW q \in Producers
      PROVE  /\ <<u, c, q>> \in wConsumed' => u \in wTransports' /\ r # ConsumerClosing(u, c) /\ c \notin Told(ps)
             /\ <<u, c, q>> \in wConsumed \ wConsumed' =>
                    c \in Told(ps) \/ r \in Closings(u) \/ r = ConsumerClosing(u, c)
  <2>1. <<u, c, q>> \in wConsumed => u \in wTransports /\ consumed[c] = q
    BY <1>3, OneTriple, Zenon
  <2>2. c \in Told(ps) => consumed[c] \in ps
    BY <1>3, OneTriple, Zenon DEF Told
  <2>3. <<u, c, q>> \in wConsumed' <=> <<u, c, q>> \in wConsumed /\ u \notin ts /\ q \notin ps
    BY <1>6, <1>7, Zenon
  <2>4. <<u, c, q>> \in wConsumed /\ q \in ps => c \in Told(ps)
    BY DEF Told
  <2> QED BY <1>2, <1>4, <1>6, <2>1, <2>2, <2>3, <2>4, Zenon
<1>10. IsJoined(replies', replies, {Note(c) : c \in Told(ps)}, Replies)
  BY <1>6, Notified, Zenon
<1>11. /\ Told(ps) \subseteq Consumers
       /\ \A c \in Told(ps) : \E u \in Transports, q \in Producers : <<u, c, q>> \in wConsumed
  BY Zenon DEF Told
<1>12. /\ wTransports' \subseteq wTransports /\ wProduced' \subseteq wProduced /\ wConsumed' \subseteq wConsumed
       /\ \A u \in Transports : u \in wTransports' <=> u \in wTransports /\ r \notin Closings(u)
  BY <1>2, <1>4, <1>6, Zenon
<1>13. Shuts(r, Told(ps))
  BY <1>2, <1>3, <1>8, <1>9, <1>10, <1>11, <1>12, Zenon DEF Shuts
<1> QED BY <1>13, ShutsInv, Zenon

\* router.close().
LEMMA WorkerCloseRouterInv ==
    ASSUME NodeInv, NEW r, r = RouterClosing, Handles(r), WorkerCloseRouter
    PROVE  NodeInv'
<1>1. /\ Unrelated(r)
      /\ \A u, q : r # ProducerClosing(u, q)
      /\ \A u, c : r # ConsumerClosing(u, c)
      /\ \A u \in Transports : r \in Closings(u)
  BY RouterClosingFacts DEF ClosesExactly
<1>2. workerRunning /\ WorkerOnly /\ IsTaken(requests', requests, r, Requests)
  BY DEF Handles
<1>3. /\ wTransports' = {} /\ UNCHANGED replies
      /\ wProduced' = {pair \in wProduced : pair[1] \notin wTransports}
      /\ wConsumed' \subseteq {triple \in wConsumed : triple[1] \notin wTransports}
  BY Zenon DEF WorkerCloseRouter, Tree!ShutTransports
<1>4. \A u \in Transports, q \in Producers : <<u, q>> \notin wProduced'
  BY <1>2, <1>3, OnePair, Zenon
<1>5. \A u \in Transports, c \in Consumers, q \in Producers : <<u, c, q>> \notin wConsumed'
  BY <1>2, <1>3, OneTriple, Zenon
<1>6. IsJoined(replies', replies, {Note(c) : c \in {}}, Replies)
  BY <1>3, NotNotified, Zenon
<1>7. wTransports' \subseteq wTransports /\ wProduced' \subseteq wProduced /\ wConsumed' \subseteq wConsumed
  BY <1>3, Zenon
<1>8. Shuts(r, {})
  BY <1>1, <1>2, <1>3, <1>4, <1>5, <1>6, <1>7, Zenon DEF Shuts
<1> QED BY <1>8, ShutsInv, Zenon

\* The worker handles the next request.
LEMMA WorkerHandleInv ==
    ASSUME NodeInv, WorkerHandle
    PROVE  NodeInv'
<1>1. PICK r : r = Head(requests)
  OBVIOUS
<1>2. IsTaken(requests', requests, r, Requests)
  BY <1>1, Taken, Zenon DEF WorkerHandle, NodeInv, Typed
<1>3. r \in Requests
  BY <1>2, Zenon DEF IsTaken
<1>4. WorkerOnly
  BY Zenon DEF WorkerHandle, WorkerOnly, jsVars
<1>5. Handles(r)
  BY <1>2, <1>3, <1>4, Zenon DEF Handles, WorkerHandle
<1>6. /\ r.method = "produce" => WorkerProduce(r)
      /\ r.method = "consume" => WorkerConsume(r)
      /\ r.method = "closeProducer" => WorkerCloseProducer(r)
      /\ r.method = "closeConsumer" => WorkerCloseConsumer(r)
      /\ r.method = "closeTransports" => WorkerCloseTransports(r)
      /\ r.method = "closeRouter" => WorkerCloseRouter
  BY <1>1, Zenon DEF WorkerHandle
<1>7. CASE r \in {ProduceRequest(t, p) : t \in Transports, p \in Producers}
  <2>1. PICK t \in Transports, p \in Producers : r = ProduceRequest(t, p)
    BY <1>7
  <2> QED BY <1>5, <1>6, <2>1, Fields, WorkerProduceInv, SMTT(60)
<1>8. CASE r \in {ConsumeRequest(t, c, p) : t \in Transports, c \in Consumers, p \in Producers}
  <2>1. PICK t \in Transports, c \in Consumers, p \in Producers : r = ConsumeRequest(t, c, p)
    BY <1>8
  <2> QED BY <1>5, <1>6, <2>1, Fields, WorkerConsumeInv, SMTT(60)
<1>9. CASE r \in {ProducerClosing(t, p) : t \in Transports, p \in Producers}
  <2>1. PICK t \in Transports, p \in Producers : r = ProducerClosing(t, p)
    BY <1>9
  <2> QED BY <1>5, <1>6, <2>1, Fields, WorkerCloseProducerInv, SMTT(60)
<1>10. CASE r \in {ConsumerClosing(t, c) : t \in Transports, c \in Consumers}
  <2>1. PICK t \in Transports, c \in Consumers : r = ConsumerClosing(t, c)
    BY <1>10
  <2> QED BY <1>5, <1>6, <2>1, Fields, WorkerCloseConsumerInv, SMTT(60)
<1>11. CASE r \in {TransportsClosing(ts) : ts \in SUBSET Transports}
  <2>1. PICK ts \in SUBSET Transports : r = TransportsClosing(ts)
    BY <1>11
  <2> QED BY <1>5, <1>6, <2>1, Fields, WorkerCloseTransportsInv, Zenon
<1>12. CASE r = RouterClosing
  BY <1>5, <1>6, <1>12, Fields, WorkerCloseRouterInv, Zenon
<1> QED BY <1>3, <1>7, <1>8, <1>9, <1>10, <1>11, <1>12, SMTT(60) DEF Requests

(***************************************************************************)
(* All together.                                                           *)
(***************************************************************************)

\* Every step keeps the invariant.
LEMMA NodeNextInv == NodeInv /\ [Next]_vars => NodeInv'
<1> SUFFICES ASSUME NodeInv, [Next]_vars PROVE NodeInv'
  OBVIOUS
<1>1. CASE Call
  BY <1>1, CloseTransportInv, ProduceInv, ConsumeInv, CloseProducerInv, CloseConsumerInv, CloseWebRtcServerInv,
     CloseRouterInv, Zenon DEF Call
<1>2. CASE NodeLoop
  BY <1>2, ReceiveResponseInv, ReceiveNoteInv, ContinueInv, EmitInv, Zenon DEF NodeLoop
<1>3. CASE UNCHANGED vars
  <2>1. UNCHANGED <<transport, producer, consumer, producerTransport, consumerTransport, consumed, routerClosed,
                    routerProducers, closeEvent, sents, requests, replies, microtasks, immediates,
                    channelClosed, workerRunning, wTransports, wProduced, wConsumed>>
    BY <1>3, Zenon DEF vars, jsVars, queueVars, workerVars
  <2>2. Typed'
    BY <2>1, Zenon DEF NodeInv, Typed
  <2>3. PromisesKept' /\ NotesKnown' /\ RouterKnowsProducers'
    BY <2>1, Zenon DEF NodeInv, PromisesKept, NotesKnown, RouterKnowsProducers, Status
  <2>4. ASSUME workerRunning PROVE Agreement'
    <3>1. AskedOnce' /\ AskedAsKnown' /\ TransportsAgree' /\ NotesFollow'
      BY <2>1, <2>4, Zenon DEF NodeInv, Agreement, AskedOnce, AskedAsKnown, TransportsAgree, NotesFollow
    <3>2. \A i : Living(i)' <=> Living(i)
      BY <2>1, Zenon DEF Living, Status
    <3>3. ASSUME NEW u \in Transports, NEW q \in Producers PROVE ProducerAgrees(u, q)'
      <4>1. ProducerAgrees(u, q)
        BY <2>4, Zenon DEF NodeInv, Agreement, ProducersAgree
      <4> QED BY <2>1, <3>2, <4>1, Zenon DEF ProducerAgrees
    <3>4. ASSUME NEW u \in Transports, NEW c \in Consumers, NEW q \in Producers PROVE ConsumerAgrees(u, c, q)'
      <4>1. ConsumerAgrees(u, c, q) /\ (Noted(c)' <=> Noted(c))
        BY <2>1, <2>4, Zenon DEF NodeInv, Agreement, ConsumersAgree, Noted
      <4> QED BY <2>1, <3>2, <4>1, Zenon DEF ConsumerAgrees
    <3> QED BY <3>1, <3>3, <3>4, Zenon DEF Agreement, ProducersAgree, ConsumersAgree
  <2> QED BY <2>1, <2>2, <2>3, <2>4, Zenon DEF NodeInv
<1> QED BY <1>1, <1>2, <1>3, WorkerClosedInv, WorkerHandleInv, WorkerDiesInv, Zenon DEF Next

\* In every run of the Node API and its worker, whatever the application closes
\* while creations are under way: once both sides are quiet the worker holds
\* exactly what has an open JS object, and Router.#producers misses no Producer.
THEOREM ObjectsStayAgreed == Spec => []ObjectsAgree
<1>1. Init => NodeInv
  BY NodeInitInv
<1>2. NodeInv /\ [Next]_vars => NodeInv'
  BY NodeNextInv
<1>3. NodeInv => ObjectsAgree
  BY NodeInvImplies
<1> QED BY <1>1, <1>2, <1>3, PTL DEF Spec

==============================================================================
