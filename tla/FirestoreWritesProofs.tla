------------------------- MODULE FirestoreWritesProofs -------------------------
(***************************************************************************)
(* Theorems of the way of a write through the Firestore client, for any    *)
(* users, any number of writes, any size of the pipeline and any number of *)
(* faults: what the client keeps fits together (Inv), a write reaches the  *)
(* server under its own user and in its order (CommittedAsWritten), the    *)
(* app is told the truth (AnsweredTruly), and the client implements an     *)
(* outbox that outlives it (FirestoreOutbox).                              *)
(*                                                                         *)
(* None of the properties is inductive.  Six invariants are, each with the *)
(* help of those before it: Types, Numbers, Streams, Waits, Users and      *)
(* Commits.                                                                *)
(***************************************************************************)
EXTENDS FirestoreWrites, FiniteSetTheorems, SequenceTheorems, TLAPS

-----------------------------------------------------------------------------
(* Types: what every variable and every field of the client holds.         *)

Request == Batch \cup {Handshake}
Asking == [counter : Nat, close : Nat, user : User \cup {NoToken}]
Answer == [counter : Nat, close : Nat, user : User \cup {Failed}]
Notice == [is : {"posted"}, user : User] \cup [is : {"token"}, ask : Answer]
Task ==
    [do : {"write"}, write : Write] \cup [do : {"credential"}, user : User]
    \cup [do : {"resume"}, token : User \cup {Failed}, close : Nat]
    \cup [do : {"disable", "enable", "wait", "connectivity"}]
Entry == [write : Write, user : User]
Outcome == {"nothing", "ok", "rejected"}
StreamState == {"initial", "starting", "open", "error", "backoff"}
Client ==
    [user : User, nextId : Nat \ {0}, callbacks : [User -> SUBSET Batch],
     waits : SUBSET [id : Nat, covers : SUBSET Write], network : BOOLEAN,
     pipeline : Seq(Batch), state : StreamState, handshake : BOOLEAN,
     idle : BOOLEAN, close : Nat, asked : SUBSET Asking,
     token : User \cup {NoToken}, out : Seq(Request), in : Seq(Request),
     end : {"none", "denied"}, late : Seq(Request)]

Owned == \A u \in User : \A i \in 1..Len(disk[u]) : disk[u][i].user = u

Types ==
    /\ authUser \in User
    /\ provider \in [user : User, counter : Nat]
    /\ mainQueue \in Seq(Notice)
    /\ workQueue \in Seq(Task)
    /\ disk \in [User -> Seq(Batch)]
    /\ Owned
    /\ client \in Client
    /\ issued \in 0..LastWrite
    /\ log \in Seq(Entry)
    /\ refused \in SUBSET Write
    /\ told \in [Write -> Outcome]
    /\ waited \in SUBSET SUBSET Write

-----------------------------------------------------------------------------
(* Numbers: the worker queue takes the writes in the order of their        *)
(* numbers, and ids never run ahead of them.                               *)

(* The worker queue is past the w-th write.                                *)
Past(w) ==
    /\ w <= issued
    /\ \A i \in 1..Len(workQueue) :
          workQueue[i].do = "write" => w < workQueue[i].write

TasksInOrder ==
    \A i \in 1..Len(workQueue) : workQueue[i].do = "write" =>
        /\ workQueue[i].write <= issued
        /\ \A j \in 1..(i - 1) :
              workQueue[j].do = "write" => workQueue[j].write < workQueue[i].write

Increasing(queue) ==
    \A i, j \in 1..Len(queue) : i < j =>
        queue[i].id < queue[j].id /\ queue[i].write < queue[j].write

QueuesInOrder ==
    \A u \in User :
        /\ Increasing(disk[u])
        /\ \A i \in 1..Len(disk[u]) :
              disk[u][i].id <= disk[u][i].write /\ Past(disk[u][i].write)

(* Cross-user: a write is in one mutation queue only.                      *)
OneOwner ==
    \A u, v \in User : \A i \in 1..Len(disk[u]), j \in 1..Len(disk[v]) :
        disk[u][i].write = disk[v][j].write => u = v

NextIdIsFree ==
    /\ Past(client.nextId - 1)
    /\ \A i \in 1..Len(disk[client.user]) : disk[client.user][i].id < client.nextId

Numbers == TasksInOrder /\ QueuesInOrder /\ OneOwner /\ NextIdIsFree

-----------------------------------------------------------------------------
(* Streams: the pipeline, the stream and what is on its way fit together.  *)

IsFront(s, queue) == Len(s) <= Len(queue) /\ \A i \in 1..Len(s) : s[i] = queue[i]

(* in and then out is the pipeline.                                        *)
CarriesPipeline(c) ==
    /\ Len(c.in) + Len(c.out) = Len(c.pipeline)
    /\ \A i \in 1..Len(c.in) : c.in[i] = c.pipeline[i]
    /\ \A i \in 1..Len(c.out) : c.out[i] = c.pipeline[Len(c.in) + i]

(* in is the pipeline up to the batch that was refused.                    *)
EndsInPipeline(c) ==
    /\ Len(c.in) < Len(c.pipeline)
    /\ \A i \in 1..Len(c.in) : c.in[i] = c.pipeline[i]
    /\ \A i \in 1..Len(c.out) :
          \E j \in (Len(c.in) + 1)..Len(c.pipeline) : c.out[i] = c.pipeline[j]

ShakesHands(c) ==
    /\ c.end = "none"
    /\ Len(c.in) + Len(c.out) <= 1
    /\ \A i \in 1..Len(c.in) : c.in[i] = Handshake
    /\ \A i \in 1..Len(c.out) : c.out[i] = Handshake

PipelineFits(c, queue) ==
    /\ IsFront(c.pipeline, queue)
    /\ Len(c.pipeline) <= MaxPending
    /\ ~c.network => c.pipeline = <<>> /\ ~IsStarted(c)
    /\ IsStarted(c) /\ ~IsOpen(c) => c.pipeline # <<>>

CallFits(c) ==
    /\ ~IsOpen(c) => c.in = <<>> /\ c.out = <<>> /\ c.end = "none" /\ ~c.idle /\ c.token = NoToken
    /\ IsOpen(c) /\ ~c.handshake => ShakesHands(c) /\ c.pipeline # <<>>
    /\ IsOpen(c) /\ c.handshake /\ c.end = "none" => CarriesPipeline(c)
    /\ IsOpen(c) /\ c.handshake /\ c.end # "none" => EndsInPipeline(c)
    /\ c.idle => c.handshake /\ c.pipeline = <<>>

Fits(c, queue) == PipelineFits(c, queue) /\ CallFits(c)

Streams ==
    /\ Fits(client, disk[client.user])
    /\ client.handshake => IsOpen(client)
    /\ CallbacksArePending

-----------------------------------------------------------------------------
(* Waits and Users: a token the stream resumes with was asked for by the   *)
(* very start it is in, and is of the user it starts for.                  *)

AskNow(ask) == ask \in client.asked /\ ask.close = client.close
TokenAt(i) == i \in 1..Len(mainQueue) /\ mainQueue[i].is = "token"
TokenNow(i) == TokenAt(i) /\ mainQueue[i].ask.close = client.close
ResumeAt(i) == i \in 1..Len(workQueue) /\ workQueue[i].do = "resume"
ResumeNow(i) == ResumeAt(i) /\ workQueue[i].close = client.close

ClosesCount ==
    /\ \A ask \in client.asked : ask.close <= client.close
    /\ \A i \in 1..Len(mainQueue) : TokenAt(i) => mainQueue[i].ask.close <= client.close
    /\ \A i \in 1..Len(workQueue) : ResumeAt(i) => workQueue[i].close <= client.close

OnlyStartingWaits ==
    /\ \A ask \in client.asked : AskNow(ask) => client.state = "starting"
    /\ \A i \in 1..Len(mainQueue) : TokenNow(i) => client.state = "starting"
    /\ \A i \in 1..Len(workQueue) : ResumeNow(i) => client.state = "starting"

WaitsOnce ==
    /\ \A a, b \in client.asked : AskNow(a) /\ AskNow(b) => a = b
    /\ \A a \in client.asked, i \in 1..Len(mainQueue) : ~(AskNow(a) /\ TokenNow(i))
    /\ \A a \in client.asked, i \in 1..Len(workQueue) : ~(AskNow(a) /\ ResumeNow(i))
    /\ \A i, j \in 1..Len(mainQueue) : TokenNow(i) /\ TokenNow(j) => i = j
    /\ \A i \in 1..Len(mainQueue), j \in 1..Len(workQueue) : ~(TokenNow(i) /\ ResumeNow(j))
    /\ \A i, j \in 1..Len(workQueue) : ResumeNow(i) /\ ResumeNow(j) => i = j

Waits == ClosesCount /\ OnlyStartingWaits /\ WaitsOnce

(* The first n notices on the main queue are tokens.                       *)
NonePosted(n) == \A j \in 1..n : mainQueue[j].is # "posted"

CountersCount ==
    /\ \A ask \in client.asked : ask.counter <= provider.counter
    /\ \A i \in 1..Len(mainQueue) : TokenAt(i) => mainQueue[i].ask.counter <= provider.counter

(* An answer that the provider will take is of the user it knows.          *)
AnswersAreTrue ==
    /\ \A ask \in client.asked :
          /\ ask.counter = provider.counter
          /\ ask.user # NoToken
          /\ NonePosted(Len(mainQueue))
          => ask.user = provider.user
    /\ \A i \in 1..Len(mainQueue) :
          /\ TokenAt(i)
          /\ mainQueue[i].ask.counter = provider.counter
          /\ NonePosted(i)
          => mainQueue[i].ask.user \in {Failed, provider.user}

(* The last notice brings the provider the user of FIRAuth.                *)
ProviderCatchesUp ==
    /\ NonePosted(Len(mainQueue)) => provider.user = authUser
    /\ \A i \in 1..Len(mainQueue) :
          /\ mainQueue[i].is = "posted"
          /\ \A j \in (i + 1)..Len(mainQueue) : mainQueue[j].is # "posted"
          => mainQueue[i].user = authUser

(* The user the client will have once the first n tasks have run.          *)
UserAfter(n, u) ==
    \/ /\ \A j \in 1..n : workQueue[j].do # "credential"
       /\ client.user = u
    \/ \E i \in 1..n :
          /\ workQueue[i].do = "credential"
          /\ workQueue[i].user = u
          /\ \A j \in (i + 1)..n : workQueue[j].do # "credential"

ClientCatchesUp == UserAfter(Len(workQueue), provider.user)

ResumesAsUser ==
    \A i \in 1..Len(workQueue) :
        ResumeAt(i) /\ workQueue[i].token # Failed => UserAfter(i - 1, workQueue[i].token)

Users ==
    /\ CountersCount
    /\ AnswersAreTrue
    /\ ProviderCatchesUp
    /\ ClientCatchesUp
    /\ ResumesAsUser
    /\ IsOpen(client) => client.token = client.user

-----------------------------------------------------------------------------
(* Commits: what the server has committed and refused, and what the app    *)
(* has been told of it.                                                    *)

Logged(b) == \E i \in 1..Len(log) : log[i] = LogEntry(b)

IsBatch(request) == request # Handshake

InDisk(b) == \E i \in 1..Len(disk[b.user]) : disk[b.user][i].write = b.write

(* x, an entry of the log or a batch, is in its user's queue or before it. *)
InOrBefore(x) ==
    \/ InDisk(x)
    \/ \A i \in 1..Len(disk[x.user]) : x.write < disk[x.user][i].write

LogInOrder ==
    /\ FirstCommitsInOrder
    /\ \A i \in 1..Len(log) : InOrBefore(log[i]) /\ Past(log[i].write)
    /\ \A u \in User : \A i, j \in 1..Len(disk[u]) :
          i < j /\ Logged(disk[u][j]) => Logged(disk[u][i])

(* The server may still be asked for the batch b.                          *)
LateOk(b) ==
    /\ Past(b.write)
    /\ InOrBefore(b)
    /\ InDisk(b) \/ Logged(b) \/ b.write \in refused

LateBefore(b, i) == \E h \in 1..(i - 1) : client.late[h] = b

(* What an old call still brings is settled or in its user's queue, and    *)
(* the batches before it are committed or come before it.                  *)
LateInOrder ==
    \A i \in 1..Len(client.late) : IsBatch(client.late[i]) =>
        LET b == client.late[i]
        IN  /\ LateOk(b)
            /\ \A k \in 1..Len(disk[b.user]) : disk[b.user][k].write < b.write =>
                  Logged(disk[b.user][k]) \/ LateBefore(disk[b.user][k], i)

ResultsAreTrue ==
    /\ \A i \in 1..Len(client.in) : IsBatch(client.in[i]) => Logged(client.in[i])
    /\ client.end = "denied" => client.pipeline[Len(client.in) + 1].write \in refused

ToldIsGone ==
    \A w \in Write : told[w] # "nothing" =>
        /\ Past(w)
        /\ \A u \in User : \A i \in 1..Len(disk[u]) : disk[u][i].write # w

WaitsCover ==
    \A x \in client.waits : \A w \in x.covers :
        \/ Settled(w)
        \/ \E i \in 1..Len(disk[client.user]) :
              disk[client.user][i].write = w /\ disk[client.user][i].id <= x.id

Commits ==
    /\ LogInOrder
    /\ LateInOrder
    /\ ResultsAreTrue
    /\ ToldIsGone
    /\ WaitsCover
    /\ AnsweredTruly

-----------------------------------------------------------------------------
(* Numbers and sequences.                                                  *)

Less == {ss \in Nat \X Nat : ss[1] < ss[2]}

(* A set of numbers has a least one.                                       *)
LEMMA Least ==
    ASSUME NEW T \in SUBSET Nat, T # {}
    PROVE  \E m \in T : \A n \in T : m <= n
<1>1. IsWellFoundedOn(Less, Nat)
  BY NatLessThanWellFounded DEF Less, OpToRel
<1>2. PICK m \in T : \A n \in T : ~(<<n, m>> \in Less)
  <2>1. \E m \in T : \A n \in T : ~(<<n, m>> \in Less)
    BY <1>1, WFMin, Zenon
  <2> QED
    BY <2>1
<1>3. \A n \in T : ~(n < m)
  <2> TAKE n \in T
  <2>1. n \in Nat /\ m \in Nat /\ ~(<<n, m>> \in Less)
    BY <1>2
  <2> QED
    BY <2>1 DEF Less
<1> QED
  BY <1>2, <1>3

(* A bounded set of numbers has a greatest one, which Max finds.           *)
LEMMA MaxIsGreatest ==
    ASSUME NEW S \in SUBSET Nat, S # {}, NEW bound \in Nat, \A n \in S : n <= bound
    PROVE  Max(S) \in S /\ \A n \in S : n <= Max(S)
<1> DEFINE Above == {m \in Nat : \A n \in S : n <= m}
<1>1. PICK m \in Above : \A n \in Above : m <= n
  BY Least
<1>2. m \in S
  <2>1. SUFFICES ASSUME m \notin S PROVE FALSE
    OBVIOUS
  <2>2. \A n \in S : n < m
    BY <1>1, <2>1
  <2>3. m > 0
    <3>1. PICK n \in S : TRUE
      OBVIOUS
    <3> QED
      BY <1>1, <2>2, <3>1
  <2>4. m - 1 \in Above
    BY <2>2, <2>3
  <2> QED
    BY <1>1, <2>4
<1>3. \A n \in S : m >= n
  BY <1>1
<1>4. \E x \in S : \A y \in S : x >= y
  BY <1>2, <1>3
<1> QED
  BY <1>4 DEF Max

(* A part of a sequence.                                                   *)
LEMMA PartOfSeq ==
    ASSUME NEW S, NEW s \in Seq(S), NEW m \in Nat \ {0}, NEW n \in Nat, n <= Len(s), m <= n + 1
    PROVE  /\ SubSeq(s, m, n) \in Seq(S)
           /\ Len(SubSeq(s, m, n)) = n - m + 1
           /\ \A i \in 1..Len(SubSeq(s, m, n)) : SubSeq(s, m, n)[i] = s[m + i - 1]
<1>1. m \in Int /\ n \in Int /\ \A i \in m..n : s[i] \in S
  OBVIOUS
<1>2. /\ SubSeq(s, m, n) \in Seq(S)
      /\ Len(SubSeq(s, m, n)) = IF m <= n THEN n - m + 1 ELSE 0
      /\ \A i \in 1..n - m + 1 : SubSeq(s, m, n)[i] = s[m + i - 1]
  BY <1>1, SubSeqProperties
<1>3. Len(SubSeq(s, m, n)) = n - m + 1
  BY <1>2
<1> QED
  BY <1>2, <1>3

LEMMA RestOfSeq ==
    ASSUME NEW S, NEW s \in Seq(S), NEW p \in Nat, p <= Len(s)
    PROVE  LET rest == SubSeq(s, p + 1, Len(s))
           IN  /\ rest \in Seq(S)
               /\ Len(rest) = Len(s) - p
               /\ \A i \in 1..Len(rest) : rest[i] = s[p + i]
<1> DEFINE m == p + 1
<1>1. m \in Nat \ {0} /\ Len(s) \in Nat /\ Len(s) <= Len(s) /\ m <= Len(s) + 1
  OBVIOUS
<1>2. /\ SubSeq(s, m, Len(s)) \in Seq(S)
      /\ Len(SubSeq(s, m, Len(s))) = Len(s) - m + 1
      /\ \A i \in 1..Len(SubSeq(s, m, Len(s))) : SubSeq(s, m, Len(s))[i] = s[m + i - 1]
  <2> HIDE DEF m
  <2> QED
    BY <1>1, PartOfSeq, Zenon
<1> DEFINE rest == SubSeq(s, m, Len(s))
<1>3. Len(rest) = Len(s) - p
  BY <1>1, <1>2
<1>4. \A i \in 1..Len(rest) : rest[i] = s[p + i]
  <2> TAKE i \in 1..Len(rest)
  <2>1. rest[i] = s[m + i - 1]
    BY <1>2
  <2>2. m + i - 1 = p + i
    OBVIOUS
  <2> QED
    BY <2>1, <2>2, Zenon
<1> QED
  BY <1>2, <1>3, <1>4, Zenon

(* The start of a sequence, as far as there is room.                       *)
LEMMA StartOfSeq ==
    ASSUME NEW S, NEW s \in Seq(S), NEW room \in Nat
    PROVE  LET start == SubSeq(s, 1, IF room < Len(s) THEN room ELSE Len(s))
           IN  /\ start \in Seq(S)
               /\ Len(start) <= room /\ Len(start) <= Len(s)
               /\ \A i \in 1..Len(start) : start[i] = s[i]
<1>1. Len(s) \in Nat
  OBVIOUS
<1>2. ASSUME NEW n \in Nat, n <= Len(s), n <= room
      PROVE  /\ SubSeq(s, 1, n) \in Seq(S)
             /\ Len(SubSeq(s, 1, n)) <= room /\ Len(SubSeq(s, 1, n)) <= Len(s)
             /\ \A i \in 1..Len(SubSeq(s, 1, n)) : SubSeq(s, 1, n)[i] = s[i]
  <2>1. 1 \in Nat \ {0} /\ 1 <= n + 1
    BY <1>2
  <2>2. /\ SubSeq(s, 1, n) \in Seq(S)
        /\ Len(SubSeq(s, 1, n)) = n - 1 + 1
        /\ \A i \in 1..Len(SubSeq(s, 1, n)) : SubSeq(s, 1, n)[i] = s[1 + i - 1]
    BY <1>1, <1>2, <2>1, PartOfSeq
  <2> QED
    BY <1>2, <2>2
<1>3. CASE room < Len(s)
  <2>1. room <= Len(s) /\ room <= room
    BY <1>1, <1>3
  <2> QED
    BY <1>2, <1>3, <2>1, Zenon
<1>4. CASE ~(room < Len(s))
  <2>1. Len(s) <= Len(s) /\ Len(s) <= room
    BY <1>1, <1>4
  <2> QED
    BY <1>1, <1>2, <1>4, <2>1, Zenon
<1> QED
  BY <1>3, <1>4

-----------------------------------------------------------------------------
(* What the operators on the client do to each of its fields.              *)

(* The fields that the sync engine keeps, and those of the call.           *)
SameEngine(r, c) ==
    r.user = c.user /\ r.nextId = c.nextId /\ r.callbacks = c.callbacks /\ r.waits = c.waits
SameCall(r, c) ==
    r.token = c.token /\ r.out = c.out /\ r.in = c.in /\ r.end = c.end /\ r.late = c.late

(* The stream of c is started if it has to be.                             *)
Begins(r, c) ==
    \/ /\ ~(r.network /\ r.pipeline # <<>> /\ ~IsStarted(c))
       /\ r.state = c.state /\ r.asked = c.asked
    \/ /\ r.network /\ r.pipeline # <<>> /\ c.state = "error"
       /\ r.state = "backoff" /\ r.asked = c.asked
    \/ /\ r.network /\ r.pipeline # <<>> /\ c.state = "initial"
       /\ r.state = "starting" /\ r.asked = c.asked \cup {Ask(c.close)}

LEMMA AskType ==
    ASSUME Types, NEW close \in Nat
    PROVE  Ask(close) \in Asking
BY DEF Types, Ask, Asking

LEMMA StartIfNeededFields ==
    ASSUME Types, NEW c \in Client
    PROVE  LET r == StartIfNeeded(c)
           IN  /\ r \in Client
               /\ SameEngine(r, c) /\ SameCall(r, c) /\ Begins(r, c)
               /\ r.network = c.network /\ r.pipeline = c.pipeline
               /\ r.handshake = c.handshake /\ r.idle = c.idle /\ r.close = c.close
<1>1. Ask(c.close) \in Asking
  BY AskType DEF Client
<1>2. CASE ~ShouldStartWriteStream(c)
  BY <1>2 DEF StartIfNeeded, ShouldStartWriteStream, SameEngine, SameCall, Begins
<1>3. CASE ShouldStartWriteStream(c) /\ c.state = "error"
  BY <1>3 DEF StartIfNeeded, ShouldStartWriteStream, Start, IsStarted, SameEngine, SameCall,
     Begins, Client, StreamState
<1>4. CASE ShouldStartWriteStream(c) /\ c.state = "initial"
  BY <1>1, <1>4 DEF StartIfNeeded, ShouldStartWriteStream, Start, IsStarted, SameEngine, SameCall,
     Begins, Client, StreamState
<1> QED
  BY <1>2, <1>3, <1>4 DEF ShouldStartWriteStream, IsStarted, Client, StreamState

(* The batches after the last of a front of the queue are the rest of it.  *)
LEMMA AfterFront ==
    ASSUME NEW queue \in Seq(Batch), NEW s \in Seq(Batch), IsFront(s, queue),
           Increasing(queue)
    PROVE  After(queue, IF s = <<>> THEN -1 ELSE Last(s).id)
               = SubSeq(queue, Len(s) + 1, Len(queue))
<1> DEFINE id == IF s = <<>> THEN -1 ELSE Last(s).id
           upTo == {n \in 1..Len(queue) : queue[n].id <= id}
<1>1. \A n \in 1..Len(queue) : queue[n].id \in Nat \ {0}
  <2> TAKE n \in 1..Len(queue)
  <2>1. queue[n] \in Batch
    OBVIOUS
  <2> QED
    BY <2>1 DEF Batch
<1>2. upTo = 1..Len(s)
  <2>1. CASE s = <<>>
    BY <1>1, <2>1
  <2>2. CASE s # <<>>
    <3>1. Len(s) \in 1..Len(queue) /\ id = queue[Len(s)].id
      BY <2>2 DEF IsFront, Last
    <3>2. \A n \in 1..Len(queue) : queue[n].id <= id <=> n <= Len(s)
      BY <1>1, <3>1 DEF Increasing
    <3> QED
      BY <3>1, <3>2
  <2> QED
    BY <2>1, <2>2
<1>3. Cardinality(1..Len(s)) = Len(s)
  <2>1. 1 \in Int /\ Len(s) \in Int /\ Len(s) >= 0
    OBVIOUS
  <2>2. Cardinality(1..Len(s)) = IF 1 > Len(s) THEN 0 ELSE Len(s) - 1 + 1
    BY <2>1, FS_Interval, Zenon
  <2> QED
    BY <2>1, <2>2
<1>4. After(queue, id) = SubSeq(queue, 1 + Cardinality(upTo), Len(queue))
  BY DEF After
<1>5. 1 + Cardinality(upTo) = Len(s) + 1
  <2>1. Cardinality(upTo) = Len(s)
    BY <1>2, <1>3, Zenon
  <2> HIDE DEF upTo
  <2> QED
    BY <2>1
<1> HIDE DEF upTo
<1> QED
  BY <1>4, <1>5, Zenon

(* What FillWritePipeline does with the batches new.                       *)
FilledWith(r, c, new) ==
    /\ r.pipeline = c.pipeline \o new
    /\ r.out = IF IsOpen(c) /\ c.handshake THEN c.out \o new ELSE c.out
    /\ r.idle => \/ c.idle /\ ~(IsOpen(c) /\ c.handshake /\ new # <<>>)
                 \/ IsOpen(c) /\ r.pipeline = <<>>
    /\ r.network = c.network /\ r.close = c.close
    /\ r.token = c.token /\ r.in = c.in /\ r.end = c.end /\ r.late = c.late
    /\ SameEngine(r, c)
    /\ Begins(r, c)

(* new are the batches after the pipeline, as far as there is room.        *)
ComesNext(c, new, queue) ==
    /\ new \in Seq(Batch)
    /\ Len(c.pipeline) + Len(new) <= Len(queue)
    /\ Len(c.pipeline) + Len(new) <= MaxPending
    /\ \A i \in 1..Len(new) : new[i] = queue[Len(c.pipeline) + i]
    /\ ~c.network => new = <<>>

LEMMA AddFields ==
    ASSUME NEW c \in Client, NEW new \in Seq(Batch)
    PROVE  LET r == AddToWritePipeline(c, new)
           IN  /\ r \in Client
               /\ SameEngine(r, c)
               /\ r.pipeline = c.pipeline \o new
               /\ r.out = IF IsOpen(c) /\ c.handshake THEN c.out \o new ELSE c.out
               /\ r.idle = (c.idle /\ ~(IsOpen(c) /\ c.handshake /\ new # <<>>))
               /\ r.network = c.network /\ r.handshake = c.handshake /\ r.close = c.close
               /\ r.token = c.token /\ r.in = c.in /\ r.end = c.end /\ r.late = c.late
               /\ r.state = c.state /\ r.asked = c.asked
<1>1. c.pipeline \in Seq(Batch) /\ c.out \in Seq(Request) /\ new \in Seq(Request)
  BY DEF Client, Request
<1>2. c.pipeline \o new \in Seq(Batch) /\ c.out \o new \in Seq(Request) /\ c.out \o <<>> = c.out
  BY <1>1
<1> DEFINE sends == IsOpen(c) /\ c.handshake /\ new # <<>>
           r == AddToWritePipeline(c, new)
<1>3. CASE sends
  <2>1. r = [c EXCEPT !.pipeline = @ \o new, !.out = @ \o new, !.idle = FALSE]
    BY <1>3 DEF AddToWritePipeline
  <2> QED
    BY <1>2, <1>3, <2>1 DEF Client, SameEngine
<1>4. CASE ~sends
  <2>1. r = [c EXCEPT !.pipeline = @ \o new, !.out = @, !.idle = @]
    BY <1>4 DEF AddToWritePipeline
  <2>2. r.out = IF IsOpen(c) /\ c.handshake THEN c.out \o new ELSE c.out
    BY <1>2, <1>4, <2>1 DEF Client
  <2> QED
    BY <1>2, <1>4, <2>1, <2>2 DEF Client, SameEngine
<1> QED
  BY <1>3, <1>4

LEMMA FillFields ==
    ASSUME Types, NEW c \in Client, NEW queue \in Seq(Batch), Increasing(queue),
           IsFront(c.pipeline, queue), Len(c.pipeline) <= MaxPending,
           c.network \/ c.pipeline = <<>>
    PROVE  LET r == FillWritePipeline(c, queue)
           IN  /\ r \in Client /\ r.handshake = c.handshake
               /\ \E new : FilledWith(r, c, new) /\ ComesNext(c, new, queue)
<1> DEFINE last == IF c.pipeline = <<>> THEN -1 ELSE Last(c.pipeline).id
           found == After(queue, last)
           room == IF c.network THEN MaxPending - Len(c.pipeline) ELSE 0
           size == IF room < Len(found) THEN room ELSE Len(found)
           new == SubSeq(found, 1, size)
           filled == AddToWritePipeline(c, new)
           idles == c.network /\ filled.pipeline = <<>> /\ IsOpen(c)
           marked == [filled EXCEPT !.idle = @ \/ idles]
           r == FillWritePipeline(c, queue)
<1>1. r = StartIfNeeded(marked)
  BY DEF FillWritePipeline
<1>2. c.pipeline \in Seq(Batch) /\ Len(c.pipeline) \in Nat /\ Len(c.pipeline) <= Len(queue)
  BY DEF Client, IsFront
<1>3. found = SubSeq(queue, Len(c.pipeline) + 1, Len(queue))
  BY <1>2, AfterFront
<1>4. ComesNext(c, new, queue)
  <2>1. /\ found \in Seq(Batch)
        /\ Len(found) = Len(queue) - Len(c.pipeline)
        /\ \A i \in 1..Len(found) : found[i] = queue[Len(c.pipeline) + i]
    <3> HIDE DEF found
    <3> QED
      BY <1>2, <1>3, RestOfSeq, Zenon
  <2> HIDE DEF found
  <2>2. room \in Nat /\ Len(c.pipeline) + room <= MaxPending /\ (~c.network => room = 0)
    BY <1>2, BoundAssumption DEF Client
  <2> HIDE DEF room
  <2>3. /\ new \in Seq(Batch)
        /\ Len(new) <= room /\ Len(new) <= Len(found)
        /\ \A i \in 1..Len(new) : new[i] = found[i]
    BY <2>1, <2>2, StartOfSeq, Zenon
  <2> HIDE DEF new
  <2>4. Len(new) \in Nat
    BY <2>3
  <2>5. ~c.network => new = <<>>
    BY <2>2, <2>3, <2>4
  <2>6. \A i \in 1..Len(new) : new[i] = queue[Len(c.pipeline) + i]
    BY <2>1, <2>3, <2>4
  <2>7. Len(c.pipeline) + Len(new) <= Len(queue) /\ Len(c.pipeline) + Len(new) <= MaxPending
    BY <1>2, <2>1, <2>2, <2>3, <2>4, BoundAssumption
  <2> QED
    BY <2>3, <2>5, <2>6, <2>7 DEF ComesNext
<1> HIDE DEF new
<1>5. new \in Seq(Batch)
  BY <1>4 DEF ComesNext
<1>6. /\ filled \in Client
      /\ SameEngine(filled, c)
      /\ filled.pipeline = c.pipeline \o new
      /\ filled.out = IF IsOpen(c) /\ c.handshake THEN c.out \o new ELSE c.out
      /\ filled.idle = (c.idle /\ ~(IsOpen(c) /\ c.handshake /\ new # <<>>))
      /\ filled.network = c.network /\ filled.handshake = c.handshake /\ filled.close = c.close
      /\ filled.token = c.token /\ filled.in = c.in /\ filled.end = c.end /\ filled.late = c.late
      /\ filled.state = c.state /\ filled.asked = c.asked
  BY <1>5, AddFields
<1> HIDE DEF filled
<1>7. /\ marked \in Client
      /\ SameEngine(marked, filled) /\ SameCall(marked, filled)
      /\ marked.pipeline = filled.pipeline
      /\ marked.idle = (filled.idle \/ idles)
      /\ marked.network = filled.network /\ marked.handshake = filled.handshake
      /\ marked.close = filled.close
      /\ marked.state = filled.state /\ marked.asked = filled.asked
  BY <1>6 DEF Client, SameEngine, SameCall
<1> HIDE DEF marked
<1>8. /\ r \in Client
      /\ SameEngine(r, marked) /\ SameCall(r, marked) /\ Begins(r, marked)
      /\ r.network = marked.network /\ r.pipeline = marked.pipeline
      /\ r.handshake = marked.handshake /\ r.idle = marked.idle /\ r.close = marked.close
  BY <1>1, <1>7, StartIfNeededFields
<1> HIDE DEF r
<1>9. FilledWith(r, c, new)
  <2>1. SameEngine(r, c)
    BY <1>6, <1>7, <1>8 DEF SameEngine
  <2>2. Begins(r, c)
    BY <1>6, <1>7, <1>8 DEF Begins, IsStarted
  <2>3. r.idle => \/ c.idle /\ ~(IsOpen(c) /\ c.handshake /\ new # <<>>)
                  \/ IsOpen(c) /\ r.pipeline = <<>>
    BY <1>6, <1>7, <1>8
  <2> QED
    BY <1>6, <1>7, <1>8, <2>1, <2>2, <2>3 DEF FilledWith, SameCall
<1>10. r.handshake = c.handshake
  BY <1>6, <1>7, <1>8
<1> QED
  BY <1>4, <1>8, <1>9, <1>10 DEF r

(* A call is given up; what it had on its way may still arrive.            *)
Forgets(r, c) ==
    /\ r.late = IF c.end = "none" THEN c.out ELSE <<>>
    /\ r.token = NoToken /\ r.out = <<>> /\ r.in = <<>> /\ r.end = "none"

(* The stream is closed.                                                   *)
Closes(r, c) ==
    /\ SameEngine(r, c) /\ r.asked = c.asked
    /\ Forgets(r, c)
    /\ ~r.idle /\ r.close = c.close + 1

LEMMA CloseFields ==
    ASSUME NEW c \in Client, NEW state \in StreamState
    PROVE  LET r == Close(c, state)
           IN  /\ r \in Client
               /\ Closes(r, c) /\ r.state = state
               /\ r.network = c.network /\ r.pipeline = c.pipeline /\ r.handshake = c.handshake
<1> DEFINE f == Forgotten(c)
<1>1. <<>> \in Seq(Request)
  OBVIOUS
<1>2. /\ f \in Client
      /\ SameEngine(f, c) /\ f.asked = c.asked /\ Forgets(f, c)
      /\ f.network = c.network /\ f.pipeline = c.pipeline /\ f.handshake = c.handshake
      /\ f.close = c.close
  BY <1>1 DEF Forgotten, Forgets, SameEngine, Client
<1>3. Close(c, state) = [f EXCEPT !.state = state, !.idle = FALSE, !.close = @ + 1]
  BY DEF Close
<1> HIDE DEF f
<1> DEFINE r == [f EXCEPT !.state = state, !.idle = FALSE, !.close = @ + 1]
<1>4. f.close \in Nat /\ f.close + 1 \in Nat
  BY <1>2 DEF Client
<1>5. /\ r \in Client
      /\ r.state = state /\ ~r.idle /\ r.close = f.close + 1
      /\ SameEngine(r, f) /\ SameCall(r, f) /\ r.asked = f.asked
      /\ r.network = f.network /\ r.pipeline = f.pipeline /\ r.handshake = f.handshake
  BY <1>2, <1>4 DEF SameEngine, SameCall, Client
<1> HIDE DEF r
<1> QED
  BY <1>2, <1>3, <1>5 DEF r, Closes, Forgets, SameEngine, SameCall

(* The stream is stopped, if it was started.                               *)
Stops(r, c) ==
    \/ IsStarted(c) /\ Closes(r, c) /\ ~r.handshake
    \/ /\ ~IsStarted(c)
       /\ SameEngine(r, c) /\ SameCall(r, c) /\ r.asked = c.asked
       /\ r.handshake = c.handshake /\ r.idle = c.idle /\ r.close = c.close

LEMMA StopFields ==
    ASSUME NEW c \in Client
    PROVE  LET r == Stop(c)
           IN  /\ r \in Client
               /\ Stops(r, c)
               /\ r.network = c.network /\ r.pipeline = c.pipeline
               /\ r.state = IF IsStarted(c) THEN "initial" ELSE c.state
<1>1. CASE ~IsStarted(c)
  BY <1>1 DEF Stop, Stops, SameEngine, SameCall
<1>2. CASE IsStarted(c)
  <2> DEFINE d == Close(c, "initial")
  <2>1. /\ d \in Client
        /\ Closes(d, c) /\ d.state = "initial"
        /\ d.network = c.network /\ d.pipeline = c.pipeline
    BY CloseFields DEF StreamState
  <2>2. Stop(c) = [d EXCEPT !.handshake = FALSE]
    BY <1>2 DEF Stop
  <2> HIDE DEF d
  <2> QED
    BY <1>2, <2>1, <2>2 DEF Stops, Closes, Forgets, SameEngine, Client
<1> QED
  BY <1>1, <1>2

LEMMA NetworkDisabledFields ==
    ASSUME NEW c \in Client
    PROVE  LET r == NetworkDisabled(c)
           IN  /\ r \in Client
               /\ Stops(r, c)
               /\ ~r.network /\ r.pipeline = <<>>
               /\ r.state = IF IsStarted(c) THEN "initial" ELSE c.state
<1> DEFINE d == [c EXCEPT !.network = FALSE]
           e == Stop(d)
<1>1. /\ d \in Client
      /\ SameEngine(d, c) /\ SameCall(d, c) /\ d.asked = c.asked
      /\ d.handshake = c.handshake /\ d.idle = c.idle /\ d.close = c.close /\ d.state = c.state
      /\ ~d.network
  BY DEF SameEngine, SameCall, Client
<1> HIDE DEF d
<1>2. /\ e \in Client
      /\ Stops(e, d)
      /\ e.network = d.network
      /\ e.state = IF IsStarted(d) THEN "initial" ELSE d.state
  BY <1>1, StopFields
<1> HIDE DEF e
<1>3. Stops(e, c) /\ ~e.network /\ e.state = IF IsStarted(c) THEN "initial" ELSE c.state
  BY <1>1, <1>2 DEF Stops, Closes, Forgets, SameEngine, SameCall, IsStarted
<1> DEFINE r == [e EXCEPT !.pipeline = <<>>]
<1>4. /\ r \in Client /\ SameEngine(r, e) /\ SameCall(r, e) /\ r.asked = e.asked
      /\ r.handshake = e.handshake /\ r.idle = e.idle /\ r.close = e.close /\ r.state = e.state
      /\ r.network = e.network /\ r.pipeline = <<>>
  <2>1. <<>> \in Seq(Batch)
    OBVIOUS
  <2> QED
    BY <1>2, <2>1 DEF SameEngine, SameCall, Client
<1>5. NetworkDisabled(c) = r
  BY DEF NetworkDisabled, d, e
<1> HIDE DEF r
<1>6. Stops(r, c)
  BY <1>3, <1>4 DEF Stops, Closes, Forgets, SameEngine, SameCall
<1> QED
  BY <1>3, <1>4, <1>5, <1>6

(* With the network on, the pipeline is filled.                            *)
LEMMA NetworkEnabledFields ==
    ASSUME Types, NEW c \in Client, NEW queue \in Seq(Batch), Increasing(queue),
           IsFront(c.pipeline, queue), Len(c.pipeline) <= MaxPending
    PROVE  LET r == NetworkEnabled(c, queue)
               d == [c EXCEPT !.network = TRUE]
           IN  /\ r \in Client /\ r.handshake = c.handshake
               /\ d \in Client
               /\ SameEngine(d, c) /\ SameCall(d, c) /\ d.asked = c.asked
               /\ d.handshake = c.handshake /\ d.idle = c.idle /\ d.close = c.close
               /\ d.state = c.state /\ d.pipeline = c.pipeline /\ d.network
               /\ \E new : FilledWith(r, d, new) /\ ComesNext(d, new, queue)
<1> DEFINE d == [c EXCEPT !.network = TRUE]
<1>1. /\ d \in Client
      /\ SameEngine(d, c) /\ SameCall(d, c) /\ d.asked = c.asked
      /\ d.handshake = c.handshake /\ d.idle = c.idle /\ d.close = c.close
      /\ d.state = c.state /\ d.pipeline = c.pipeline /\ d.network
  BY DEF SameEngine, SameCall, Client
<1>2. NetworkEnabled(c, queue) = FillWritePipeline(d, queue)
  BY DEF NetworkEnabled
<1> HIDE DEF d
<1>3. /\ FillWritePipeline(d, queue) \in Client
      /\ FillWritePipeline(d, queue).handshake = d.handshake
      /\ \E new : FilledWith(FillWritePipeline(d, queue), d, new) /\ ComesNext(d, new, queue)
  BY <1>1, FillFields
<1> QED
  BY <1>1, <1>2, <1>3 DEF d

(* A restarted network fills an empty pipeline for a stream that is new.   *)
Afresh(d, c) ==
    /\ Stops(d, c)
    /\ d.state = "initial" /\ d.network /\ d.pipeline = <<>>

LEMMA NetworkRestartedFields ==
    ASSUME Types, NEW c \in Client, NEW queue \in Seq(Batch), Increasing(queue)
    PROVE  LET r == NetworkRestarted(c, queue)
           IN  /\ r \in Client
               /\ \E d \in Client : /\ Afresh(d, c) /\ r.handshake = d.handshake
                                    /\ \E new : FilledWith(r, d, new) /\ ComesNext(d, new, queue)
<1> DEFINE e == NetworkDisabled(c)
           f == [e EXCEPT !.state = "initial"]
           d == [f EXCEPT !.network = TRUE]
           r == NetworkRestarted(c, queue)
<1>1. e \in Client /\ Stops(e, c) /\ e.pipeline = <<>>
  BY NetworkDisabledFields
<1> HIDE DEF e
<1>2. /\ f \in Client /\ SameEngine(f, e) /\ SameCall(f, e) /\ f.asked = e.asked
      /\ f.handshake = e.handshake /\ f.idle = e.idle /\ f.close = e.close
      /\ f.state = "initial" /\ f.pipeline = <<>>
  BY <1>1 DEF SameEngine, SameCall, Client, StreamState
<1>3. r = NetworkEnabled(f, queue)
  BY DEF NetworkRestarted, e
<1> HIDE DEF f
<1>4. IsFront(f.pipeline, queue) /\ Len(f.pipeline) <= MaxPending
  BY <1>2, BoundAssumption DEF IsFront
<1>5. /\ r \in Client /\ r.handshake = f.handshake
      /\ d \in Client
      /\ SameEngine(d, f) /\ SameCall(d, f) /\ d.asked = f.asked
      /\ d.handshake = f.handshake /\ d.idle = f.idle /\ d.close = f.close
      /\ d.state = f.state /\ d.pipeline = f.pipeline /\ d.network
      /\ \E new : FilledWith(r, d, new) /\ ComesNext(d, new, queue)
  <2> HIDE DEF r
  <2> QED
    BY <1>2, <1>3, <1>4, NetworkEnabledFields
<1> HIDE DEF d, r
<1>6. Afresh(d, c)
  BY <1>1, <1>2, <1>5 DEF Afresh, Stops, Closes, Forgets, SameEngine, SameCall
<1>7. \E d2 \in Client : /\ Afresh(d2, c) /\ r.handshake = d2.handshake
                         /\ \E new : FilledWith(r, d2, new) /\ ComesNext(d2, new, queue)
  BY <1>5, <1>6
<1> QED
  BY <1>5, <1>7 DEF r

(* The callback and the waits of a batch are taken out.                    *)
Settles(r, c, id) ==
    /\ r.user = c.user /\ r.nextId = c.nextId
    /\ r.waits = {x \in c.waits : x.id # id}
    /\ \A v \in User :
          r.callbacks[v] = IF v = c.user THEN {e \in c.callbacks[v] : e.id # id} ELSE c.callbacks[v]

SameStream(r, c) ==
    /\ r.network = c.network /\ r.pipeline = c.pipeline /\ r.state = c.state
    /\ r.handshake = c.handshake /\ r.idle = c.idle /\ r.close = c.close /\ r.asked = c.asked

LEMMA WithoutCallbacksFields ==
    ASSUME NEW c \in Client, NEW id
    PROVE  LET r == WithoutCallbacks(c, id)
           IN  r \in Client /\ Settles(r, c, id) /\ SameStream(r, c) /\ SameCall(r, c)
<1> DEFINE left == {e \in c.callbacks[c.user] : e.id # id}
           callbacks == [c.callbacks EXCEPT ![c.user] = left]
           waits == {x \in c.waits : x.id # id}
           r == [c EXCEPT !.callbacks = callbacks, !.waits = waits]
<1>1. c.user \in User /\ c.callbacks \in [User -> SUBSET Batch]
  BY DEF Client
<1>2. left \in SUBSET Batch /\ waits \subseteq c.waits
  BY <1>1
<1>3. callbacks \in [User -> SUBSET Batch]
  BY <1>1, <1>2
<1>4. \A v \in User : callbacks[v] = IF v = c.user THEN left ELSE c.callbacks[v]
  BY <1>1
<1>5. WithoutCallbacks(c, id) = r
  BY DEF WithoutCallbacks, Client
<1> HIDE DEF callbacks, left, waits
<1>6. /\ r \in Client /\ r.callbacks = callbacks /\ r.waits = waits
      /\ r.user = c.user /\ r.nextId = c.nextId /\ SameStream(r, c) /\ SameCall(r, c)
  BY <1>2, <1>3 DEF Client, SameStream, SameCall
<1> HIDE DEF r
<1>7. Settles(r, c, id)
  <2>1. \A v \in User : r.callbacks[v] =
            IF v = c.user THEN {e \in c.callbacks[v] : e.id # id} ELSE c.callbacks[v]
    BY <1>4, <1>6 DEF left
  <2> QED
    BY <1>6, <2>1 DEF Settles, waits
<1> QED
  BY <1>5, <1>6, <1>7

(* The first batch of a queue is the one RemoveMutationBatch takes out.    *)
LEMMA WithoutFirst ==
    ASSUME NEW queue \in Seq(Batch), Increasing(queue), queue # <<>>
    PROVE  WithoutBatch(queue, queue[1].id) = Tail(queue)
<1> DEFINE n == CHOOSE m \in 1..Len(queue) : queue[m].id = queue[1].id
<1>1. Len(queue) \in Nat \ {0}
  OBVIOUS
<1>2. \A m \in 1..Len(queue) : queue[m].id \in Nat
  <2> TAKE m \in 1..Len(queue)
  <2>1. queue[m] \in Batch
    OBVIOUS
  <2> QED
    BY <2>1 DEF Batch
<1>3. n \in 1..Len(queue) /\ queue[n].id = queue[1].id
  <2>1. \E m \in 1..Len(queue) : queue[m].id = queue[1].id
    BY <1>1
  <2> QED
    BY <2>1
<1>4. n = 1
  BY <1>1, <1>2, <1>3 DEF Increasing
<1>5. WithoutBatch(queue, queue[1].id) = SubSeq(queue, 1, n - 1) \o SubSeq(queue, n + 1, Len(queue))
  BY DEF WithoutBatch, RemoveAt
<1> HIDE DEF n
<1>6. SubSeq(queue, 1, 0) = <<>> /\ SubSeq(queue, 2, Len(queue)) = Tail(queue)
  BY SubSeqEmpty, TailIsSubSeq
<1>7. n - 1 = 0 /\ n + 1 = 2
  BY <1>4
<1>8. WithoutBatch(queue, queue[1].id) = <<>> \o Tail(queue)
  BY <1>5, <1>6, <1>7
<1> QED
  BY <1>1, <1>8

(* The worker queue is past a write when it is past a later one.           *)
LEMMA PastBelow ==
    ASSUME Types, NEW v \in Nat, NEW w \in Nat, v <= w, Past(w)
    PROVE  Past(v)
<1>1. \A i \in 1..Len(workQueue) : workQueue[i].do = "write" => workQueue[i].write \in Nat
  <2> TAKE i \in 1..Len(workQueue)
  <2>1. workQueue[i] \in Task
    BY DEF Types
  <2> QED
    BY <2>1, BoundAssumption DEF Task, Write
<1>2. issued \in Nat
  BY BoundAssumption DEF Types
<1> QED
  BY <1>1, <1>2 DEF Past

(* The ids of all queues are below the next one.                           *)
LEMMA NextIdAboveAll ==
    ASSUME Types, QueuesInOrder
    PROVE  /\ NextBatchId(disk) \in Nat \ {0}
           /\ Past(NextBatchId(disk) - 1)
           /\ \A u \in User : \A i \in 1..Len(disk[u]) : disk[u][i].id < NextBatchId(disk)
<1> DEFINE ids == {b.id : b \in Batches(disk)}
           S == {0} \cup ids
<1>1. ASSUME NEW u \in User, NEW i \in 1..Len(disk[u])
      PROVE  disk[u][i] \in Batches(disk)
  <2>1. DOMAIN disk[u] = 1..Len(disk[u])
    BY DEF Types
  <2> QED
    BY <2>1 DEF Batches, ToSet
<1>2. ASSUME NEW b \in Batches(disk)
      PROVE  \E u \in User : \E i \in 1..Len(disk[u]) : b = disk[u][i]
  <2>1. PICK u \in User : b \in ToSet(disk[u])
    BY DEF Batches
  <2>2. DOMAIN disk[u] = 1..Len(disk[u])
    BY DEF Types
  <2> QED
    BY <2>1, <2>2 DEF ToSet
<1>3. \A b \in Batches(disk) : b.id \in Nat /\ b.id <= b.write /\ Past(b.write) /\ b.write \in Write
  <2> TAKE b \in Batches(disk)
  <2>1. PICK u \in User : \E i \in 1..Len(disk[u]) : b = disk[u][i]
    BY <1>2
  <2>2. PICK i \in 1..Len(disk[u]) : b = disk[u][i]
    BY <2>1
  <2>3. b \in Batch
    BY <2>2 DEF Types
  <2> QED
    BY <2>2, <2>3 DEF QueuesInOrder, Batch
<1>4. S \in SUBSET Nat /\ S # {}
  BY <1>3
<1>5. LastWrite \in Nat /\ \A n \in S : n <= LastWrite
  BY <1>3, BoundAssumption DEF Write
<1>6. Max(S) \in S /\ \A n \in S : n <= Max(S)
  <2> HIDE DEF S
  <2> QED
    BY <1>4, <1>5, MaxIsGreatest
<1>7. NextBatchId(disk) = 1 + Max(S)
  BY DEF NextBatchId
<1> DEFINE top == Max(S)
<1>8. top \in Nat
  BY <1>4, <1>6
<1>9. Past(top)
  <2>1. CASE top = 0
    <3>1. \A i \in 1..Len(workQueue) : workQueue[i].do = "write" => 0 < workQueue[i].write
      <4> SUFFICES ASSUME NEW i \in 1..Len(workQueue), workQueue[i].do = "write"
                   PROVE  0 < workQueue[i].write
        OBVIOUS
      <4>1. workQueue[i] \in Task
        BY DEF Types
      <4> QED
        BY <4>1, BoundAssumption DEF Task, Write
    <3>2. 0 <= issued
      BY BoundAssumption DEF Types
    <3> HIDE DEF top
    <3> QED
      BY <2>1, <3>1, <3>2 DEF Past
  <2>2. CASE top \in ids
    <3>1. PICK b \in Batches(disk) : top = b.id
      BY <2>2
    <3> HIDE DEF top
    <3>2. top <= b.write /\ Past(b.write) /\ b.write \in Nat
      BY <1>3, <3>1, BoundAssumption DEF Write
    <3> QED
      BY <1>8, <3>2, PastBelow
  <2> QED
    BY <1>6, <2>1, <2>2
<1>10. ASSUME NEW u \in User, NEW i \in 1..Len(disk[u])
       PROVE  disk[u][i].id < NextBatchId(disk)
  <2>1. disk[u][i].id \in S
    BY <1>1
  <2>2. disk[u][i].id \in Nat /\ disk[u][i].id <= top
    BY <1>4, <1>6, <2>1
  <2> HIDE DEF top
  <2> QED
    BY <1>7, <1>8, <2>2 DEF top
<1> HIDE DEF S
<1> QED
  BY <1>7, <1>8, <1>9, <1>10

(* A client that has just been made, but for what an earlier one left on   *)
(* its way.                                                                *)
Fresh(d, u) ==
    /\ d.user = u /\ d.nextId = NextBatchId(disk) /\ d.waits = {}
    /\ \A v \in User : d.callbacks[v] = {}
    /\ d.network /\ d.pipeline = <<>> /\ d.state = "initial"
    /\ ~d.handshake /\ ~d.idle /\ d.close = 0 /\ d.asked = {}
    /\ d.token = NoToken /\ d.out = <<>> /\ d.in = <<>> /\ d.end = "none"

(* r is d, once its pipeline is filled from the queue.                     *)
Fills(r, d, queue) == \E new : FilledWith(r, d, new) /\ ComesNext(d, new, queue)

LEMMA RestartFields ==
    ASSUME Types, QueuesInOrder, Restart
    PROVE  /\ client' \in Client /\ ~client'.handshake
           /\ \E d \in Client :
                 /\ Fresh(d, authUser)
                 /\ d.late = IF client.end = "none" THEN client.out ELSE <<>>
                 /\ Fills(client', d, disk[authUser])
<1> DEFINE n == NewClient(disk, authUser)
           s == Started(disk, authUser)
           late == IF client.end = "none" THEN client.out ELSE <<>>
           d == [n EXCEPT !.late = late]
<1>1. authUser \in User /\ disk[authUser] \in Seq(Batch) /\ Increasing(disk[authUser])
  BY DEF Types, QueuesInOrder
<1>2. n \in Client /\ Fresh(n, authUser) /\ n.late = <<>>
  <2> DEFINE callbacks == [v \in User |-> {}]
  <2>1. NextBatchId(disk) \in Nat \ {0} /\ callbacks \in [User -> SUBSET Batch]
        /\ \A v \in User : callbacks[v] = {}
    BY NextIdAboveAll
  <2>2. <<>> \in Seq(Batch) /\ <<>> \in Seq(Request)
    OBVIOUS
  <2>3. n = [user |-> authUser, nextId |-> NextBatchId(disk), callbacks |-> callbacks,
             waits |-> {}, network |-> TRUE, pipeline |-> <<>>, state |-> "initial",
             handshake |-> FALSE, idle |-> FALSE, close |-> 0, asked |-> {},
             token |-> NoToken, out |-> <<>>, in |-> <<>>, end |-> "none", late |-> <<>>]
    BY DEF NewClient
  <2> HIDE DEF n, callbacks
  <2> QED
    BY <1>1, <2>1, <2>2, <2>3 DEF Fresh, Client, StreamState
<1>3. s = FillWritePipeline(n, disk[authUser])
  BY DEF Started
<1> HIDE DEF n
<1>4. IsFront(n.pipeline, disk[authUser]) /\ Len(n.pipeline) <= MaxPending
  BY <1>1, <1>2, BoundAssumption DEF Fresh, IsFront
<1>5. s \in Client /\ s.handshake = n.handshake /\ Fills(s, n, disk[authUser])
  <2> HIDE DEF s
  <2> QED
    BY <1>1, <1>2, <1>3, <1>4, FillFields DEF Fresh, Fills
<1> HIDE DEF s
<1>6. client' = [s EXCEPT !.late = late]
  BY DEF Restart, s, Forgotten, Types, Client
<1>7. late \in Seq(Request)
  BY DEF Types, Client
<1> HIDE DEF late
<1>8. /\ client' \in Client
      /\ SameEngine(client', s) /\ SameStream(client', s)
      /\ client'.token = s.token /\ client'.out = s.out /\ client'.in = s.in
      /\ client'.end = s.end /\ client'.late = late
  BY <1>5, <1>6, <1>7 DEF Client, SameEngine, SameStream
<1>9. /\ d \in Client
      /\ SameEngine(d, n) /\ SameStream(d, n)
      /\ d.token = n.token /\ d.out = n.out /\ d.in = n.in
      /\ d.end = n.end /\ d.late = late
  BY <1>2, <1>7 DEF Client, SameEngine, SameStream
<1> HIDE DEF d
<1>10. Fresh(d, authUser)
  BY <1>2, <1>9 DEF Fresh, SameEngine, SameStream
<1>11. PICK new : FilledWith(s, n, new) /\ ComesNext(n, new, disk[authUser])
  BY <1>5 DEF Fills
<1>12. FilledWith(client', d, new)
  BY <1>8, <1>9, <1>11 DEF FilledWith, SameEngine, SameStream, Begins, IsOpen, IsStarted
<1>13. ComesNext(d, new, disk[authUser])
  BY <1>9, <1>11 DEF ComesNext, SameStream
<1>14. ~client'.handshake
  BY <1>2, <1>5, <1>8 DEF Fresh, SameStream
<1> QED
  BY <1>8, <1>9, <1>10, <1>12, <1>13, <1>14 DEF late, Fills

(* The first batch of the signed-in user's queue is taken out.             *)
TakesFirst(queues, u) ==
    /\ queues[u] = Tail(disk[u])
    /\ \A v \in User \ {u} : queues[v] = disk[v]
    /\ queues \in [User -> Seq(Batch)]

LEMMA FrontIsFirst ==
    ASSUME Types, QueuesInOrder, PipelineFits(client, disk[client.user]),
           client.pipeline # <<>>
    PROVE  LET queue == disk[client.user]
               front == Head(client.pipeline)
               queues == [disk EXCEPT ![client.user] = WithoutBatch(@, front.id)]
           IN  /\ client.user \in User
               /\ queue \in Seq(Batch) /\ queue # <<>> /\ Increasing(queue)
               /\ front = queue[1] /\ front = client.pipeline[1] /\ front \in Batch
               /\ TakesFirst(queues, client.user)
               /\ Increasing(Tail(queue)) /\ Tail(queue) \in Seq(Batch)
               /\ IsFront(Tail(client.pipeline), Tail(queue))
<1> DEFINE queue == disk[client.user]
           front == Head(client.pipeline)
           queues == [disk EXCEPT ![client.user] = WithoutBatch(@, front.id)]
<1>1. client.user \in User /\ disk \in [User -> Seq(Batch)] /\ client.pipeline \in Seq(Batch)
  BY DEF Types, Client
<1>2. queue \in Seq(Batch) /\ Increasing(queue)
  BY <1>1 DEF QueuesInOrder
<1>3. Len(client.pipeline) \in Nat \ {0} /\ IsFront(client.pipeline, queue)
  BY <1>1 DEF PipelineFits
<1>4. queue # <<>> /\ Len(queue) \in Nat \ {0}
  BY <1>2, <1>3 DEF IsFront
<1>5. front = client.pipeline[1] /\ front \in Batch
  BY <1>1, <1>3
<1>6. front = queue[1]
  BY <1>3, <1>5 DEF IsFront
<1>7. /\ Tail(queue) \in Seq(Batch) /\ Len(Tail(queue)) = Len(queue) - 1
      /\ \A i \in 1..Len(Tail(queue)) : Tail(queue)[i] = queue[i + 1]
  BY <1>2, <1>4, HeadTailProperties
<1>8. /\ Len(Tail(client.pipeline)) = Len(client.pipeline) - 1
      /\ \A i \in 1..Len(Tail(client.pipeline)) : Tail(client.pipeline)[i] = client.pipeline[i + 1]
  BY <1>1, <1>3, HeadTailProperties
<1> HIDE DEF queue
<1>9. IsFront(Tail(client.pipeline), Tail(queue))
  BY <1>3, <1>4, <1>7, <1>8 DEF IsFront
<1>10. Increasing(Tail(queue))
  BY <1>2, <1>4, <1>7 DEF Increasing
<1>11. TakesFirst(queues, client.user)
  <2>1. WithoutBatch(queue, front.id) = Tail(queue)
    BY <1>2, <1>4, <1>6, WithoutFirst
  <2>2. queues = [disk EXCEPT ![client.user] = Tail(queue)]
    BY <2>1 DEF queue
  <2> HIDE DEF queues
  <2> QED
    BY <1>1, <1>7, <2>2 DEF TakesFirst, queue
<1> QED
  BY <1>1, <1>2, <1>4, <1>5, <1>6, <1>7, <1>9, <1>10, <1>11 DEF queue

(* The front of the pipeline is settled: d is the client without it, before *)
(* the pipeline is filled again.                                           *)
MutationResultLeaves(d, front) ==
    /\ Settles(d, client, front.id)
    /\ d.pipeline = Tail(client.pipeline) /\ d.in = Tail(client.in)
    /\ d.network = client.network /\ d.state = client.state /\ d.handshake = client.handshake
    /\ d.idle = client.idle /\ d.close = client.close /\ d.asked = client.asked
    /\ d.token = client.token /\ d.out = client.out /\ d.end = client.end
    /\ d.late = client.late

LEMMA MutationResultFields ==
    ASSUME Types, QueuesInOrder, PipelineFits(client, disk[client.user]), MutationResult
    PROVE  LET front == Head(client.pipeline)
               u == client.user
           IN  /\ client.in # <<>> /\ client.handshake /\ client.pipeline # <<>>
               /\ TakesFirst(disk', u)
               /\ client' \in Client /\ client'.handshake
               /\ NotifyUser(front.id, "ok")
               /\ TriggerPendingWriteCallbacks(front.id)
               /\ UNCHANGED <<auth, workQueue, issued, server>>
               /\ \E d \in Client : /\ MutationResultLeaves(d, front)
                                    /\ Fills(client', d, disk'[u])
<1> DEFINE front == Head(client.pipeline)
           u == client.user
           e == [client EXCEPT !.in = Tail(@), !.pipeline = Tail(@)]
           d == WithoutCallbacks(e, front.id)
<1>1. /\ client.in # <<>> /\ client.handshake /\ client.pipeline # <<>>
      /\ disk' = [disk EXCEPT ![u] = WithoutBatch(@, front.id)]
      /\ client' = FillWritePipeline(d, disk'[u])
      /\ NotifyUser(front.id, "ok")
      /\ TriggerPendingWriteCallbacks(front.id)
      /\ UNCHANGED <<auth, workQueue, issued, server>>
  BY DEF MutationResult
<1>2. /\ u \in User
      /\ TakesFirst(disk', u)
      /\ Increasing(Tail(disk[u])) /\ Tail(disk[u]) \in Seq(Batch)
      /\ IsFront(Tail(client.pipeline), Tail(disk[u]))
  BY <1>1, FrontIsFirst
<1>3. /\ client \in Client /\ client.in \in Seq(Request) /\ client.pipeline \in Seq(Batch)
      /\ Tail(client.in) \in Seq(Request) /\ Tail(client.pipeline) \in Seq(Batch)
      /\ Len(Tail(client.pipeline)) = Len(client.pipeline) - 1
  <2>1. client \in Client /\ client.in \in Seq(Request) /\ client.pipeline \in Seq(Batch)
    BY DEF Types, Client
  <2> QED
    BY <1>1, <2>1, HeadTailProperties
<1>4. /\ e \in Client
      /\ SameEngine(e, client)
      /\ e.pipeline = Tail(client.pipeline) /\ e.in = Tail(client.in)
      /\ e.network = client.network /\ e.state = client.state /\ e.handshake = client.handshake
      /\ e.idle = client.idle /\ e.close = client.close /\ e.asked = client.asked
      /\ e.token = client.token /\ e.out = client.out /\ e.end = client.end
      /\ e.late = client.late
  BY <1>3 DEF Client, SameEngine
<1> HIDE DEF e
<1>5. d \in Client /\ Settles(d, e, front.id) /\ SameStream(d, e) /\ SameCall(d, e)
  BY <1>4, WithoutCallbacksFields
<1> HIDE DEF d
<1>6. MutationResultLeaves(d, front)
  BY <1>4, <1>5 DEF MutationResultLeaves, Settles, SameStream, SameCall, SameEngine
<1>7. /\ disk'[u] = Tail(disk[u])
      /\ IsFront(d.pipeline, disk'[u]) /\ Len(d.pipeline) <= MaxPending
      /\ d.network \/ d.pipeline = <<>>
  <2>1. disk'[u] = Tail(disk[u]) /\ d.pipeline = Tail(client.pipeline) /\ d.network = client.network
    BY <1>2, <1>6 DEF TakesFirst, MutationResultLeaves
  <2>2. Len(client.pipeline) <= MaxPending /\ Len(client.pipeline) \in Nat /\ client.network
    BY <1>1, <1>3 DEF PipelineFits
  <2> QED
    BY <1>2, <1>3, <2>1, <2>2, BoundAssumption
<1>8. client' \in Client /\ client'.handshake = d.handshake /\ Fills(client', d, disk'[u])
  BY <1>1, <1>2, <1>5, <1>7, FillFields DEF Fills
<1>9. client'.handshake
  BY <1>1, <1>6, <1>8 DEF MutationResultLeaves
<1> QED
  BY <1>1, <1>2, <1>5, <1>6, <1>8, <1>9

(* A call ends and rejects the front of the pipeline.                      *)
RejectionLeaves(d, front) ==
    /\ Settles(d, client, front.id)
    /\ d.pipeline = Tail(client.pipeline)
    /\ Forgets(d, client)
    /\ d.network = client.network /\ d.state = "initial"
    /\ ~d.idle /\ d.close = client.close + 1 /\ d.asked = client.asked

(* A call ends otherwise.                                                  *)
BreakLeaves(d) ==
    /\ Closes(d, client)
    /\ d.state = "error" /\ d.network = client.network /\ d.pipeline = client.pipeline

Rejects(status) ==
    client.handshake /\ client.pipeline # <<>> /\ IsPermanentWriteError(status)

LEMMA RejectionFields ==
    ASSUME Types, QueuesInOrder, PipelineFits(client, disk[client.user]),
           NEW status, CallEnds(status), Rejects(status)
    PROVE  LET front == Head(client.pipeline)
               u == client.user
           IN  /\ TakesFirst(disk', u)
               /\ client' \in Client /\ ~client'.handshake
               /\ NotifyUser(front.id, "rejected")
               /\ TriggerPendingWriteCallbacks(front.id)
               /\ \E d \in Client : /\ RejectionLeaves(d, front)
                                    /\ Fills(client', d, disk'[u])
<1> DEFINE front == Head(client.pipeline)
           u == client.user
           closed == Close(client, "error")
           e == [closed EXCEPT !.state = "initial", !.pipeline = Tail(@)]
           d == WithoutCallbacks(e, front.id)
           f == FillWritePipeline(d, disk'[u])
           g == StartIfNeeded(f)
<1>1. /\ disk' = [disk EXCEPT ![u] = WithoutBatch(@, front.id)]
      /\ client' = [g EXCEPT !.handshake = FALSE]
      /\ NotifyUser(front.id, "rejected")
      /\ TriggerPendingWriteCallbacks(front.id)
  BY DEF CallEnds, Rejects
<1>2. /\ u \in User
      /\ TakesFirst(disk', u)
      /\ Increasing(Tail(disk[u])) /\ Tail(disk[u]) \in Seq(Batch)
      /\ IsFront(Tail(client.pipeline), Tail(disk[u]))
  BY <1>1, FrontIsFirst DEF Rejects
<1>3. /\ client \in Client /\ client.pipeline \in Seq(Batch)
      /\ Tail(client.pipeline) \in Seq(Batch)
      /\ Len(Tail(client.pipeline)) = Len(client.pipeline) - 1
  <2>1. client \in Client /\ client.pipeline \in Seq(Batch)
    BY DEF Types, Client
  <2> QED
    BY <2>1, HeadTailProperties DEF Rejects
<1>4. /\ closed \in Client /\ Closes(closed, client)
      /\ closed.network = client.network /\ closed.pipeline = client.pipeline
  BY <1>3, CloseFields DEF StreamState
<1> HIDE DEF closed
<1>5. /\ e \in Client
      /\ Closes(e, client) /\ e.state = "initial"
      /\ e.network = client.network /\ e.pipeline = Tail(client.pipeline)
  BY <1>3, <1>4 DEF Client, StreamState, Closes, SameEngine, Forgets
<1> HIDE DEF e
<1>6. d \in Client /\ Settles(d, e, front.id) /\ SameStream(d, e) /\ SameCall(d, e)
  BY <1>5, WithoutCallbacksFields
<1> HIDE DEF d
<1>7. RejectionLeaves(d, front)
  BY <1>5, <1>6 DEF RejectionLeaves, Settles, SameStream, SameCall, SameEngine, Closes, Forgets
<1>8. /\ disk'[u] = Tail(disk[u])
      /\ IsFront(d.pipeline, disk'[u]) /\ Len(d.pipeline) <= MaxPending
      /\ d.network \/ d.pipeline = <<>>
  <2>1. disk'[u] = Tail(disk[u]) /\ d.pipeline = Tail(client.pipeline) /\ d.network = client.network
    BY <1>2, <1>7 DEF TakesFirst, RejectionLeaves
  <2>2. Len(client.pipeline) <= MaxPending /\ Len(client.pipeline) \in Nat /\ client.network
    BY <1>3 DEF PipelineFits, Rejects
  <2> QED
    BY <1>2, <1>3, <2>1, <2>2, BoundAssumption
<1>9. f \in Client /\ Fills(f, d, disk'[u])
  BY <1>2, <1>6, <1>8, FillFields DEF Fills
<1> HIDE DEF f
<1>10. PICK new : FilledWith(f, d, new) /\ ComesNext(d, new, disk'[u])
  BY <1>9 DEF Fills
<1>11. g = f
  <2>1. ~ShouldStartWriteStream(f)
    BY <1>7, <1>10 DEF FilledWith, Begins, RejectionLeaves, ShouldStartWriteStream, IsStarted
  <2> QED
    BY <2>1 DEF StartIfNeeded
<1>12. /\ client' \in Client /\ ~client'.handshake
       /\ SameEngine(client', f) /\ SameCall(client', f)
       /\ client'.network = f.network /\ client'.pipeline = f.pipeline /\ client'.state = f.state
       /\ client'.idle = f.idle /\ client'.close = f.close /\ client'.asked = f.asked
  BY <1>1, <1>9, <1>11 DEF Client, SameEngine, SameCall
<1>13. FilledWith(client', d, new)
  BY <1>10, <1>12 DEF FilledWith, SameEngine, SameCall, Begins
<1>14. Fills(client', d, disk'[u])
  BY <1>10, <1>13 DEF Fills
<1> QED
  BY <1>1, <1>2, <1>6, <1>7, <1>12, <1>14

LEMMA BreakFields ==
    ASSUME Types, NEW status, CallEnds(status), ~Rejects(status)
    PROVE  /\ UNCHANGED <<disk, told, waited>>
           /\ client' \in Client /\ ~client'.handshake
           /\ \E d \in Client :
                 /\ BreakLeaves(d)
                 /\ SameEngine(client', d) /\ SameCall(client', d) /\ Begins(client', d)
                 /\ client'.network = d.network /\ client'.pipeline = d.pipeline
                 /\ client'.idle = d.idle /\ client'.close = d.close
<1> DEFINE d == Close(client, "error")
           g == StartIfNeeded(d)
<1>1. /\ UNCHANGED <<disk, told, waited>>
      /\ client' = [g EXCEPT !.handshake = FALSE]
  BY DEF CallEnds, Rejects
<1>2. d \in Client /\ BreakLeaves(d)
  BY CloseFields DEF StreamState, BreakLeaves, Types
<1> HIDE DEF d
<1>3. /\ g \in Client
      /\ SameEngine(g, d) /\ SameCall(g, d) /\ Begins(g, d)
      /\ g.network = d.network /\ g.pipeline = d.pipeline
      /\ g.idle = d.idle /\ g.close = d.close
  BY <1>2, StartIfNeededFields
<1> HIDE DEF g
<1>4. /\ client' \in Client /\ ~client'.handshake
      /\ SameEngine(client', g) /\ SameCall(client', g)
      /\ client'.network = g.network /\ client'.pipeline = g.pipeline /\ client'.state = g.state
      /\ client'.idle = g.idle /\ client'.close = g.close /\ client'.asked = g.asked
  BY <1>1, <1>3 DEF Client, SameEngine, SameCall
<1>5. SameEngine(client', d) /\ SameCall(client', d) /\ Begins(client', d)
  BY <1>3, <1>4 DEF SameEngine, SameCall, Begins
<1> QED
  BY <1>1, <1>2, <1>3, <1>4, <1>5

-----------------------------------------------------------------------------
(* What the queues hold after one was appended to or taken from.           *)

LEMMA TailFacts ==
    ASSUME NEW S, NEW s \in Seq(S), s # <<>>
    PROVE  /\ Tail(s) \in Seq(S) /\ Len(s) \in Nat \ {0} /\ Len(Tail(s)) = Len(s) - 1
           /\ \A i \in 1..Len(Tail(s)) : Tail(s)[i] = s[i + 1] /\ i + 1 \in 1..Len(s)
           /\ Head(s) = s[1] /\ s[1] \in S
<1>1. Len(s) \in Nat \ {0} /\ Head(s) = s[1] /\ s[1] \in S
  OBVIOUS
<1>2. /\ Tail(s) \in Seq(S) /\ Len(Tail(s)) = Len(s) - 1
      /\ \A i \in 1..Len(Tail(s)) : Tail(s)[i] = s[i + 1]
  BY HeadTailProperties
<1> QED
  BY <1>1, <1>2

LEMMA AppendFacts ==
    ASSUME NEW S, NEW s \in Seq(S), NEW e \in S
    PROVE  /\ Append(s, e) \in Seq(S) /\ Len(s) \in Nat /\ Len(Append(s, e)) = Len(s) + 1
           /\ \A i \in 1..Len(s) : Append(s, e)[i] = s[i]
           /\ Append(s, e)[Len(s) + 1] = e
OBVIOUS

(* The kinds of tasks and notices.                                         *)
LEMMA TaskKinds ==
    ASSUME NEW t \in Task
    PROVE  /\ t.do \in {"write", "credential", "resume", "disable", "enable", "wait", "connectivity"}
           /\ t.do = "write" => t.write \in Write /\ t.write \in Nat \ {0}
           /\ t.do = "credential" => t.user \in User
           /\ t.do = "resume" => t.token \in User \cup {Failed} /\ t.close \in Nat
BY BoundAssumption DEF Task, Write

LEMMA TaskTypes ==
    /\ \A w \in Write : WriteTask(w) \in Task /\ WriteTask(w).do = "write" /\ WriteTask(w).write = w
    /\ \A u \in User : /\ CredentialTask(u) \in Task /\ CredentialTask(u).do = "credential"
                       /\ CredentialTask(u).user = u
    /\ \A token \in User \cup {Failed}, close \in Nat :
          /\ ResumeTask(token, close) \in Task /\ ResumeTask(token, close).do = "resume"
          /\ ResumeTask(token, close).token = token /\ ResumeTask(token, close).close = close
    /\ \A what \in {"disable", "enable", "wait", "connectivity"} :
          NetworkTask(what) \in Task /\ NetworkTask(what).do = what
BY DEF Task, WriteTask, CredentialTask, ResumeTask, NetworkTask

LEMMA NoticeKinds ==
    ASSUME NEW n \in Notice
    PROVE  /\ n.is \in {"posted", "token"}
           /\ n.is = "posted" => n.user \in User
           /\ n.is = "token" => /\ n.ask \in Answer /\ n.ask.counter \in Nat /\ n.ask.close \in Nat
                                /\ n.ask.user \in User \cup {Failed}
BY DEF Notice, Answer

LEMMA NoticeTypes ==
    /\ \A u \in User : Posted(u) \in Notice /\ Posted(u).is = "posted" /\ Posted(u).user = u
    /\ \A ask \in Answer : Token(ask) \in Notice /\ Token(ask).is = "token" /\ Token(ask).ask = ask
BY DEF Notice, Posted, Token

-----------------------------------------------------------------------------
(* What the tasks of the app do.                                           *)

WriteLeaves(d, b) ==
    /\ d.user = client.user /\ d.nextId = client.nextId + 1 /\ d.waits = client.waits
    /\ \A v \in User :
          d.callbacks[v] \subseteq
              IF v = client.user THEN client.callbacks[v] \cup {b} ELSE client.callbacks[v]
    /\ SameStream(d, client) /\ SameCall(d, client)

LEMMA RunWriteFields ==
    ASSUME Types, Numbers, PipelineFits(client, disk[client.user]), RunWrite
    PROVE  LET u == client.user
               b == [id |-> client.nextId, write |-> Head(workQueue).write, user |-> u]
           IN  /\ workQueue # <<>> /\ workQueue' = Tail(workQueue)
               /\ workQueue[1].do = "write" /\ b.write = workQueue[1].write
               /\ b \in Batch
               /\ u \in User
               /\ disk' \in [User -> Seq(Batch)]
               /\ disk'[u] = Append(disk[u], b) /\ \A v \in User \ {u} : disk'[v] = disk[v]
               /\ Increasing(disk'[u])
               /\ client' \in Client /\ client'.handshake = client.handshake
               /\ UNCHANGED <<auth, app, server>>
               /\ \E d \in Client : WriteLeaves(d, b) /\ Fills(client', d, disk'[u])
<1> DEFINE u == client.user
           b == [id |-> client.nextId, write |-> Head(workQueue).write, user |-> u]
           taken == \E e \in client.callbacks[u] : e.id = b.id
           kept == [client.callbacks EXCEPT ![u] = IF taken THEN @ ELSE @ \cup {b}]
           d == [client EXCEPT !.nextId = @ + 1, !.callbacks = kept]
<1>1. workQueue # <<>> /\ Head(workQueue).do = "write" /\ workQueue' = Tail(workQueue)
      /\ UNCHANGED <<auth, app, server>>
  BY DEF RunWrite, Runs, Dequeue
<1>2. /\ client \in Client /\ u \in User /\ workQueue \in Seq(Task) /\ disk \in [User -> Seq(Batch)]
      /\ client.callbacks \in [User -> SUBSET Batch]
      /\ client.nextId \in Nat \ {0} /\ client.nextId + 1 \in Nat \ {0}
      /\ disk[u] \in Seq(Batch)
  BY DEF Types, Client
<1>3. Head(workQueue) = workQueue[1] /\ workQueue[1] \in Task /\ Len(workQueue) \in Nat \ {0}
  BY <1>1, <1>2, TailFacts
<1>4. b.write = workQueue[1].write /\ b.write \in Write /\ b.id = client.nextId /\ b \in Batch
  BY <1>1, <1>2, <1>3, TaskKinds DEF Batch
<1>5. disk' = [disk EXCEPT ![u] = Append(disk[u], b)] /\ client' = FillWritePipeline(d, disk'[u])
  <2>1. client' = FillWritePipeline([client EXCEPT !.nextId = @ + 1,
            !.callbacks[u] = IF taken THEN @ ELSE @ \cup {b}], disk'[u])
    BY DEF RunWrite
  <2>2. [client EXCEPT !.nextId = @ + 1, !.callbacks[u] = IF taken THEN @ ELSE @ \cup {b}] = d
    BY <1>2 DEF Client
  <2>3. disk' = [disk EXCEPT ![u] = Append(disk[u], b)]
    BY DEF RunWrite
  <2> QED
    BY <2>1, <2>2, <2>3
<1> HIDE DEF b
<1>6. /\ disk'[u] = Append(disk[u], b) /\ disk'[u] \in Seq(Batch)
      /\ \A v \in User \ {u} : disk'[v] = disk[v]
      /\ disk' \in [User -> Seq(Batch)]
  BY <1>2, <1>4, <1>5
<1>7. \A i \in 1..Len(disk[u]) : disk[u][i].id < b.id /\ disk[u][i].write < b.write
  <2> TAKE i \in 1..Len(disk[u])
  <2>1. disk[u][i].id < client.nextId
    BY DEF Numbers, NextIdIsFree
  <2>2. Past(disk[u][i].write)
    BY <1>2 DEF Numbers, QueuesInOrder
  <2>3. disk[u][i].write < workQueue[1].write
    BY <1>1, <1>3, <2>2 DEF Past
  <2> QED
    BY <1>4, <2>1, <2>3
<1>8. Increasing(disk'[u])
  <2>1. Increasing(disk[u])
    BY <1>2 DEF Numbers, QueuesInOrder
  <2> QED
    BY <1>2, <1>4, <1>6, <1>7, <2>1, AppendFacts DEF Increasing
<1>9. kept \in [User -> SUBSET Batch]
      /\ \A v \in User : kept[v] \subseteq
              IF v = u THEN client.callbacks[v] \cup {b} ELSE client.callbacks[v]
  BY <1>2, <1>4
<1> HIDE DEF kept
<1>10. d \in Client /\ WriteLeaves(d, b)
  BY <1>2, <1>9 DEF Client, WriteLeaves, SameStream, SameCall
<1>11. /\ IsFront(d.pipeline, disk'[u]) /\ Len(d.pipeline) <= MaxPending
       /\ d.network \/ d.pipeline = <<>>
  <2>1. d.pipeline = client.pipeline /\ d.network = client.network /\ client.pipeline \in Seq(Batch)
    BY <1>2, <1>10 DEF WriteLeaves, SameStream, Client
  <2>2. IsFront(client.pipeline, disk'[u])
    BY <1>2, <1>4, <1>6, <2>1, AppendFacts DEF IsFront, PipelineFits
  <2> QED
    BY <2>1, <2>2 DEF PipelineFits
<1> HIDE DEF d
<1>12. client' \in Client /\ client'.handshake = d.handshake /\ Fills(client', d, disk'[u])
  BY <1>5, <1>6, <1>8, <1>10, <1>11, FillFields DEF Fills
<1>13. client'.handshake = client.handshake
  BY <1>10, <1>12 DEF WriteLeaves, SameStream
<1> QED
  BY <1>1, <1>2, <1>3, <1>4, <1>6, <1>8, <1>10, <1>12, <1>13 DEF b

(* The sync engine goes over to user u.                                    *)
SwapLeaves(s, u) ==
    /\ s.user = u /\ s.callbacks = client.callbacks
    /\ IF u = client.user
       THEN s.waits = client.waits /\ s.nextId = client.nextId
       ELSE s.waits = {} /\ s.nextId = NextBatchId(disk)
    /\ SameStream(s, client) /\ SameCall(s, client)

LEMMA RunCredentialFields ==
    ASSUME Types, QueuesInOrder, RunCredential
    PROVE  LET u == Head(workQueue).user
           IN  /\ workQueue # <<>> /\ workQueue' = Tail(workQueue)
               /\ workQueue[1].do = "credential" /\ u = workQueue[1].user /\ u \in User
               /\ client' \in Client
               /\ UNCHANGED <<auth, disk, app, server>>
               /\ \E s \in Client :
                     /\ SwapLeaves(s, u)
                     /\ \/ ~client.network /\ client' = s
                        \/ /\ client.network
                           /\ \E d \in Client : /\ Afresh(d, s) /\ client'.handshake = d.handshake
                                                /\ Fills(client', d, disk[u])
<1> DEFINE u == Head(workQueue).user
           waits == IF u # client.user THEN {} ELSE client.waits
           nextId == IF u # client.user THEN NextBatchId(disk) ELSE client.nextId
           s == [client EXCEPT !.user = u, !.waits = waits, !.nextId = nextId]
<1>1. workQueue # <<>> /\ Head(workQueue).do = "credential" /\ workQueue' = Tail(workQueue)
      /\ UNCHANGED <<auth, disk, app, server>>
  BY DEF RunCredential, Runs, Dequeue
<1>2. /\ client \in Client /\ workQueue \in Seq(Task) /\ disk \in [User -> Seq(Batch)]
      /\ NextBatchId(disk) \in Nat \ {0}
  BY NextIdAboveAll DEF Types
<1>3. Head(workQueue) = workQueue[1] /\ workQueue[1] \in Task
  BY <1>1, <1>2, TailFacts
<1>4. u = workQueue[1].user /\ u \in User
  BY <1>1, <1>3, TaskKinds
<1>5. client' = IF client.network THEN NetworkRestarted(s, disk[u]) ELSE s
  <2>1. s = [client EXCEPT !.user = u,
                           !.waits = IF u # client.user THEN {} ELSE @,
                           !.nextId = IF u # client.user THEN NextBatchId(disk) ELSE @]
    BY <1>2 DEF Client
  <2> QED
    BY <2>1 DEF RunCredential
<1> HIDE DEF u
<1>6. s \in Client /\ SwapLeaves(s, u)
  <2>1. waits \in SUBSET [id : Nat, covers : SUBSET Write] /\ nextId \in Nat \ {0}
    BY <1>2 DEF Client
  <2>2. IF u = client.user
        THEN waits = client.waits /\ nextId = client.nextId
        ELSE waits = {} /\ nextId = NextBatchId(disk)
    OBVIOUS
  <2> HIDE DEF waits, nextId
  <2>3. s \in Client /\ s.user = u /\ s.callbacks = client.callbacks
        /\ s.waits = waits /\ s.nextId = nextId /\ SameStream(s, client) /\ SameCall(s, client)
    BY <1>2, <1>4, <2>1 DEF Client, SameStream, SameCall
  <2> HIDE DEF s
  <2> QED
    BY <2>2, <2>3 DEF SwapLeaves
<1> HIDE DEF s
<1>7. CASE ~client.network
  BY <1>1, <1>3, <1>4, <1>5, <1>6, <1>7 DEF u
<1>8. CASE client.network
  <2>1. disk[u] \in Seq(Batch) /\ Increasing(disk[u])
    BY <1>2, <1>4 DEF QueuesInOrder
  <2>2. /\ client' \in Client
        /\ \E d \in Client : /\ Afresh(d, s) /\ client'.handshake = d.handshake
                             /\ Fills(client', d, disk[u])
    BY <1>5, <1>6, <1>8, <2>1, NetworkRestartedFields DEF Fills
  <2> QED
    BY <1>1, <1>3, <1>4, <1>6, <1>8, <2>2 DEF u
<1> QED
  BY <1>2, <1>7, <1>8 DEF Client

-----------------------------------------------------------------------------
(* What the other actions do.                                              *)

SameButAsked(r, c) ==
    /\ SameEngine(r, c) /\ SameCall(r, c)
    /\ r.network = c.network /\ r.pipeline = c.pipeline /\ r.state = c.state
    /\ r.handshake = c.handshake /\ r.idle = c.idle /\ r.close = c.close

LEMMA AskedFields ==
    ASSUME NEW c \in Client, NEW asked \in SUBSET Asking
    PROVE  LET r == [c EXCEPT !.asked = asked]
           IN  r \in Client /\ SameButAsked(r, c) /\ r.asked = asked
BY DEF Client, SameButAsked, SameEngine, SameCall

LEMMA AskingTypes ==
    ASSUME Types, NEW ask \in client.asked
    PROVE  /\ ask \in Asking /\ ask.counter \in Nat /\ ask.close \in Nat
           /\ ask.user \in User \cup {NoToken}
           /\ ask.user # NoToken => ask \in Answer
           /\ \A u \in User : LET a == [ask EXCEPT !.user = u]
                              IN  a \in Asking /\ a.user = u
                                  /\ a.counter = ask.counter /\ a.close = ask.close
           /\ LET a == [ask EXCEPT !.user = Failed]
              IN  a \in Answer /\ a.user = Failed
                  /\ a.counter = ask.counter /\ a.close = ask.close
<1>1. ask \in Asking
  BY DEF Types, Client
<1> QED
  BY <1>1 DEF Asking, Answer

LEMMA ReadUserFields ==
    ASSUME Types, NEW ask \in client.asked, ReadUser(ask)
    PROVE  /\ client' \in Client /\ SameButAsked(client', client)
           /\ ask.user = NoToken
           /\ \E a \in Asking :
                 /\ a.counter = ask.counter /\ a.close = ask.close /\ a.user = authUser
                 /\ client'.asked = (client.asked \ {ask}) \cup {a}
           /\ UNCHANGED <<auth, workQueue, disk, app, server>>
<1> DEFINE a == [ask EXCEPT !.user = authUser]
           asked == (client.asked \ {ask}) \cup {a}
<1>1. client \in Client /\ authUser \in User /\ client.asked \in SUBSET Asking
  BY DEF Types, Client
<1>2. a \in Asking /\ a.counter = ask.counter /\ a.close = ask.close /\ a.user = authUser
  BY <1>1, AskingTypes
<1>3. asked \in SUBSET Asking
  BY <1>1, <1>2
<1>4. client' = [client EXCEPT !.asked = asked]
  BY <1>1 DEF ReadUser, Client
<1>5. client' \in Client /\ SameButAsked(client', client) /\ client'.asked = asked
  BY <1>1, <1>3, <1>4, AskedFields
<1> QED
  BY <1>2, <1>5 DEF ReadUser

(* An ask is over: its answer is put on the main queue.                    *)
Answers(ask, a) ==
    /\ client' \in Client /\ SameButAsked(client', client)
    /\ client'.asked = client.asked \ {ask}
    /\ a \in Answer /\ a.counter = ask.counter /\ a.close = ask.close
    /\ a.user = Failed \/ (a.user = ask.user /\ ask.user # NoToken)
    /\ mainQueue' = Append(mainQueue, Token(a))
    /\ UNCHANGED <<authUser, provider, workQueue, disk, app, server>>

LEMMA AnswerFields ==
    ASSUME Types, NEW ask \in client.asked, FetchToken(ask) \/ TokenFails(ask)
    PROVE  \E a : Answers(ask, a)
<1> DEFINE asked == client.asked \ {ask}
<1>1. client \in Client /\ asked \in SUBSET Asking
  BY DEF Types, Client
<1>2. client' = [client EXCEPT !.asked = asked]
  BY <1>1 DEF FetchToken, TokenFails, Client
<1>3. client' \in Client /\ SameButAsked(client', client) /\ client'.asked = asked
  BY <1>1, <1>2, AskedFields
<1>4. CASE FetchToken(ask)
  <2>1. Answers(ask, ask)
    BY <1>3, <1>4, AskingTypes DEF FetchToken, Answers
  <2> QED
    BY <2>1
<1>5. CASE TokenFails(ask)
  <2> DEFINE a == [ask EXCEPT !.user = Failed]
  <2>1. a \in Answer /\ a.user = Failed /\ a.counter = ask.counter /\ a.close = ask.close
    BY AskingTypes
  <2>2. mainQueue' = Append(mainQueue, Token(a))
        /\ UNCHANGED <<authUser, provider, workQueue, disk, app, server>>
    BY <1>5 DEF TokenFails
  <2>3. Answers(ask, a)
    BY <1>3, <2>1, <2>2 DEF Answers
  <2> QED
    BY <2>3
<1> QED
  BY <1>4, <1>5

LEMMA RunPostedFields ==
    ASSUME Types, RunPosted
    PROVE  /\ mainQueue # <<>> /\ mainQueue' = Tail(mainQueue) /\ mainQueue[1].is = "posted"
           /\ mainQueue[1].user \in User
           /\ provider' = [user |-> mainQueue[1].user, counter |-> provider.counter + 1]
           /\ workQueue' = Append(workQueue, CredentialTask(mainQueue[1].user))
           /\ UNCHANGED <<authUser, disk, client, app, server>>
<1>1. mainQueue # <<>> /\ Head(mainQueue).is = "posted"
  BY DEF RunPosted, Posts
<1>2. Head(mainQueue) = mainQueue[1] /\ mainQueue[1] \in Notice
  BY <1>1, TailFacts DEF Types
<1>3. mainQueue[1].user \in User
  BY <1>1, <1>2, NoticeKinds
<1> QED
  BY <1>1, <1>2, <1>3 DEF RunPosted

LEMMA RunTokenFields ==
    ASSUME Types, RunToken
    PROVE  LET ask == mainQueue[1].ask
           IN  /\ mainQueue # <<>> /\ mainQueue' = Tail(mainQueue) /\ mainQueue[1].is = "token"
               /\ ask \in Answer
               /\ client' \in Client /\ SameButAsked(client', client)
               /\ \/ /\ ask.counter # provider.counter
                     /\ client'.asked = client.asked \cup {Ask(ask.close)}
                     /\ UNCHANGED workQueue
                  \/ /\ ask.counter = provider.counter
                     /\ client'.asked = client.asked
                     /\ workQueue' = Append(workQueue, ResumeTask(ask.user, ask.close))
               /\ UNCHANGED <<authUser, provider, disk, app, server>>
<1> DEFINE ask == mainQueue[1].ask
           asked == client.asked \cup {Ask(ask.close)}
<1>1. mainQueue # <<>> /\ Head(mainQueue).is = "token"
  BY DEF RunToken, Posts
<1>2. Head(mainQueue) = mainQueue[1] /\ mainQueue[1] \in Notice
  BY <1>1, TailFacts DEF Types
<1>3. ask \in Answer /\ ask.close \in Nat
  BY <1>1, <1>2, NoticeKinds
<1>4. client \in Client /\ client.asked \in SUBSET Asking /\ Ask(ask.close) \in Asking
  BY <1>3, AskType DEF Types, Client
<1>5. mainQueue' = Tail(mainQueue) /\ UNCHANGED <<authUser, provider, disk, app, server>>
  BY DEF RunToken
<1>6. CASE ask.counter # provider.counter
  <2>1. client' = [client EXCEPT !.asked = asked] /\ UNCHANGED workQueue
    BY <1>2, <1>4, <1>6 DEF RunToken, Client
  <2>2. client' \in Client /\ SameButAsked(client', client) /\ client'.asked = asked
    BY <1>4, <2>1, AskedFields
  <2> QED
    BY <1>1, <1>2, <1>3, <1>5, <1>6, <2>1, <2>2
<1>7. CASE ask.counter = provider.counter
  <2>1. UNCHANGED client /\ workQueue' = Append(workQueue, ResumeTask(ask.user, ask.close))
    BY <1>2, <1>7 DEF RunToken
  <2> QED
    BY <1>1, <1>2, <1>3, <1>4, <1>5, <1>7, <2>1 DEF SameButAsked, SameEngine, SameCall
<1> QED
  BY <1>6, <1>7

(* The stream opens, or there was no token for it.                         *)
ResumeOpens(token) ==
    /\ client' \in Client
    /\ SameEngine(client', client)
    /\ client'.network = client.network /\ client'.pipeline = client.pipeline
    /\ client'.handshake = client.handshake /\ client'.idle = client.idle
    /\ client'.close = client.close /\ client'.asked = client.asked
    /\ client'.state = "open" /\ client'.token = token /\ client'.out = <<Handshake>>
    /\ client'.in = client.in /\ client'.end = client.end /\ client'.late = client.late

LEMMA RunResumeFields ==
    ASSUME Types, RunResume
    PROVE  LET task == workQueue[1]
           IN  /\ workQueue # <<>> /\ workQueue' = Tail(workQueue) /\ task.do = "resume"
               /\ task.token \in User \cup {Failed} /\ task.close \in Nat
               /\ UNCHANGED <<auth, issued, server>>
               /\ \/ task.close # client.close /\ UNCHANGED <<client, disk, told, waited>>
                  \/ /\ task.close = client.close /\ task.token = Failed
                     /\ CallEnds("unknown")
                  \/ /\ task.close = client.close /\ task.token # Failed
                     /\ ResumeOpens(task.token)
                     /\ UNCHANGED <<disk, told, waited>>
<1> DEFINE task == workQueue[1]
<1>1. workQueue # <<>> /\ Head(workQueue).do = "resume" /\ workQueue' = Tail(workQueue)
      /\ UNCHANGED <<auth, issued, server>>
  BY DEF RunResume, Runs, Dequeue
<1>2. Head(workQueue) = task /\ task \in Task
  BY <1>1, TailFacts DEF Types
<1>3. task.token \in User \cup {Failed} /\ task.close \in Nat
  BY <1>1, <1>2, TaskKinds
<1>4. CASE task.close # client.close
  <2>1. UNCHANGED <<client, disk, told, waited>>
    BY <1>2, <1>4 DEF RunResume
  <2> QED
    BY <1>1, <1>2, <1>3, <1>4, <2>1
<1>5. CASE task.close = client.close /\ task.token = Failed
  <2>1. CallEnds("unknown")
    BY <1>2, <1>5 DEF RunResume
  <2> QED
    BY <1>1, <1>2, <1>3, <1>5, <2>1
<1>6. CASE task.close = client.close /\ task.token # Failed
  <2>1. client' = [client EXCEPT !.state = "open", !.token = task.token, !.out = <<Handshake>>]
        /\ UNCHANGED <<disk, told, waited>>
    BY <1>2, <1>6 DEF RunResume
  <2>2. <<Handshake>> \in Seq(Request) /\ client \in Client /\ task.token \in User
    BY <1>3, <1>6 DEF Request, Types
  <2>3. ResumeOpens(task.token)
    BY <2>1, <2>2 DEF ResumeOpens, SameEngine, Client, StreamState
  <2> QED
    BY <1>1, <1>2, <1>3, <1>6, <2>1, <2>3
<1> QED
  BY <1>4, <1>5, <1>6

(* The network is turned on.                                               *)
EnableLeaves(d) ==
    /\ SameEngine(d, client) /\ SameCall(d, client) /\ d.asked = client.asked
    /\ d.handshake = client.handshake /\ d.idle = client.idle /\ d.close = client.close
    /\ d.state = client.state /\ d.pipeline = client.pipeline /\ d.network

LEMMA RunEnableFields ==
    ASSUME Types, QueuesInOrder, PipelineFits(client, disk[client.user]), RunEnable
    PROVE  /\ client' \in Client /\ client'.handshake = client.handshake
           /\ \E d \in Client : EnableLeaves(d) /\ Fills(client', d, disk[client.user])
           /\ workQueue # <<>> /\ workQueue' = Tail(workQueue) /\ workQueue[1].do = "enable"
           /\ UNCHANGED <<auth, disk, app, server>>
<1>1. workQueue # <<>> /\ Head(workQueue).do = "enable" /\ workQueue' = Tail(workQueue)
      /\ UNCHANGED <<auth, disk, app, server>>
      /\ client' = NetworkEnabled(client, disk[client.user])
  BY DEF RunEnable, Runs, Dequeue
<1>2. Head(workQueue) = workQueue[1]
  BY <1>1, TailFacts DEF Types
<1>3. client \in Client /\ disk[client.user] \in Seq(Batch) /\ Increasing(disk[client.user])
  BY DEF Types, Client, QueuesInOrder
<1> DEFINE d == [client EXCEPT !.network = TRUE]
<1>4. /\ client' \in Client /\ client'.handshake = client.handshake
      /\ d \in Client
      /\ EnableLeaves(d)
      /\ Fills(client', d, disk[client.user])
  BY <1>1, <1>3, NetworkEnabledFields DEF PipelineFits, EnableLeaves, Fills
<1> QED
  BY <1>1, <1>2, <1>4

LEMMA RunConnectivityFields ==
    ASSUME Types, QueuesInOrder, RunConnectivity
    PROVE  /\ client' \in Client
           /\ \/ ~client.network /\ UNCHANGED client
              \/ /\ client.network
                 /\ \E d \in Client : /\ Afresh(d, client) /\ client'.handshake = d.handshake
                                      /\ Fills(client', d, disk[client.user])
           /\ workQueue # <<>> /\ workQueue' = Tail(workQueue)
           /\ workQueue[1].do = "connectivity"
           /\ UNCHANGED <<auth, disk, app, server>>
<1>1. workQueue # <<>> /\ Head(workQueue).do = "connectivity" /\ workQueue' = Tail(workQueue)
      /\ UNCHANGED <<auth, disk, app, server>>
      /\ client' = IF client.network THEN NetworkRestarted(client, disk[client.user]) ELSE client
  BY DEF RunConnectivity, Runs, Dequeue
<1>2. Head(workQueue) = workQueue[1]
  BY <1>1, TailFacts DEF Types
<1>3. client \in Client /\ disk[client.user] \in Seq(Batch) /\ Increasing(disk[client.user])
  BY DEF Types, Client, QueuesInOrder
<1>4. CASE ~client.network
  BY <1>1, <1>2, <1>3, <1>4
<1>5. CASE client.network
  <2>1. /\ client' \in Client
        /\ \E d \in Client : /\ Afresh(d, client) /\ client'.handshake = d.handshake
                             /\ Fills(client', d, disk[client.user])
    BY <1>1, <1>3, <1>5, NetworkRestartedFields DEF Fills
  <2> QED
    BY <1>1, <1>2, <1>5, <2>1
<1> QED
  BY <1>3, <1>4, <1>5 DEF Client

LEMMA RunDisableFields ==
    ASSUME Types, RunDisable
    PROVE  /\ client' \in Client
           /\ Stops(client', client)
           /\ ~client'.network /\ client'.pipeline = <<>>
           /\ client'.state = IF IsStarted(client) THEN "initial" ELSE client.state
           /\ workQueue # <<>> /\ workQueue' = Tail(workQueue) /\ workQueue[1].do = "disable"
           /\ UNCHANGED <<auth, disk, app, server>>
<1>1. workQueue # <<>> /\ Head(workQueue).do = "disable" /\ workQueue' = Tail(workQueue)
      /\ UNCHANGED <<auth, disk, app, server>>
      /\ client' = NetworkDisabled(client)
  BY DEF RunDisable, Runs, Dequeue
<1>2. Head(workQueue) = workQueue[1]
  BY <1>1, TailFacts DEF Types
<1> QED
  BY <1>1, <1>2, NetworkDisabledFields DEF Types

LEMMA IdleElapsedFields ==
    ASSUME Types, IdleElapsed
    PROVE  /\ client' \in Client
           /\ Stops(client', client)
           /\ client'.network = client.network /\ client'.pipeline = client.pipeline
           /\ client'.state = IF IsStarted(client) THEN "initial" ELSE client.state
           /\ client.idle
           /\ UNCHANGED <<auth, workQueue, disk, app, server>>
BY StopFields DEF Types, IdleElapsed

LEMMA BackoffElapsedFields ==
    ASSUME Types, BackoffElapsed
    PROVE  /\ client' \in Client
           /\ SameEngine(client', client) /\ SameCall(client', client)
           /\ client'.network = client.network /\ client'.pipeline = client.pipeline
           /\ client'.handshake = client.handshake /\ client'.idle = client.idle
           /\ client'.close = client.close
           /\ client.state = "backoff" /\ client'.state = "starting"
           /\ client'.asked = client.asked \cup {Ask(client.close)}
           /\ UNCHANGED <<auth, workQueue, disk, app, server>>
<1>1. client \in Client /\ Ask(client.close) \in Asking
  BY AskType DEF Types, Client
<1>2. client' = Start([client EXCEPT !.state = "initial"])
  BY DEF BackoffElapsed
<1> DEFINE d == [client EXCEPT !.state = "initial"]
<1>3. d \in Client /\ d.state = "initial" /\ d.close = client.close /\ d.asked = client.asked
  BY <1>1 DEF Client, StreamState
<1>4. Start(d) = [d EXCEPT !.state = "starting", !.asked = @ \cup {Ask(d.close)}]
  BY <1>3 DEF Start
<1>5. client' = [client EXCEPT !.state = "starting", !.asked = client.asked \cup {Ask(client.close)}]
  BY <1>1, <1>2, <1>3, <1>4 DEF Client
<1> DEFINE asked == client.asked \cup {Ask(client.close)}
<1>6. asked \in SUBSET Asking
  BY <1>1 DEF Client
<1> HIDE DEF asked
<1>7. client' = [client EXCEPT !.state = "starting", !.asked = asked]
  BY <1>5 DEF asked
<1>8. /\ client' \in Client
      /\ SameEngine(client', client) /\ SameCall(client', client)
      /\ client'.network = client.network /\ client'.pipeline = client.pipeline
      /\ client'.handshake = client.handshake /\ client'.idle = client.idle
      /\ client'.close = client.close
      /\ client'.state = "starting" /\ client'.asked = asked
  BY <1>1, <1>6, <1>7 DEF Client, StreamState, SameEngine, SameCall
<1> QED
  BY <1>8 DEF BackoffElapsed, asked

WaitOf(queue) == [id |-> Last(queue).id, covers |-> {b.write : b \in ToSet(queue)}]

LEMMA RunWaitFields ==
    ASSUME Types, RunWait
    PROVE  LET queue == disk[client.user]
           IN  /\ client' \in Client
               /\ client'.user = client.user /\ client'.nextId = client.nextId
               /\ client'.callbacks = client.callbacks
               /\ SameStream(client', client) /\ SameCall(client', client)
               /\ \/ client'.waits = client.waits
                  \/ queue # <<>> /\ client'.waits = client.waits \cup {WaitOf(queue)}
               /\ workQueue # <<>> /\ workQueue' = Tail(workQueue) /\ workQueue[1].do = "wait"
               /\ UNCHANGED <<auth, disk, app, server>>
<1> DEFINE queue == disk[client.user]
<1>1. workQueue # <<>> /\ Head(workQueue).do = "wait" /\ workQueue' = Tail(workQueue)
      /\ UNCHANGED <<auth, disk, app, server>>
  BY DEF RunWait, Runs, Dequeue
<1>2. Head(workQueue) = workQueue[1]
  BY <1>1, TailFacts DEF Types
<1>3. client \in Client /\ queue \in Seq(Batch)
  BY DEF Types, Client
<1>4. CASE queue = <<>>
  BY <1>1, <1>2, <1>3, <1>4 DEF RunWait, SameStream, SameCall
<1>5. CASE queue # <<>>
  <2>1. client' = [client EXCEPT !.waits = @ \cup {WaitOf(queue)}]
    BY <1>5 DEF RunWait, WaitOf
  <2>2. WaitOf(queue) \in [id : Nat, covers : SUBSET Write]
    <3>1. Len(queue) \in 1..Len(queue)
      BY <1>3, <1>5
    <3>2. Last(queue) \in Batch
      BY <1>3, <3>1 DEF Last
    <3>3. {b.write : b \in ToSet(queue)} \in SUBSET Write
      <4>1. \A b \in ToSet(queue) : b \in Batch
        BY <1>3 DEF ToSet
      <4> QED
        BY <4>1 DEF Batch
    <3> QED
      BY <3>2, <3>3 DEF WaitOf, Batch
  <2> HIDE DEF queue
  <2>3. /\ client' \in Client
        /\ client'.user = client.user /\ client'.nextId = client.nextId
        /\ client'.callbacks = client.callbacks
        /\ SameStream(client', client) /\ SameCall(client', client)
        /\ client'.waits = client.waits \cup {WaitOf(queue)}
    BY <1>3, <2>1, <2>2 DEF Client, SameStream, SameCall
  <2> QED
    BY <1>1, <1>2, <1>5, <2>3 DEF queue
<1> QED
  BY <1>4, <1>5

LEMMA HandshakeFields ==
    ASSUME Types, HandshakeComplete
    PROVE  /\ client' \in Client
           /\ SameEngine(client', client)
           /\ client'.network = client.network /\ client'.pipeline = client.pipeline
           /\ client'.state = client.state /\ client'.close = client.close
           /\ client'.asked = client.asked
           /\ client.in # <<>> /\ ~client.handshake /\ client'.handshake
           /\ client'.in = Tail(client.in) /\ client'.out = client.out \o client.pipeline
           /\ client'.idle => client.idle /\ client.pipeline = <<>>
           /\ client'.token = client.token /\ client'.end = client.end /\ client'.late = client.late
           /\ UNCHANGED <<auth, workQueue, disk, app, server>>
<1>1. client \in Client /\ client.in \in Seq(Request) /\ client.pipeline \in Seq(Request)
      /\ client.out \in Seq(Request)
  BY DEF Types, Client, Request
<1>2. Tail(client.in) \in Seq(Request) /\ client.out \o client.pipeline \in Seq(Request)
  BY <1>1, TailFacts DEF HandshakeComplete
<1>3. client' = [client EXCEPT !.in = Tail(@), !.handshake = TRUE,
                               !.out = @ \o client.pipeline,
                               !.idle = @ /\ client.pipeline = <<>>]
  BY DEF HandshakeComplete
<1> QED
  BY <1>1, <1>2, <1>3 DEF HandshakeComplete, Client, SameEngine

(* The server commits what a request asks for.                             *)
Takes(request) ==
    /\ \A i \in 1..Len(log) : log'[i] = log[i]
    /\ \/ log' = log /\ (request = Handshake \/ Logged(request))
       \/ /\ request # Handshake /\ ~Logged(request)
          /\ log' = Append(log, LogEntry(request))
          /\ Len(log') = Len(log) + 1 /\ log'[Len(log) + 1] = LogEntry(request)
    /\ log' \in Seq(Entry)

LEMMA CommittedFields ==
    ASSUME Types, NEW request \in Request, log' = Committed(request)
    PROVE  Takes(request)
<1>1. log \in Seq(Entry)
  BY DEF Types
<1>2. LogEntry(request) \in ToSet(log) <=> Logged(request)
  BY <1>1 DEF ToSet, Logged
<1>3. CASE request = Handshake \/ Logged(request)
  BY <1>1, <1>2, <1>3 DEF Committed, Takes
<1>4. CASE ~(request = Handshake \/ Logged(request))
  <2>1. LogEntry(request) \in Entry /\ LogEntry(request) = LogEntry(request)
    BY <1>4 DEF Request, Batch, Entry, LogEntry
  <2>2. log' = Append(log, LogEntry(request))
    BY <1>2, <1>4 DEF Committed
  <2> QED
    BY <1>1, <1>4, <2>1, <2>2, AppendFacts DEF Takes
<1> QED
  BY <1>3, <1>4

LEMMA ServerAnswersFields ==
    ASSUME Types, ServerAnswers
    PROVE  /\ client.out # <<>> /\ client.end = "none"
           /\ client.out[1] \in Request
           /\ Takes(client.out[1])
           /\ client' \in Client
           /\ SameEngine(client', client) /\ SameStream(client', client)
           /\ client'.out = Tail(client.out) /\ client'.in = Append(client.in, client.out[1])
           /\ client'.token = client.token /\ client'.end = client.end /\ client'.late = client.late
           /\ UNCHANGED <<auth, workQueue, disk, app, refused>>
<1>1. client \in Client /\ client.in \in Seq(Request) /\ client.out \in Seq(Request)
  BY DEF Types, Client
<1>2. client.out # <<>>
  BY DEF ServerAnswers
<1>3. /\ Head(client.out) = client.out[1] /\ client.out[1] \in Request
      /\ Tail(client.out) \in Seq(Request) /\ Append(client.in, client.out[1]) \in Seq(Request)
  BY <1>1, <1>2, TailFacts
<1>4. Takes(client.out[1])
  BY <1>3, CommittedFields DEF ServerAnswers
<1>5. client' = [client EXCEPT !.out = Tail(@), !.in = Append(@, client.out[1])]
  BY <1>3 DEF ServerAnswers
<1>6. /\ client' \in Client
      /\ SameEngine(client', client) /\ SameStream(client', client)
      /\ client'.out = Tail(client.out) /\ client'.in = Append(client.in, client.out[1])
      /\ client'.token = client.token /\ client'.end = client.end /\ client'.late = client.late
  BY <1>1, <1>3, <1>5 DEF Client, SameEngine, SameStream
<1> QED
  BY <1>2, <1>3, <1>4, <1>6 DEF ServerAnswers

LEMMA TakesLateFields ==
    ASSUME Types, ServerTakesLate
    PROVE  /\ client.late # <<>>
           /\ client.late[1] \in Request
           /\ Takes(client.late[1])
           /\ client' \in Client
           /\ SameEngine(client', client) /\ SameStream(client', client)
           /\ client'.out = client.out /\ client'.in = client.in
           /\ client'.token = client.token /\ client'.end = client.end
           /\ client'.late = Tail(client.late)
           /\ UNCHANGED <<auth, workQueue, disk, app, refused>>
<1>1. client \in Client /\ client.late \in Seq(Request)
  BY DEF Types, Client
<1>2. client.late # <<>>
  BY DEF ServerTakesLate
<1>3. /\ Head(client.late) = client.late[1] /\ client.late[1] \in Request
      /\ Tail(client.late) \in Seq(Request)
  BY <1>1, <1>2, TailFacts
<1>4. Takes(client.late[1])
  BY <1>3, CommittedFields DEF ServerTakesLate
<1>5. client' = [client EXCEPT !.late = Tail(@)]
  BY DEF ServerTakesLate
<1>6. /\ client' \in Client
      /\ SameEngine(client', client) /\ SameStream(client', client)
      /\ client'.out = client.out /\ client'.in = client.in
      /\ client'.token = client.token /\ client'.end = client.end
      /\ client'.late = Tail(client.late)
  BY <1>1, <1>3, <1>5 DEF Client, SameEngine, SameStream
<1> QED
  BY <1>2, <1>3, <1>4, <1>6 DEF ServerTakesLate

LEMMA NeverTakesLateFields ==
    ASSUME Types, ServerNeverTakesLate
    PROVE  /\ client' \in Client
           /\ SameEngine(client', client) /\ SameStream(client', client)
           /\ client'.out = client.out /\ client'.in = client.in
           /\ client'.token = client.token /\ client'.end = client.end
           /\ client'.late = <<>>
           /\ UNCHANGED <<auth, workQueue, disk, app, server>>
<1>1. client \in Client /\ <<>> \in Seq(Request)
  BY DEF Types
<1> QED
  BY <1>1 DEF ServerNeverTakesLate, Client, SameEngine, SameStream

LEMMA ServerRefusesFields ==
    ASSUME Types, ServerRefuses
    PROVE  /\ client.out # <<>> /\ client.end = "none"
           /\ client.out[1] \in Batch /\ client.out[1].write \in Write
           /\ refused' = refused \cup {client.out[1].write}
           /\ client' \in Client
           /\ SameEngine(client', client) /\ SameStream(client', client)
           /\ client'.out = <<>> /\ client'.in = client.in
           /\ client'.token = client.token /\ client'.end = "denied"
           /\ client'.late = client.late
           /\ UNCHANGED <<auth, workQueue, disk, app, log>>
<1>1. client \in Client /\ client.out \in Seq(Request) /\ <<>> \in Seq(Request)
  BY DEF Types, Client
<1>2. client.out # <<>>
  BY DEF ServerRefuses
<1>3. Head(client.out) = client.out[1] /\ client.out[1] \in Request
  BY <1>1, <1>2, TailFacts
<1>4. client.out[1] \in Batch /\ client.out[1].write \in Write
  BY <1>3 DEF ServerRefuses, Request, Batch
<1>5. client' = [client EXCEPT !.out = <<>>, !.end = "denied"]
  BY DEF ServerRefuses
<1>6. /\ client' \in Client
      /\ SameEngine(client', client) /\ SameStream(client', client)
      /\ client'.out = <<>> /\ client'.in = client.in
      /\ client'.token = client.token /\ client'.end = "denied"
      /\ client'.late = client.late
  BY <1>1, <1>5 DEF Client, SameEngine, SameStream
<1> QED
  BY <1>2, <1>3, <1>4, <1>6 DEF ServerRefuses

LEMMA InitialClient ==
    ASSUME Init
    PROVE  client \in Client /\ Fresh(client, FirstUser) /\ client.late = <<>> /\ client.nextId = 1
<1> DEFINE queues == [u \in User |-> <<>>]
           callbacks == [v \in User |-> {}]
<1>1. disk = queues /\ client = NewClient(disk, FirstUser)
  BY DEF Init
<1>2. Batches(disk) = {}
  BY <1>1 DEF Batches, ToSet
<1>3. NextBatchId(disk) = 1 + Max({0})
  BY <1>2 DEF NextBatchId
<1>4. Max({0}) = 0
  BY DEF Max
<1>5. NextBatchId(disk) = 1
  BY <1>3, <1>4
<1>6. callbacks \in [User -> SUBSET Batch] /\ \A v \in User : callbacks[v] = {}
  OBVIOUS
<1>7. <<>> \in Seq(Batch) /\ <<>> \in Seq(Request) /\ FirstUser \in User
  BY UserAssumption
<1>8. client = [user |-> FirstUser, nextId |-> NextBatchId(disk), callbacks |-> callbacks,
                waits |-> {}, network |-> TRUE, pipeline |-> <<>>, state |-> "initial",
                handshake |-> FALSE, idle |-> FALSE, close |-> 0, asked |-> {},
                token |-> NoToken, out |-> <<>>, in |-> <<>>, end |-> "none", late |-> <<>>]
  BY <1>1 DEF NewClient
<1> HIDE DEF callbacks
<1> QED
  BY <1>5, <1>6, <1>7, <1>8 DEF Fresh, Client, StreamState

-----------------------------------------------------------------------------
(* Types is inductive, given Numbers and Streams.                          *)

(* What the variables other than the client's hold next.                   *)
QueueTypes ==
    /\ authUser \in User
    /\ provider \in [user : User, counter : Nat]
    /\ mainQueue \in Seq(Notice)
    /\ workQueue \in Seq(Task)

DiskTypes == disk \in [User -> Seq(Batch)] /\ Owned

AppTypes ==
    /\ issued \in 0..LastWrite
    /\ log \in Seq(Entry)
    /\ refused \in SUBSET Write
    /\ told \in [Write -> Outcome]
    /\ waited \in SUBSET SUBSET Write

LEMMA TypesParts == Types <=> QueueTypes /\ DiskTypes /\ client \in Client /\ AppTypes
BY DEF Types, QueueTypes, DiskTypes, AppTypes

LEMMA DiskTypesTail ==
    ASSUME Types, NEW u \in User, disk[u] # <<>>, TakesFirst(disk', u)
    PROVE  DiskTypes'
<1>1. disk' \in [User -> Seq(Batch)] /\ disk[u] \in Seq(Batch)
  BY DEF TakesFirst, Types
<1>2. ASSUME NEW v \in User, NEW i \in 1..Len(disk'[v])
      PROVE  disk'[v][i].user = v
  <2>1. CASE v # u
    BY <2>1 DEF TakesFirst, Types, Owned
  <2>2. CASE v = u
    <3>1. disk'[u][i] = disk[u][i + 1] /\ i + 1 \in 1..Len(disk[u])
      BY <1>1, <1>2, <2>2, TailFacts DEF TakesFirst
    <3> QED
      BY <2>2, <3>1 DEF Types, Owned
  <2> QED
    BY <2>1, <2>2
<1> QED
  BY <1>1, <1>2 DEF DiskTypes, Owned

LEMMA ToldTypes ==
    ASSUME Types, NEW id, NEW outcome \in Outcome,
           NotifyUser(id, outcome), TriggerPendingWriteCallbacks(id)
    PROVE  told' \in [Write -> Outcome] /\ waited' \in SUBSET SUBSET Write
<1>1. told' \in [Write -> Outcome]
  BY DEF NotifyUser, Types
<1>2. \A x \in client.waits : x.covers \in SUBSET Write
  BY DEF Types, Client
<1> QED
  BY <1>1, <1>2 DEF TriggerPendingWriteCallbacks, Types

LEMMA TypesOfCallEnds ==
    ASSUME Types, QueuesInOrder, PipelineFits(client, disk[client.user]),
           NEW status, CallEnds(status), UNCHANGED <<auth, issued, server>>,
           workQueue' \in Seq(Task)
    PROVE  Types'
<1>1. QueueTypes'
  BY DEF QueueTypes, Types, auth
<1>2. issued' = issued /\ log' = log /\ refused' = refused
  BY DEF server
<1>3. CASE Rejects(status)
  <2>1. TakesFirst(disk', client.user) /\ client' \in Client
        /\ NotifyUser(Head(client.pipeline).id, "rejected")
        /\ TriggerPendingWriteCallbacks(Head(client.pipeline).id)
    BY <1>3, RejectionFields
  <2>2. client.user \in User /\ disk[client.user] # <<>>
    BY <1>3, FrontIsFirst DEF Rejects
  <2>3. DiskTypes'
    BY <2>1, <2>2, DiskTypesTail
  <2>4. told' \in [Write -> Outcome] /\ waited' \in SUBSET SUBSET Write
    BY <2>1, ToldTypes DEF Outcome
  <2>5. AppTypes'
    BY <1>2, <2>4 DEF AppTypes, Types
  <2> QED
    BY <1>1, <2>1, <2>3, <2>5, TypesParts DEF Types, QueueTypes, DiskTypes, AppTypes
<1>4. CASE ~Rejects(status)
  <2>1. UNCHANGED <<disk, told, waited>> /\ client' \in Client
    BY <1>4, BreakFields
  <2> QED
    BY <1>1, <1>2, <2>1 DEF Types, QueueTypes, Owned
<1> QED
  BY <1>3, <1>4

LEMMA TypesOfMain ==
    ASSUME Types, RunPosted \/ RunToken
    PROVE  Types'
<1>1. CASE RunPosted
  <2>1. /\ mainQueue # <<>> /\ mainQueue' = Tail(mainQueue)
        /\ mainQueue[1].user \in User
        /\ provider' = [user |-> mainQueue[1].user, counter |-> provider.counter + 1]
        /\ workQueue' = Append(workQueue, CredentialTask(mainQueue[1].user))
        /\ UNCHANGED <<authUser, disk, client, app, server>>
    BY <1>1, RunPostedFields
  <2>2. mainQueue' \in Seq(Notice)
    BY <2>1, TailFacts DEF Types
  <2>3. workQueue' \in Seq(Task)
    BY <2>1, TaskTypes, AppendFacts DEF Types
  <2>4. provider' \in [user : User, counter : Nat]
    BY <2>1 DEF Types
  <2> QED
    BY <2>1, <2>2, <2>3, <2>4 DEF Types, Owned, app, server
<1>2. CASE RunToken
  <2> DEFINE ask == mainQueue[1].ask
  <2>1. /\ mainQueue # <<>> /\ mainQueue' = Tail(mainQueue)
        /\ ask \in Answer
        /\ client' \in Client
        /\ \/ UNCHANGED workQueue
           \/ workQueue' = Append(workQueue, ResumeTask(ask.user, ask.close))
        /\ UNCHANGED <<authUser, provider, disk, app, server>>
    BY <1>2, RunTokenFields
  <2>2. mainQueue' \in Seq(Notice)
    BY <2>1, TailFacts DEF Types
  <2>3. workQueue' \in Seq(Task)
    <3>1. ResumeTask(ask.user, ask.close) \in Task
      BY <2>1, TaskTypes DEF Answer
    <3>2. workQueue \in Seq(Task)
      BY DEF Types
    <3>3. Append(workQueue, ResumeTask(ask.user, ask.close)) \in Seq(Task)
      BY <3>1, <3>2
    <3> HIDE DEF ask
    <3> QED
      BY <2>1, <3>2, <3>3
  <2> QED
    BY <2>1, <2>2, <2>3 DEF Types, Owned, app, server
<1> QED
  BY <1>1, <1>2

LEMMA TypesOfWorker ==
    ASSUME Types, Numbers, PipelineFits(client, disk[client.user]), RunWorkQueue
    PROVE  Types'
<1>1. QueuesInOrder
  BY DEF Numbers
<1>2. ASSUME workQueue # <<>>, workQueue' = Tail(workQueue)
      PROVE  workQueue' \in Seq(Task)
  BY <1>2, TailFacts DEF Types
<1>3. CASE RunWrite
  <2> DEFINE u == client.user
             b == [id |-> client.nextId, write |-> Head(workQueue).write, user |-> u]
  <2>1. /\ workQueue # <<>> /\ workQueue' = Tail(workQueue)
        /\ b \in Batch /\ u \in User
        /\ disk' \in [User -> Seq(Batch)]
        /\ disk'[u] = Append(disk[u], b) /\ \A v \in User \ {u} : disk'[v] = disk[v]
        /\ client' \in Client
        /\ UNCHANGED <<auth, app, server>>
    BY <1>3, RunWriteFields
  <2>2. b.user = u
    OBVIOUS
  <2> HIDE DEF b
  <2>3. Owned'
    <3>1. ASSUME NEW v \in User, NEW i \in 1..Len(disk'[v])
          PROVE  disk'[v][i].user = v
      <4>1. CASE v # u
        BY <2>1, <4>1 DEF Types, Owned
      <4>2. CASE v = u
        <5>1. disk[u] \in Seq(Batch)
          BY <2>1 DEF Types
        <5>2. i \in 1..Len(disk[u]) \/ i = Len(disk[u]) + 1
          BY <2>1, <4>2, <5>1, AppendFacts
        <5>3. CASE i \in 1..Len(disk[u])
          <6>1. disk'[u][i] = disk[u][i]
            BY <2>1, <5>1, <5>3, AppendFacts
          <6> QED
            BY <2>1, <4>2, <5>3, <6>1 DEF Types, Owned
        <5>4. CASE i = Len(disk[u]) + 1
          BY <2>1, <2>2, <4>2, <5>1, <5>4, AppendFacts
        <5> QED
          BY <5>2, <5>3, <5>4
      <4> QED
        BY <4>1, <4>2
    <3> QED
      BY <3>1 DEF Owned
  <2> QED
    BY <1>2, <2>1, <2>3 DEF Types, auth, app, server
<1>4. CASE RunCredential
  <2>1. /\ workQueue # <<>> /\ workQueue' = Tail(workQueue)
        /\ client' \in Client
        /\ UNCHANGED <<auth, disk, app, server>>
    BY <1>1, <1>4, RunCredentialFields
  <2> QED
    BY <1>2, <2>1 DEF Types, Owned, auth, app, server
<1>5. CASE RunResume
  <2> DEFINE task == workQueue[1]
  <2>1. /\ workQueue # <<>> /\ workQueue' = Tail(workQueue)
        /\ UNCHANGED <<auth, issued, server>>
        /\ \/ UNCHANGED <<client, disk, told, waited>>
           \/ CallEnds("unknown")
           \/ client' \in Client /\ UNCHANGED <<disk, told, waited>>
    BY <1>5, RunResumeFields DEF ResumeOpens
  <2>2. workQueue' \in Seq(Task)
    BY <1>2, <2>1
  <2>3. CASE CallEnds("unknown")
    BY <1>1, <2>1, <2>2, <2>3, TypesOfCallEnds
  <2>4. CASE client' \in Client /\ UNCHANGED <<disk, told, waited>>
    BY <2>1, <2>2, <2>4 DEF Types, Owned, auth, server
  <2> QED
    BY <2>1, <2>3, <2>4 DEF Types
<1>6. CASE RunDisable
  <2>1. /\ workQueue # <<>> /\ workQueue' = Tail(workQueue) /\ client' \in Client
        /\ UNCHANGED <<auth, disk, app, server>>
    BY <1>6, RunDisableFields
  <2> QED
    BY <1>2, <2>1 DEF Types, Owned, auth, app, server
<1>7. CASE RunEnable
  <2>1. /\ workQueue # <<>> /\ workQueue' = Tail(workQueue) /\ client' \in Client
        /\ UNCHANGED <<auth, disk, app, server>>
    BY <1>1, <1>7, RunEnableFields
  <2> QED
    BY <1>2, <2>1 DEF Types, Owned, auth, app, server
<1>8. CASE RunConnectivity
  <2>1. /\ workQueue # <<>> /\ workQueue' = Tail(workQueue) /\ client' \in Client
        /\ UNCHANGED <<auth, disk, app, server>>
    BY <1>1, <1>8, RunConnectivityFields
  <2> QED
    BY <1>2, <2>1 DEF Types, Owned, auth, app, server
<1>9. CASE RunWait
  <2>1. /\ workQueue # <<>> /\ workQueue' = Tail(workQueue) /\ client' \in Client
        /\ UNCHANGED <<auth, disk, app, server>>
    BY <1>9, RunWaitFields
  <2> QED
    BY <1>2, <2>1 DEF Types, Owned, auth, app, server
<1> QED
  BY <1>3, <1>4, <1>5, <1>6, <1>7, <1>8, <1>9 DEF RunWorkQueue

LEMMA TypesOfServer ==
    ASSUME Types, Numbers, PipelineFits(client, disk[client.user]),
           \/ HandshakeComplete \/ MutationResult \/ CallEnded \/ CallBreaks
           \/ ServerAnswers \/ ServerRefuses \/ ServerTakesLate \/ ServerNeverTakesLate
    PROVE  Types'
<1>1. QueuesInOrder
  BY DEF Numbers
<1>2. CASE HandshakeComplete
  <2>1. client' \in Client /\ UNCHANGED <<auth, workQueue, disk, app, server>>
    BY <1>2, HandshakeFields
  <2> QED
    BY <2>1 DEF Types, Owned, auth, app, server
<1>3. CASE MutationResult
  <2>1. /\ TakesFirst(disk', client.user) /\ client' \in Client /\ client.pipeline # <<>>
        /\ NotifyUser(Head(client.pipeline).id, "ok")
        /\ TriggerPendingWriteCallbacks(Head(client.pipeline).id)
        /\ UNCHANGED <<auth, workQueue, issued, server>>
    BY <1>1, <1>3, MutationResultFields
  <2>2. client.user \in User /\ disk[client.user] # <<>>
    BY <1>1, <2>1, FrontIsFirst
  <2>3. DiskTypes'
    BY <2>1, <2>2, DiskTypesTail
  <2>4. told' \in [Write -> Outcome] /\ waited' \in SUBSET SUBSET Write
    BY <2>1, ToldTypes DEF Outcome
  <2> QED
    BY <2>1, <2>3, <2>4 DEF Types, DiskTypes, auth, server
<1>4. CASE CallEnded
  <2>1. CallEnds(client.end) /\ UNCHANGED <<auth, workQueue, issued, server>>
    BY <1>4 DEF CallEnded
  <2>2. workQueue' \in Seq(Task)
    BY <2>1 DEF Types
  <2> QED
    BY <1>1, <2>1, <2>2, TypesOfCallEnds
<1>5. CASE CallBreaks
  <2>1. PICK status : CallEnds(status) /\ UNCHANGED <<auth, workQueue, issued, server>>
    BY <1>5 DEF CallBreaks
  <2>2. workQueue' \in Seq(Task)
    BY <2>1 DEF Types
  <2> QED
    BY <1>1, <2>1, <2>2, TypesOfCallEnds
<1>6. CASE ServerAnswers
  <2>1. client' \in Client /\ log' \in Seq(Entry) /\ UNCHANGED <<auth, workQueue, disk, app, refused>>
    BY <1>6, ServerAnswersFields DEF Takes
  <2> QED
    BY <2>1 DEF Types, Owned, auth, app
<1>7. CASE ServerRefuses
  <2>1. /\ client' \in Client
        /\ client.out[1].write \in Write /\ refused' = refused \cup {client.out[1].write}
        /\ UNCHANGED <<auth, workQueue, disk, app, log>>
    BY <1>7, ServerRefusesFields
  <2> QED
    BY <2>1 DEF Types, Owned, auth, app
<1>8. CASE ServerTakesLate
  <2>1. client' \in Client /\ log' \in Seq(Entry) /\ UNCHANGED <<auth, workQueue, disk, app, refused>>
    BY <1>8, TakesLateFields DEF Takes
  <2> QED
    BY <2>1 DEF Types, Owned, auth, app
<1>9. CASE ServerNeverTakesLate
  <2>1. client' \in Client /\ UNCHANGED <<auth, workQueue, disk, app, server>>
    BY <1>9, NeverTakesLateFields
  <2> QED
    BY <2>1 DEF Types, Owned, auth, app, server
<1> QED
  BY <1>2, <1>3, <1>4, <1>5, <1>6, <1>7, <1>8, <1>9

LEMMA TypesOfApp ==
    ASSUME Types, QueuesInOrder,
           \/ IssueWrite \/ CallNetwork \/ CallEnableNetwork \/ Restart
           \/ \E u \in User : ChangeUser(u)
           \/ \E ask \in client.asked : ReadUser(ask) \/ FetchToken(ask) \/ TokenFails(ask)
           \/ BackoffElapsed \/ IdleElapsed
    PROVE  Types'
<1>1. CASE IssueWrite
  <2>1. issued + 1 \in Write /\ issued' \in 0..LastWrite /\ workQueue \in Seq(Task)
    BY <1>1, BoundAssumption DEF IssueWrite, Types, Write
  <2>2. workQueue' \in Seq(Task)
    BY <1>1, <2>1, TaskTypes, AppendFacts DEF IssueWrite
  <2> QED
    BY <1>1, <2>1, <2>2 DEF IssueWrite, Types, Owned, auth, server
<1>2. CASE CallNetwork
  <2>1. workQueue' \in Seq(Task)
    BY <1>2, TaskTypes, AppendFacts DEF CallNetwork, Types
  <2> QED
    BY <1>2, <2>1 DEF CallNetwork, Types, Owned, auth, app, server
<1>3. CASE CallEnableNetwork
  <2>1. workQueue' \in Seq(Task)
    BY <1>3, TaskTypes, AppendFacts DEF CallEnableNetwork, Types
  <2> QED
    BY <1>3, <2>1 DEF CallEnableNetwork, Types, Owned, auth, app, server
<1>4. CASE Restart
  <2>1. client' \in Client
    BY <1>4, RestartFields
  <2>2. provider' \in [user : User, counter : Nat] /\ mainQueue' \in Seq(Notice) /\ workQueue' \in Seq(Task)
    <3>1. provider' = [provider EXCEPT !.user = authUser] /\ mainQueue' = <<>> /\ workQueue' = <<>>
      BY <1>4 DEF Restart
    <3>2. provider' \in [user : User, counter : Nat]
      BY <3>1 DEF Types
    <3> QED
      BY <3>1, <3>2
  <2> QED
    BY <1>4, <2>1, <2>2 DEF Restart, Types, Owned, app, server
<1>5. ASSUME NEW u \in User, ChangeUser(u)
      PROVE  Types'
  <2>1. mainQueue' \in Seq(Notice)
    BY <1>5, NoticeTypes, AppendFacts DEF ChangeUser, Types
  <2> QED
    BY <1>5, <2>1 DEF ChangeUser, Types, Owned, app, server
<1>6. ASSUME NEW ask \in client.asked, ReadUser(ask)
      PROVE  Types'
  <2>1. client' \in Client /\ UNCHANGED <<auth, workQueue, disk, app, server>>
    BY <1>6, ReadUserFields
  <2> QED
    BY <2>1 DEF Types, Owned, auth, app, server
<1>7. ASSUME NEW ask \in client.asked, FetchToken(ask) \/ TokenFails(ask)
      PROVE  Types'
  <2>1. PICK a : Answers(ask, a)
    BY <1>7, AnswerFields
  <2>2. mainQueue' \in Seq(Notice)
    BY <2>1, NoticeTypes, AppendFacts DEF Answers, Types
  <2> QED
    BY <2>1, <2>2 DEF Answers, Types, Owned, app, server
<1>8. CASE BackoffElapsed
  <2>1. client' \in Client /\ UNCHANGED <<auth, workQueue, disk, app, server>>
    BY <1>8, BackoffElapsedFields
  <2> QED
    BY <2>1 DEF Types, Owned, auth, app, server
<1>9. CASE IdleElapsed
  <2>1. client' \in Client /\ UNCHANGED <<auth, workQueue, disk, app, server>>
    BY <1>9, IdleElapsedFields
  <2> QED
    BY <2>1 DEF Types, Owned, auth, app, server
<1> QED
  BY <1>1, <1>2, <1>3, <1>4, <1>5, <1>6, <1>7, <1>8, <1>9

LEMMA TypesStep ==
    ASSUME Types, Numbers, PipelineFits(client, disk[client.user]), [Next]_vars
    PROVE  Types'
<1>1. CASE UNCHANGED vars
  BY <1>1 DEF vars, auth, app, server, Types, Owned
<1>2. CASE Next
  BY <1>2, TypesOfApp, TypesOfMain, TypesOfWorker, TypesOfServer DEF Next, RunMainQueue, Numbers
<1> QED
  BY <1>1, <1>2

LEMMA TypesInit == Init => Types
<1> SUFFICES ASSUME Init PROVE Types
  OBVIOUS
<1>1. client \in Client
  BY InitialClient
<1>2. LastWrite \in Nat /\ FirstUser \in User
  BY BoundAssumption, UserAssumption
<1> QED
  BY <1>1, <1>2 DEF Init, Types, Owned, Outcome

-----------------------------------------------------------------------------
(* Numbers is inductive, given Types and Streams.                          *)

(* The worker queue either stays, loses its first task, gets another than  *)
(* a write, gets the next write, or is lost.                               *)
QueueMoves ==
    \/ UNCHANGED <<workQueue, issued>>
    \/ workQueue # <<>> /\ workQueue' = Tail(workQueue) /\ issued' = issued
    \/ /\ issued' = issued
       /\ \E t \in Task : t.do # "write" /\ workQueue' = Append(workQueue, t)
    \/ /\ issued' = issued + 1 /\ issued + 1 \in Write
       /\ workQueue' = Append(workQueue, WriteTask(issued + 1))
    \/ workQueue' = <<>> /\ issued' = issued

LEMMA QueueMovesStep ==
    ASSUME Types, [Next]_vars
    PROVE  QueueMoves
<1>1. CASE UNCHANGED vars
  BY <1>1 DEF vars, app, QueueMoves
<1>2. CASE IssueWrite
  <2>1. issued + 1 \in Write
    BY <1>2, BoundAssumption DEF IssueWrite, Types, Write
  <2> QED
    BY <1>2, <2>1 DEF IssueWrite, QueueMoves
<1>3. CASE CallNetwork \/ CallEnableNetwork
  <2>1. PICK what \in {"disable", "enable", "wait", "connectivity"} :
            workQueue' = Append(workQueue, NetworkTask(what))
    BY <1>3 DEF CallNetwork, CallEnableNetwork
  <2>2. NetworkTask(what) \in Task /\ NetworkTask(what).do # "write"
    BY TaskTypes
  <2>3. issued' = issued
    BY <1>3 DEF CallNetwork, CallEnableNetwork, app
  <2> QED
    BY <2>1, <2>2, <2>3 DEF QueueMoves
<1>4. CASE Restart
  BY <1>4 DEF Restart, app, QueueMoves
<1>5. CASE RunPosted
  <2>1. /\ mainQueue[1].user \in User
        /\ workQueue' = Append(workQueue, CredentialTask(mainQueue[1].user))
        /\ UNCHANGED app
    BY <1>5, RunPostedFields
  <2>2. CredentialTask(mainQueue[1].user) \in Task /\ CredentialTask(mainQueue[1].user).do # "write"
    BY <2>1, TaskTypes
  <2> QED
    BY <2>1, <2>2 DEF QueueMoves, app
<1>6. CASE RunToken
  <2> DEFINE ask == mainQueue[1].ask
             t == ResumeTask(ask.user, ask.close)
  <2>1. /\ ask \in Answer
        /\ UNCHANGED workQueue \/ workQueue' = Append(workQueue, t)
        /\ UNCHANGED app
    BY <1>6, RunTokenFields
  <2>2. t \in Task /\ t.do # "write"
    BY <2>1, TaskTypes DEF Answer
  <2> HIDE DEF t
  <2> QED
    BY <2>1, <2>2 DEF QueueMoves, app
<1>7. CASE RunWorkQueue
  <2>1. workQueue # <<>> /\ workQueue' = Tail(workQueue)
    BY <1>7 DEF RunWorkQueue, RunWrite, RunCredential, RunResume, RunDisable, RunEnable,
       RunConnectivity, RunWait, Runs, Dequeue
  <2>2. issued' = issued
    BY <1>7 DEF RunWorkQueue, RunWrite, RunCredential, RunResume, RunDisable, RunEnable,
       RunConnectivity, RunWait, app
  <2> QED
    BY <2>1, <2>2 DEF QueueMoves
<1>8. CASE \/ \E u \in User : ChangeUser(u)
           \/ \E ask \in client.asked : ReadUser(ask) \/ FetchToken(ask) \/ TokenFails(ask)
           \/ BackoffElapsed \/ IdleElapsed
           \/ HandshakeComplete \/ MutationResult \/ CallEnded \/ CallBreaks
           \/ ServerAnswers \/ ServerRefuses \/ ServerTakesLate \/ ServerNeverTakesLate
  <2>1. UNCHANGED <<workQueue, issued>>
    BY <1>8 DEF ChangeUser, ReadUser, FetchToken, TokenFails, BackoffElapsed, IdleElapsed,
       HandshakeComplete, MutationResult, CallEnded, CallBreaks, ServerAnswers, ServerRefuses,
       ServerTakesLate, ServerNeverTakesLate, app
  <2> QED
    BY <2>1 DEF QueueMoves
<1> QED
  BY <1>1, <1>2, <1>3, <1>4, <1>5, <1>6, <1>7, <1>8 DEF Next, RunMainQueue

(* What the worker queue is past, it stays past.                           *)
LEMMA PastKept ==
    ASSUME Types, QueueMoves, NEW w \in Nat, Past(w)
    PROVE  Past(w)'
<1>1. workQueue \in Seq(Task) /\ issued \in Nat
  BY BoundAssumption DEF Types
<1>2. CASE UNCHANGED <<workQueue, issued>>
  BY <1>2 DEF Past
<1>3. CASE workQueue # <<>> /\ workQueue' = Tail(workQueue) /\ issued' = issued
  BY <1>1, <1>3, TailFacts DEF Past
<1>4. ASSUME NEW t \in Task, t.do # "write", workQueue' = Append(workQueue, t), issued' = issued
      PROVE  Past(w)'
  BY <1>1, <1>4, AppendFacts DEF Past
<1>5. CASE /\ issued' = issued + 1 /\ issued + 1 \in Write
           /\ workQueue' = Append(workQueue, WriteTask(issued + 1))
  <2>1. WriteTask(issued + 1) \in Task /\ WriteTask(issued + 1).write = issued + 1
    BY <1>5, TaskTypes
  <2>2. w <= issued' /\ w < issued + 1
    BY <1>1, <1>5 DEF Past
  <2> QED
    BY <1>1, <1>5, <2>1, <2>2, AppendFacts DEF Past
<1>6. CASE workQueue' = <<>> /\ issued' = issued
  BY <1>6 DEF Past
<1> QED
  BY <1>2, <1>3, <1>4, <1>5, <1>6 DEF QueueMoves

LEMMA TasksInOrderKept ==
    ASSUME Types, QueueMoves, TasksInOrder
    PROVE  TasksInOrder'
<1>1. workQueue \in Seq(Task) /\ issued \in Nat
  BY BoundAssumption DEF Types
<1>2. CASE UNCHANGED <<workQueue, issued>>
  BY <1>2 DEF TasksInOrder
<1>3. CASE workQueue # <<>> /\ workQueue' = Tail(workQueue) /\ issued' = issued
  <2>1. Len(workQueue) \in Nat /\ Len(workQueue') = Len(workQueue) - 1
        /\ \A i \in 1..Len(workQueue') : workQueue'[i] = workQueue[i + 1] /\ i + 1 \in 1..Len(workQueue)
    BY <1>1, <1>3, TailFacts
  <2> QED
    BY <1>3, <2>1 DEF TasksInOrder
<1>4. ASSUME NEW t \in Task, t.do # "write", workQueue' = Append(workQueue, t), issued' = issued
      PROVE  TasksInOrder'
  <2>1. /\ Len(workQueue) \in Nat /\ Len(workQueue') = Len(workQueue) + 1
        /\ \A i \in 1..Len(workQueue) : workQueue'[i] = workQueue[i]
        /\ workQueue'[Len(workQueue) + 1] = t
    BY <1>1, <1>4, AppendFacts
  <2> QED
    BY <1>4, <2>1 DEF TasksInOrder
<1>5. CASE /\ issued' = issued + 1 /\ issued + 1 \in Write
           /\ workQueue' = Append(workQueue, WriteTask(issued + 1))
  <2>1. WriteTask(issued + 1) \in Task /\ WriteTask(issued + 1).write = issued + 1
    BY <1>5, TaskTypes
  <2>2. /\ Len(workQueue) \in Nat /\ Len(workQueue') = Len(workQueue) + 1
        /\ \A i \in 1..Len(workQueue) : workQueue'[i] = workQueue[i]
        /\ workQueue'[Len(workQueue) + 1].write = issued + 1
    BY <1>1, <1>5, <2>1, AppendFacts
  <2>3. \A i \in 1..Len(workQueue) : workQueue[i].do = "write" => workQueue[i].write \in Nat
    BY <1>1, TaskKinds
  <2> QED
    BY <1>1, <1>5, <2>2, <2>3 DEF TasksInOrder
<1>6. CASE workQueue' = <<>> /\ issued' = issued
  BY <1>6 DEF TasksInOrder
<1> QED
  BY <1>2, <1>3, <1>4, <1>5, <1>6 DEF QueueMoves

(* The mutation queues stay, lose the first batch of the signed-in user,   *)
(* or get another one.                                                     *)
LEMMA DiskMoves ==
    ASSUME Types, QueuesInOrder, PipelineFits(client, disk[client.user]), [Next]_vars
    PROVE  \/ UNCHANGED disk
           \/ /\ disk[client.user] # <<>> /\ TakesFirst(disk', client.user)
              /\ client'.user = client.user /\ client'.nextId = client.nextId
           \/ RunWrite
<1>1. ASSUME NEW status, CallEnds(status)
      PROVE  \/ UNCHANGED disk
             \/ /\ disk[client.user] # <<>> /\ TakesFirst(disk', client.user)
                /\ client'.user = client.user /\ client'.nextId = client.nextId
  <2>1. CASE Rejects(status)
    <3>1. disk[client.user] # <<>>
      BY <2>1, FrontIsFirst DEF Rejects
    <3> QED
      BY <1>1, <2>1, <3>1, RejectionFields
         DEF RejectionLeaves, Settles, Fills, FilledWith, SameEngine
  <2>2. CASE ~Rejects(status)
    BY <1>1, <2>2, BreakFields
  <2> QED
    BY <2>1, <2>2
<1>2. CASE UNCHANGED vars
  BY <1>2 DEF vars
<1>3. CASE MutationResult
  <2>1. disk[client.user] # <<>>
    BY <1>3, FrontIsFirst DEF MutationResult
  <2> QED
    BY <1>3, <2>1, MutationResultFields
       DEF MutationResultLeaves, Settles, Fills, FilledWith, SameEngine
<1>4. CASE CallEnded
  BY <1>1, <1>4 DEF CallEnded
<1>5. CASE CallBreaks
  BY <1>1, <1>5 DEF CallBreaks
<1>6. CASE RunResume
  BY <1>1, <1>6, RunResumeFields
<1>7. CASE RunWrite
  BY <1>7
<1>8. CASE \/ IssueWrite \/ CallNetwork \/ CallEnableNetwork \/ Restart
           \/ \E u \in User : ChangeUser(u)
           \/ \E ask \in client.asked : ReadUser(ask) \/ FetchToken(ask) \/ TokenFails(ask)
           \/ RunMainQueue
           \/ RunCredential \/ RunDisable \/ RunEnable \/ RunConnectivity \/ RunWait
           \/ BackoffElapsed \/ IdleElapsed \/ HandshakeComplete
           \/ ServerAnswers \/ ServerRefuses \/ ServerTakesLate \/ ServerNeverTakesLate
  BY <1>8 DEF IssueWrite, CallNetwork, CallEnableNetwork, Restart, ChangeUser, ReadUser, FetchToken,
     TokenFails, RunMainQueue, RunPosted, RunToken, RunCredential, RunDisable, RunEnable,
     RunConnectivity, RunWait, BackoffElapsed, IdleElapsed, HandshakeComplete, ServerAnswers,
     ServerRefuses, ServerTakesLate, ServerNeverTakesLate
<1> QED
  BY <1>2, <1>3, <1>4, <1>5, <1>6, <1>7, <1>8 DEF Next, RunWorkQueue

(* The id of the next batch stays, except that a batch takes it, or that   *)
(* it is looked up for another user.                                       *)
LEMMA NextIdMoves ==
    ASSUME Types, QueuesInOrder, PipelineFits(client, disk[client.user]), [Next]_vars, UNCHANGED disk
    PROVE  \/ client'.user = client.user /\ client'.nextId = client.nextId
           \/ client'.user \in User /\ client'.nextId = NextBatchId(disk)
           \/ RunWrite
<1>1. ASSUME NEW status, CallEnds(status)
      PROVE  client'.user = client.user /\ client'.nextId = client.nextId
  <2>1. CASE Rejects(status)
    BY <1>1, <2>1, RejectionFields DEF RejectionLeaves, Settles, Fills, FilledWith, SameEngine
  <2>2. CASE ~Rejects(status)
    BY <1>1, <2>2, BreakFields DEF BreakLeaves, Closes, SameEngine
  <2> QED
    BY <2>1, <2>2
<1>2. CASE UNCHANGED vars
  BY <1>2 DEF vars
<1>3. CASE MutationResult
  BY <1>3, MutationResultFields DEF MutationResultLeaves, Settles, Fills, FilledWith, SameEngine
<1>4. CASE CallEnded
  BY <1>1, <1>4 DEF CallEnded
<1>5. CASE CallBreaks
  BY <1>1, <1>5 DEF CallBreaks
<1>6. CASE RunResume
  BY <1>1, <1>6, RunResumeFields DEF ResumeOpens, SameEngine
<1>7. CASE RunWrite
  BY <1>7
<1>8. CASE Restart
  BY <1>8, RestartFields DEF Fresh, Fills, FilledWith, SameEngine, Types
<1>9. CASE RunCredential
  BY <1>9, RunCredentialFields
     DEF SwapLeaves, Afresh, Stops, Closes, Fills, FilledWith, SameEngine
<1>10. CASE RunEnable
  BY <1>10, RunEnableFields DEF EnableLeaves, Fills, FilledWith, SameEngine
<1>11. CASE RunConnectivity
  BY <1>11, RunConnectivityFields DEF Afresh, Stops, Closes, Fills, FilledWith, SameEngine
<1>12. CASE RunDisable \/ IdleElapsed
  BY <1>12, RunDisableFields, IdleElapsedFields DEF Stops, Closes, SameEngine
<1>13. CASE RunWait \/ BackoffElapsed \/ HandshakeComplete
  BY <1>13, RunWaitFields, BackoffElapsedFields, HandshakeFields DEF SameEngine
<1>14. CASE ServerAnswers \/ ServerRefuses \/ ServerTakesLate \/ ServerNeverTakesLate
  BY <1>14, ServerAnswersFields, ServerRefusesFields, TakesLateFields, NeverTakesLateFields
     DEF SameEngine
<1>15. ASSUME NEW ask \in client.asked, ReadUser(ask) \/ FetchToken(ask) \/ TokenFails(ask)
       PROVE  client'.user = client.user /\ client'.nextId = client.nextId
  BY <1>15, ReadUserFields, AnswerFields DEF Answers, SameButAsked, SameEngine
<1>16. CASE RunMainQueue
  BY <1>16, RunPostedFields, RunTokenFields DEF RunMainQueue, SameButAsked, SameEngine
<1>17. CASE IssueWrite \/ CallNetwork \/ CallEnableNetwork \/ \E u \in User : ChangeUser(u)
  BY <1>17 DEF IssueWrite, CallNetwork, CallEnableNetwork, ChangeUser
<1> QED
  BY <1>2, <1>3, <1>4, <1>5, <1>6, <1>7, <1>8, <1>9, <1>10, <1>11, <1>12, <1>13, <1>14, <1>15,
     <1>16, <1>17 DEF Next, RunWorkQueue

(* What is known of a batch that is stored.                                *)
LEMMA StoredBatch ==
    ASSUME Types, NEW u \in User, NEW i \in 1..Len(disk[u])
    PROVE  /\ disk[u][i] \in Batch /\ disk[u][i].user = u
           /\ disk[u][i].id \in Nat \ {0} /\ disk[u][i].write \in Write
           /\ disk[u][i].write \in Nat
<1>1. disk[u] \in Seq(Batch)
  BY DEF Types
<1>2. disk[u][i] \in Batch
  BY <1>1
<1>3. disk[u][i].user = u
  BY DEF Types, Owned
<1>4. disk[u][i].id \in Nat \ {0} /\ disk[u][i].write \in Write
  BY <1>2 DEF Batch
<1>5. \A w \in Write : w \in Nat
  BY BoundAssumption DEF Write
<1> QED
  BY <1>2, <1>3, <1>4, <1>5

(* PastKept, for any number and without its name.                          *)
LEMMA PastAnyKept ==
    ASSUME Types, QueueMoves
    PROVE  \A x \in Nat : Past(x) =>
              /\ x <= issued'
              /\ \A k \in 1..Len(workQueue') : workQueue'[k].do = "write" => x < workQueue'[k].write
BY PastKept DEF Past

(* What is left of the queues when a first batch is taken out.             *)
LEMMA LeftBehind ==
    ASSUME Types, NEW u \in User, disk[u] # <<>>, TakesFirst(disk', u)
    PROVE  /\ \A v \in User \ {u} : disk'[v] = disk[v]
           /\ Len(disk[u]) \in Nat \ {0} /\ Len(disk'[u]) = Len(disk[u]) - 1
           /\ \A i \in 1..Len(disk'[u]) : disk'[u][i] = disk[u][i + 1] /\ i + 1 \in 1..Len(disk[u])
           /\ \A v \in User : \A i \in 1..Len(disk'[v]) :
                 \E j \in 1..Len(disk[v]) : disk'[v][i] = disk[v][j]
<1>1. disk[u] \in Seq(Batch)
  BY DEF Types
<1>2. /\ \A v \in User \ {u} : disk'[v] = disk[v]
      /\ Len(disk[u]) \in Nat \ {0} /\ Len(disk'[u]) = Len(disk[u]) - 1
      /\ \A i \in 1..Len(disk'[u]) : disk'[u][i] = disk[u][i + 1] /\ i + 1 \in 1..Len(disk[u])
  BY <1>1, TailFacts DEF TakesFirst
<1>3. ASSUME NEW v \in User, NEW i \in 1..Len(disk'[v])
      PROVE  \E j \in 1..Len(disk[v]) : disk'[v][i] = disk[v][j]
  <2>1. CASE v = u
    BY <1>2, <2>1
  <2>2. CASE v # u
    BY <1>2, <2>2
  <2> QED
    BY <2>1, <2>2
<1> QED
  BY <1>2, <1>3

LEMMA NumbersWhenTaken ==
    ASSUME Types, Numbers, QueueMoves, disk[client.user] # <<>>, TakesFirst(disk', client.user),
           client'.user = client.user, client'.nextId = client.nextId
    PROVE  Numbers'
<1> DEFINE u == client.user
<1>1. u \in User /\ client.nextId \in Nat \ {0}
  BY DEF Types, Client
<1>2. /\ \A v \in User \ {u} : disk'[v] = disk[v]
      /\ Len(disk[u]) \in Nat \ {0} /\ Len(disk'[u]) = Len(disk[u]) - 1
      /\ \A i \in 1..Len(disk'[u]) : disk'[u][i] = disk[u][i + 1] /\ i + 1 \in 1..Len(disk[u])
      /\ \A v \in User : \A i \in 1..Len(disk'[v]) :
            \E j \in 1..Len(disk[v]) : disk'[v][i] = disk[v][j]
  BY <1>1, LeftBehind
<1>3. TasksInOrder'
  BY TasksInOrderKept DEF Numbers
<1>4. ASSUME NEW v \in User PROVE Increasing(disk'[v])
  <2>1. Increasing(disk[v])
    BY DEF Numbers, QueuesInOrder
  <2>2. CASE v = u
    <3> SUFFICES ASSUME NEW i \in 1..Len(disk'[u]), NEW j \in 1..Len(disk'[u]), i < j
                 PROVE  disk'[u][i].id < disk'[u][j].id /\ disk'[u][i].write < disk'[u][j].write
      BY <2>2 DEF Increasing
    <3>1. /\ disk'[u][i] = disk[u][i + 1] /\ i + 1 \in 1..Len(disk[u])
          /\ disk'[u][j] = disk[u][j + 1] /\ j + 1 \in 1..Len(disk[u])
          /\ i + 1 < j + 1
      BY <1>2
    <3> QED
      BY <2>1, <2>2, <3>1 DEF Increasing
  <2>3. CASE v # u
    BY <1>2, <2>1, <2>3
  <2> QED
    BY <2>2, <2>3
<1>5. ASSUME NEW v \in User, NEW i \in 1..Len(disk'[v])
      PROVE  /\ disk'[v][i].id <= disk'[v][i].write
             /\ disk'[v][i].write <= issued'
             /\ \A k \in 1..Len(workQueue') :
                   workQueue'[k].do = "write" => disk'[v][i].write < workQueue'[k].write
  <2>1. PICK j \in 1..Len(disk[v]) : disk'[v][i] = disk[v][j]
    BY <1>2
  <2>2. disk[v][j].id <= disk[v][j].write /\ Past(disk[v][j].write)
    BY DEF Numbers, QueuesInOrder
  <2>3. disk[v][j].write \in Nat
    BY StoredBatch
  <2> QED
    BY <2>1, <2>2, <2>3, PastAnyKept
<1>6. QueuesInOrder'
  BY <1>4, <1>5 DEF QueuesInOrder, Increasing, Past
<1>7. OneOwner'
  <2> SUFFICES ASSUME NEW v \in User, NEW w \in User,
                      NEW i \in 1..Len(disk'[v]), NEW j \in 1..Len(disk'[w]),
                      disk'[v][i].write = disk'[w][j].write
               PROVE  v = w
    BY DEF OneOwner
  <2>1. PICK k \in 1..Len(disk[v]) : disk'[v][i] = disk[v][k]
    BY <1>2
  <2>2. PICK l \in 1..Len(disk[w]) : disk'[w][j] = disk[w][l]
    BY <1>2
  <2> QED
    BY <2>1, <2>2 DEF Numbers, OneOwner
<1>8. NextIdIsFree'
  <2>1. Past(client.nextId - 1) /\ client.nextId - 1 \in Nat
    BY <1>1 DEF Numbers, NextIdIsFree
  <2>2. /\ client.nextId - 1 <= issued'
        /\ \A k \in 1..Len(workQueue') :
              workQueue'[k].do = "write" => client.nextId - 1 < workQueue'[k].write
    BY <2>1, PastAnyKept
  <2>3. \A i \in 1..Len(disk'[u]) : disk'[u][i].id < client.nextId
    BY <1>2 DEF Numbers, NextIdIsFree
  <2> QED
    BY <2>2, <2>3 DEF NextIdIsFree, Past
<1> QED
  BY <1>3, <1>6, <1>7, <1>8 DEF Numbers


(* The next write is stored: it is the last of all, and its id the last of *)
(* its queue.                                                              *)
LEMMA NumbersOfRunWrite ==
    ASSUME Types, Numbers, PipelineFits(client, disk[client.user]), RunWrite
    PROVE  Numbers'
<1> DEFINE u == client.user
           b == [id |-> client.nextId, write |-> Head(workQueue).write, user |-> u]
<1>1. /\ workQueue # <<>> /\ workQueue' = Tail(workQueue)
      /\ workQueue[1].do = "write" /\ b.write = workQueue[1].write
      /\ b \in Batch /\ u \in User
      /\ disk'[u] = Append(disk[u], b) /\ \A v \in User \ {u} : disk'[v] = disk[v]
      /\ Increasing(disk'[u])
      /\ UNCHANGED app
  BY RunWriteFields
<1>2. client'.user = u /\ client'.nextId = client.nextId + 1
  <2>1. \E d \in Client : WriteLeaves(d, b) /\ Fills(client', d, disk'[u])
    BY RunWriteFields
  <2> QED
    BY <2>1 DEF WriteLeaves, Fills, FilledWith, SameEngine
<1>3. b.id = client.nextId /\ b.id \in Nat \ {0} /\ b.write \in Nat
  BY <1>1, BoundAssumption DEF Batch, Write
<1> HIDE DEF b
<1>4. /\ Len(workQueue) \in Nat \ {0} /\ Len(workQueue') = Len(workQueue) - 1
      /\ \A i \in 1..Len(workQueue') : workQueue'[i] = workQueue[i + 1] /\ i + 1 \in 1..Len(workQueue)
  BY <1>1, TailFacts DEF Types
<1>5. /\ Len(disk[u]) \in Nat /\ Len(disk'[u]) = Len(disk[u]) + 1
      /\ \A i \in 1..Len(disk[u]) : disk'[u][i] = disk[u][i]
      /\ disk'[u][Len(disk[u]) + 1] = b
  BY <1>1, AppendFacts DEF Types
<1>6. \A x \in Nat : Past(x) => x < b.write
  BY <1>1, <1>4 DEF Past
<1>7. b.id <= b.write
  <2>1. Past(client.nextId - 1) /\ client.nextId - 1 \in Nat
    BY <1>3 DEF Numbers, NextIdIsFree
  <2> QED
    BY <1>3, <1>6, <2>1
<1>8. /\ b.write <= issued'
      /\ \A k \in 1..Len(workQueue') : workQueue'[k].do = "write" => b.write < workQueue'[k].write
  <2>1. b.write <= issued /\ issued' = issued
    BY <1>1, <1>4 DEF Numbers, TasksInOrder, app
  <2>2. ASSUME NEW k \in 1..Len(workQueue'), workQueue'[k].do = "write"
        PROVE  b.write < workQueue'[k].write
    <3>1. workQueue'[k] = workQueue[k + 1] /\ k + 1 \in 1..Len(workQueue) /\ 1 \in 1..((k + 1) - 1)
      BY <1>4
    <3> QED
      BY <1>1, <2>2, <3>1 DEF Numbers, TasksInOrder
  <2> QED
    BY <2>1, <2>2
<1>9. TasksInOrder'
  BY TasksInOrderKept, QueueMovesStep DEF Numbers, Next, RunWorkQueue
<1>10. ASSUME NEW v \in User, NEW i \in 1..Len(disk[v])
       PROVE  /\ disk[v][i].id <= disk[v][i].write
              /\ disk[v][i].write <= issued'
              /\ \A k \in 1..Len(workQueue') :
                    workQueue'[k].do = "write" => disk[v][i].write < workQueue'[k].write
              /\ disk[v][i].write < b.write
  <2>1. disk[v][i].id <= disk[v][i].write /\ Past(disk[v][i].write) /\ disk[v][i].write \in Nat
    BY StoredBatch DEF Numbers, QueuesInOrder
  <2>2. QueueMoves
    BY QueueMovesStep DEF Next, RunWorkQueue
  <2> QED
    BY <1>6, <2>1, <2>2, PastAnyKept
<1>11. ASSUME NEW v \in User PROVE Increasing(disk'[v])
  BY <1>1 DEF Numbers, QueuesInOrder
<1>12. ASSUME NEW v \in User, NEW i \in 1..Len(disk'[v])
       PROVE  \/ i \in 1..Len(disk[v]) /\ disk'[v][i] = disk[v][i]
              \/ v = u /\ disk'[v][i] = b
  <2>1. CASE v = u
    BY <1>5, <2>1
  <2>2. CASE v # u
    BY <1>1, <2>2
  <2> QED
    BY <2>1, <2>2
<1>13. QueuesInOrder'
  <2>1. ASSUME NEW v \in User, NEW i \in 1..Len(disk'[v])
        PROVE  /\ disk'[v][i].id <= disk'[v][i].write
               /\ disk'[v][i].write <= issued'
               /\ \A k \in 1..Len(workQueue') :
                     workQueue'[k].do = "write" => disk'[v][i].write < workQueue'[k].write
    BY <1>7, <1>8, <1>10, <1>12
  <2> QED
    BY <1>11, <2>1 DEF QueuesInOrder, Increasing, Past
<1>14. OneOwner'
  <2> SUFFICES ASSUME NEW v \in User, NEW w \in User,
                      NEW i \in 1..Len(disk'[v]), NEW j \in 1..Len(disk'[w]),
                      disk'[v][i].write = disk'[w][j].write
               PROVE  v = w
    BY DEF OneOwner
  <2>1. \A v1 \in User : \A i1 \in 1..Len(disk[v1]) : disk[v1][i1].write # b.write
    <3> TAKE v1 \in User
    <3> TAKE i1 \in 1..Len(disk[v1])
    <3>1. disk[v1][i1].write \in Nat /\ disk[v1][i1].write < b.write
      BY <1>10, StoredBatch
    <3> QED
      BY <1>3, <3>1
  <2>2. \/ i \in 1..Len(disk[v]) /\ disk'[v][i] = disk[v][i]
        \/ v = u /\ disk'[v][i] = b
    BY <1>12
  <2>3. \/ j \in 1..Len(disk[w]) /\ disk'[w][j] = disk[w][j]
        \/ w = u /\ disk'[w][j] = b
    BY <1>12
  <2> QED
    BY <2>1, <2>2, <2>3 DEF Numbers, OneOwner
<1>15. NextIdIsFree'
  <2>1. ASSUME NEW i \in 1..Len(disk'[u]) PROVE disk'[u][i].id < client.nextId + 1
    <3>1. CASE i \in 1..Len(disk[u])
      <4>1. disk[u][i].id \in Nat /\ disk[u][i].id < client.nextId
        BY <1>1, <3>1, StoredBatch DEF Numbers, NextIdIsFree
      <4>2. disk'[u][i] = disk[u][i]
        BY <1>5, <3>1
      <4>3. client.nextId \in Nat
        BY <1>3
      <4> QED
        BY <4>1, <4>2, <4>3
    <3>2. CASE i = Len(disk[u]) + 1
      BY <1>3, <1>5, <3>2
    <3> QED
      BY <1>5, <3>1, <3>2
  <2>2. /\ client.nextId <= issued'
        /\ \A k \in 1..Len(workQueue') : workQueue'[k].do = "write" => client.nextId < workQueue'[k].write
    <3>1. client.nextId \in Nat /\ client.nextId <= b.write
      BY <1>3, <1>7
    <3>2. ASSUME NEW k \in 1..Len(workQueue'), workQueue'[k].do = "write"
          PROVE  client.nextId < workQueue'[k].write
      <4>1. workQueue'[k].write \in Nat
        <5>1. workQueue'[k] = workQueue[k + 1] /\ workQueue[k + 1] \in Task
          BY <1>4 DEF Types
        <5> QED
          BY <3>2, <5>1, TaskKinds
      <4> QED
        BY <1>3, <1>8, <3>1, <3>2, <4>1
    <3>3. issued' \in Nat
      BY <1>1, BoundAssumption DEF Types, app
    <3> QED
      BY <1>3, <1>8, <3>1, <3>2, <3>3
  <2>3. (client.nextId + 1) - 1 = client.nextId
    BY <1>3
  <2> QED
    BY <1>2, <2>1, <2>2, <2>3 DEF NextIdIsFree, Past
<1> QED
  BY <1>9, <1>13, <1>14, <1>15 DEF Numbers

LEMMA NumbersWhenKept ==
    ASSUME Types, Numbers, QueueMoves, UNCHANGED disk,
           \/ client'.user = client.user /\ client'.nextId = client.nextId
           \/ client'.user \in User /\ client'.nextId = NextBatchId(disk)
    PROVE  Numbers'
<1>1. TasksInOrder'
  BY TasksInOrderKept DEF Numbers
<1>2. ASSUME NEW v \in User, NEW i \in 1..Len(disk[v])
      PROVE  /\ disk[v][i].id <= disk[v][i].write
             /\ disk[v][i].write <= issued'
             /\ \A k \in 1..Len(workQueue') :
                   workQueue'[k].do = "write" => disk[v][i].write < workQueue'[k].write
  <2>1. disk[v][i].id <= disk[v][i].write /\ Past(disk[v][i].write) /\ disk[v][i].write \in Nat
    BY StoredBatch DEF Numbers, QueuesInOrder
  <2> QED
    BY <2>1, PastAnyKept
<1>3. QueuesInOrder'
  BY <1>2 DEF Numbers, QueuesInOrder, Increasing, Past
<1>4. OneOwner'
  BY DEF Numbers, OneOwner
<1>5. NextIdIsFree'
  <2>1. client.nextId \in Nat \ {0} /\ client.user \in User
    BY DEF Types, Client
  <2>2. /\ client'.nextId \in Nat \ {0}
        /\ Past(client'.nextId - 1)
        /\ \A i \in 1..Len(disk[client'.user]) : disk[client'.user][i].id < client'.nextId
    BY <2>1, NextIdAboveAll DEF Numbers, NextIdIsFree
  <2>3. /\ client'.nextId - 1 <= issued'
        /\ \A k \in 1..Len(workQueue') :
              workQueue'[k].do = "write" => client'.nextId - 1 < workQueue'[k].write
    BY <2>2, PastAnyKept
  <2> QED
    BY <2>2, <2>3 DEF NextIdIsFree, Past
<1> QED
  BY <1>1, <1>3, <1>4, <1>5 DEF Numbers

LEMMA NumbersStep ==
    ASSUME Types, Numbers, PipelineFits(client, disk[client.user]), [Next]_vars
    PROVE  Numbers'
<1>1. QueueMoves
  BY QueueMovesStep
<1>2. QueuesInOrder
  BY DEF Numbers
<1>3. CASE RunWrite
  BY <1>3, NumbersOfRunWrite
<1>4. CASE UNCHANGED disk /\ ~RunWrite
  BY <1>1, <1>2, <1>4, NextIdMoves, NumbersWhenKept
<1>5. CASE /\ disk[client.user] # <<>> /\ TakesFirst(disk', client.user)
           /\ client'.user = client.user /\ client'.nextId = client.nextId
  BY <1>1, <1>5, NumbersWhenTaken
<1> QED
  BY <1>2, <1>3, <1>4, <1>5, DiskMoves

LEMMA NumbersInit == Init => Numbers
<1> SUFFICES ASSUME Init PROVE Numbers
  OBVIOUS
<1>1. client.nextId = 1 /\ client.user = FirstUser
  BY InitialClient DEF Fresh
<1>2. workQueue = <<>> /\ issued = 0 /\ \A u \in User : disk[u] = <<>>
  BY DEF Init
<1>3. FirstUser \in User
  BY UserAssumption
<1> QED
  BY <1>1, <1>2, <1>3 DEF Numbers, TasksInOrder, QueuesInOrder, Increasing, OneOwner, NextIdIsFree, Past

-----------------------------------------------------------------------------
(* Streams is inductive, given Types and Numbers.                          *)

LEMMA ConcatFacts ==
    ASSUME NEW S, NEW s \in Seq(S), NEW t \in Seq(S)
    PROVE  /\ s \o t \in Seq(S) /\ Len(s) \in Nat /\ Len(t) \in Nat /\ Len(s \o t) = Len(s) + Len(t)
           /\ \A i \in 1..Len(s) : (s \o t)[i] = s[i]
           /\ \A i \in 1..Len(t) : (s \o t)[Len(s) + i] = t[i] /\ Len(s) + i \in 1..Len(s \o t)
           /\ \A i \in 1..Len(s \o t) :
                 \/ i \in 1..Len(s) /\ (s \o t)[i] = s[i]
                 \/ i - Len(s) \in 1..Len(t) /\ (s \o t)[i] = t[i - Len(s)]
OBVIOUS

(* The sequences that a client holds.                                      *)
LEMMA ClientSeqs ==
    ASSUME NEW c \in Client
    PROVE  /\ c.pipeline \in Seq(Batch) /\ Len(c.pipeline) \in Nat
           /\ c.in \in Seq(Request) /\ Len(c.in) \in Nat
           /\ c.out \in Seq(Request) /\ Len(c.out) \in Nat
           /\ c.late \in Seq(Request) /\ Len(c.late) \in Nat
           /\ c.pipeline \in Seq(Request)
           /\ c.state \in StreamState /\ c.close \in Nat /\ c.user \in User
<1>1. /\ c.pipeline \in Seq(Batch) /\ c.in \in Seq(Request) /\ c.out \in Seq(Request)
      /\ c.late \in Seq(Request)
      /\ c.state \in StreamState /\ c.close \in Nat /\ c.user \in User
  BY DEF Client
<1>2. c.pipeline \in Seq(Request)
  BY <1>1 DEF Request
<1> QED
  BY <1>1, <1>2

(* A pipeline that was filled is still the front of the queue.             *)
LEMMA FilledIsFront ==
    ASSUME NEW d \in Client, NEW queue \in Seq(Batch), NEW new,
           IsFront(d.pipeline, queue), ComesNext(d, new, queue)
    PROVE  /\ IsFront(d.pipeline \o new, queue)
           /\ Len(d.pipeline \o new) <= MaxPending
           /\ Len(d.pipeline \o new) = Len(d.pipeline) + Len(new) /\ Len(new) \in Nat
           /\ d.pipeline # <<>> => d.pipeline \o new # <<>>
           /\ d.pipeline \o new = <<>> => d.pipeline = <<>> /\ new = <<>>
<1>1. d.pipeline \in Seq(Batch) /\ new \in Seq(Batch)
  BY ClientSeqs DEF ComesNext
<1> DEFINE s == d.pipeline \o new
<1>2. /\ Len(d.pipeline) \in Nat /\ Len(new) \in Nat /\ Len(s) = Len(d.pipeline) + Len(new)
      /\ \A i \in 1..Len(s) :
            \/ i \in 1..Len(d.pipeline) /\ s[i] = d.pipeline[i]
            \/ i - Len(d.pipeline) \in 1..Len(new) /\ s[i] = new[i - Len(d.pipeline)]
      /\ s \in Seq(Batch)
  BY <1>1, ConcatFacts
<1>3. ASSUME NEW i \in 1..Len(s) PROVE s[i] = queue[i]
  <2>1. CASE i \in 1..Len(d.pipeline) /\ s[i] = d.pipeline[i]
    BY <2>1 DEF IsFront
  <2>2. CASE i - Len(d.pipeline) \in 1..Len(new) /\ s[i] = new[i - Len(d.pipeline)]
    <3>1. Len(d.pipeline) + (i - Len(d.pipeline)) = i
      BY <1>2
    <3> QED
      BY <2>2, <3>1 DEF ComesNext
  <2> QED
    BY <1>2, <2>1, <2>2
<1>4. IsFront(s, queue) /\ Len(s) <= MaxPending
  <2> HIDE DEF s
  <2> QED
    BY <1>2, <1>3 DEF IsFront, ComesNext
<1>5. (d.pipeline = <<>> <=> Len(d.pipeline) = 0) /\ (new = <<>> <=> Len(new) = 0) /\ (s = <<>> <=> Len(s) = 0)
  BY <1>1, <1>2
<1> QED
  BY <1>2, <1>4, <1>5

(* Filling the pipeline keeps what fits together.                          *)
LEMMA FillKeepsFits ==
    ASSUME NEW d \in Client, NEW r \in Client, NEW queue \in Seq(Batch),
           Fills(r, d, queue), Fits(d, queue), IsOpen(d) => r.handshake = d.handshake
    PROVE  Fits(r, queue) /\ (IsOpen(r) <=> IsOpen(d))
<1>1. PICK new : FilledWith(r, d, new) /\ ComesNext(d, new, queue)
  BY DEF Fills
<1>2. /\ r.pipeline = d.pipeline \o new
      /\ r.out = IF IsOpen(d) /\ d.handshake THEN d.out \o new ELSE d.out
      /\ r.network = d.network /\ r.token = d.token /\ r.in = d.in /\ r.end = d.end
      /\ Begins(r, d)
      /\ r.idle => \/ d.idle /\ ~(IsOpen(d) /\ d.handshake /\ new # <<>>)
                   \/ IsOpen(d) /\ r.pipeline = <<>>
  BY <1>1 DEF FilledWith
<1>3. /\ IsFront(r.pipeline, queue) /\ Len(r.pipeline) <= MaxPending
      /\ Len(r.pipeline) = Len(d.pipeline) + Len(new) /\ Len(new) \in Nat
      /\ d.pipeline # <<>> => r.pipeline # <<>>
      /\ r.pipeline = <<>> => d.pipeline = <<>> /\ new = <<>>
  BY <1>1, <1>2, FilledIsFront DEF Fits, PipelineFits
<1>4. IsOpen(r) <=> IsOpen(d)
  BY <1>2 DEF Begins, IsOpen, IsStarted
<1>5. PipelineFits(r, queue)
  <2>1. ~r.network => r.pipeline = <<>> /\ ~IsStarted(r)
    <3> SUFFICES ASSUME ~r.network PROVE r.pipeline = <<>> /\ ~IsStarted(r)
      OBVIOUS
    <3>1. d.pipeline = <<>> /\ new = <<>> /\ ~IsStarted(d)
      BY <1>1, <1>2 DEF Fits, PipelineFits, ComesNext
    <3>2. r.pipeline = <<>>
      BY <1>2, <3>1
    <3> QED
      BY <1>2, <3>1, <3>2 DEF Begins, IsStarted
  <2>2. IsStarted(r) /\ ~IsOpen(r) => r.pipeline # <<>>
    BY <1>2, <1>3 DEF Begins, Fits, PipelineFits, IsStarted, IsOpen
  <2> QED
    BY <1>3, <2>1, <2>2 DEF PipelineFits
<1>6. CallFits(r)
  <2>1. CASE ~IsOpen(d)
    BY <1>2, <1>4, <2>1 DEF Fits, CallFits
  <2>2. CASE IsOpen(d)
    <3>1. r.handshake = d.handshake
      BY <2>2
    <3>2. r.idle => r.handshake /\ r.pipeline = <<>>
      <4>1. d.idle => d.handshake /\ d.pipeline = <<>>
        BY DEF Fits, CallFits
      <4>2. ~d.handshake => d.pipeline # <<>>
        BY <2>2 DEF Fits, CallFits
      <4>3. CASE d.idle /\ ~(IsOpen(d) /\ d.handshake /\ new # <<>>)
        <5>1. d.pipeline = <<>> /\ new = <<>> /\ d.handshake
          BY <2>2, <4>1, <4>3
        <5> QED
          BY <1>2, <3>1, <5>1
      <4> QED
        BY <1>2, <1>3, <3>1, <4>2, <4>3
    <3>3. CASE ~d.handshake
      BY <1>2, <1>3, <1>4, <2>2, <3>1, <3>2, <3>3 DEF Fits, CallFits, ShakesHands
    <3>4. CASE d.handshake
      <4>1. r.out = d.out \o new /\ new \in Seq(Batch) /\ new \in Seq(Request) /\ d.out \in Seq(Request)
        <5>1. new \in Seq(Batch) /\ d.out \in Seq(Request)
          BY <1>1, ClientSeqs DEF ComesNext
        <5>2. new \in Seq(Request)
          BY <5>1 DEF Request
        <5> QED
          BY <1>2, <2>2, <3>4, <5>1, <5>2
      <4>2. /\ Len(d.out) \in Nat /\ Len(new) \in Nat /\ Len(r.out) = Len(d.out) + Len(new)
            /\ \A i \in 1..Len(r.out) :
                  \/ i \in 1..Len(d.out) /\ r.out[i] = d.out[i]
                  \/ i - Len(d.out) \in 1..Len(new) /\ r.out[i] = new[i - Len(d.out)]
        BY <4>1, ConcatFacts
      <4>3. /\ Len(d.pipeline) \in Nat
            /\ \A i \in 1..Len(d.pipeline) : r.pipeline[i] = d.pipeline[i]
            /\ \A i \in 1..Len(new) : r.pipeline[Len(d.pipeline) + i] = new[i]
        BY <1>2, <4>1, ConcatFacts, ClientSeqs
      <4>4. Len(d.in) \in Nat
        BY ClientSeqs
      <4> DEFINE inLen == Len(d.in)
                 outLen == Len(d.out)
                 pipeLen == Len(d.pipeline)
                 newLen == Len(new)
      <4>7. /\ inLen \in Nat /\ outLen \in Nat /\ pipeLen \in Nat /\ newLen \in Nat
            /\ Len(d.in) = inLen /\ Len(d.out) = outLen /\ Len(d.pipeline) = pipeLen
            /\ Len(new) = newLen /\ Len(r.in) = inLen
            /\ Len(r.out) = outLen + newLen /\ Len(r.pipeline) = pipeLen + newLen
        BY <1>2, <1>3, <4>2, <4>3, <4>4
      <4> HIDE DEF inLen, outLen, pipeLen, newLen
      <4>5. CASE d.end = "none"
        <5>1. /\ Len(d.in) + Len(d.out) = Len(d.pipeline)
              /\ \A i \in 1..Len(d.in) : d.in[i] = d.pipeline[i]
              /\ \A i \in 1..Len(d.out) : d.out[i] = d.pipeline[Len(d.in) + i]
          BY <2>2, <3>4, <4>5 DEF Fits, CallFits, CarriesPipeline
        <5>6. inLen + outLen = pipeLen
          BY <4>7, <5>1
        <5>2. Len(r.in) + Len(r.out) = Len(r.pipeline)
          BY <4>7, <5>6
        <5>3. ASSUME NEW i \in 1..Len(r.in) PROVE r.in[i] = r.pipeline[i]
          <6>1. i \in 1..Len(d.in) /\ i \in 1..Len(d.pipeline)
            BY <4>7, <5>6
          <6> QED
            BY <1>2, <4>3, <5>1, <6>1
        <5>4. ASSUME NEW i \in 1..Len(r.out) PROVE r.out[i] = r.pipeline[Len(r.in) + i]
          <6>1. CASE i \in 1..Len(d.out) /\ r.out[i] = d.out[i]
            <7>1. Len(d.in) + i \in 1..Len(d.pipeline)
              BY <4>7, <5>6, <6>1
            <7> QED
              BY <1>2, <4>3, <5>1, <6>1, <7>1
          <6>2. CASE i - Len(d.out) \in 1..Len(new) /\ r.out[i] = new[i - Len(d.out)]
            <7>1. Len(d.in) + i = Len(d.pipeline) + (i - Len(d.out))
              BY <4>7, <5>6
            <7> QED
              BY <1>2, <4>3, <6>2, <7>1
          <6> QED
            BY <4>2, <6>1, <6>2
        <5>5. CarriesPipeline(r)
          BY <5>2, <5>3, <5>4 DEF CarriesPipeline
        <5> QED
          BY <1>2, <1>4, <2>2, <3>1, <3>2, <3>4, <4>5, <5>5 DEF CallFits
      <4>6. CASE d.end # "none"
        <5>1. /\ Len(d.in) < Len(d.pipeline)
              /\ \A i \in 1..Len(d.in) : d.in[i] = d.pipeline[i]
              /\ \A i \in 1..Len(d.out) :
                    \E j \in (Len(d.in) + 1)..Len(d.pipeline) : d.out[i] = d.pipeline[j]
          BY <2>2, <3>4, <4>6 DEF Fits, CallFits, EndsInPipeline
        <5>6. inLen < pipeLen
          BY <4>7, <5>1
        <5>2. Len(r.in) < Len(r.pipeline)
          BY <4>7, <5>6
        <5>3. ASSUME NEW i \in 1..Len(r.in) PROVE r.in[i] = r.pipeline[i]
          <6>1. i \in 1..Len(d.in) /\ i \in 1..Len(d.pipeline)
            BY <4>7, <5>6
          <6> QED
            BY <1>2, <4>3, <5>1, <6>1
        <5>4. ASSUME NEW i \in 1..Len(r.out)
              PROVE  \E j \in (Len(r.in) + 1)..Len(r.pipeline) : r.out[i] = r.pipeline[j]
          <6>1. CASE i \in 1..Len(d.out) /\ r.out[i] = d.out[i]
            <7>1. PICK j \in (Len(d.in) + 1)..Len(d.pipeline) : d.out[i] = d.pipeline[j]
              BY <5>1, <6>1
            <7>2. j \in 1..Len(d.pipeline) /\ j \in (Len(r.in) + 1)..Len(r.pipeline)
              BY <4>7
            <7> QED
              BY <4>3, <6>1, <7>1, <7>2
          <6>2. CASE i - Len(d.out) \in 1..Len(new) /\ r.out[i] = new[i - Len(d.out)]
            <7>1. Len(d.pipeline) + (i - Len(d.out)) \in (Len(r.in) + 1)..Len(r.pipeline)
              BY <4>7, <5>6, <6>2
            <7> QED
              BY <4>3, <6>2, <7>1
          <6> QED
            BY <4>2, <6>1, <6>2
        <5>5. EndsInPipeline(r)
          BY <5>2, <5>3, <5>4 DEF EndsInPipeline
        <5> QED
          BY <1>2, <1>4, <2>2, <3>1, <3>2, <3>4, <4>6, <5>5 DEF CallFits
      <4> QED
        BY <4>5, <4>6
    <3> QED
      BY <3>3, <3>4
  <2> QED
    BY <2>1, <2>2
<1> QED
  BY <1>4, <1>5, <1>6 DEF Fits

(* A stream that begins afresh fits any queue.                             *)
LEMMA AfreshFits ==
    ASSUME NEW c \in Client, NEW d \in Client, NEW queue \in Seq(Batch),
           Afresh(d, c), CallFits(c), c.handshake => IsOpen(c)
    PROVE  Fits(d, queue) /\ ~d.handshake /\ ~IsOpen(d)
<1>1. d.state = "initial" /\ d.network /\ d.pipeline = <<>> /\ Stops(d, c)
  BY DEF Afresh
<1>2. /\ d.in = <<>> /\ d.out = <<>> /\ d.end = "none" /\ ~d.idle /\ d.token = NoToken
      /\ ~d.handshake
  <2>1. CASE IsStarted(c)
    BY <1>1, <2>1 DEF Stops, Closes, Forgets
  <2>2. CASE ~IsStarted(c)
    BY <1>1, <2>2 DEF Stops, SameCall, CallFits, IsStarted, IsOpen
  <2> QED
    BY <2>1, <2>2
<1>3. IsFront(d.pipeline, queue) /\ Len(d.pipeline) <= MaxPending
  BY <1>1, BoundAssumption DEF IsFront
<1> QED
  BY <1>1, <1>2, <1>3 DEF Fits, PipelineFits, CallFits, IsOpen, IsStarted

(* Only some of the fields matter for it.                                  *)
LEMMA SameFits ==
    ASSUME NEW c, NEW r, NEW queue, Fits(c, queue),
           r.network = c.network, r.pipeline = c.pipeline, r.state = c.state,
           r.handshake = c.handshake, r.idle = c.idle,
           r.token = c.token, r.out = c.out, r.in = c.in, r.end = c.end
    PROVE  Fits(r, queue)
<1>1. CarriesPipeline(c) => CarriesPipeline(r)
  BY DEF CarriesPipeline
<1>2. EndsInPipeline(c) => EndsInPipeline(r)
  BY DEF EndsInPipeline
<1>3. ShakesHands(c) => ShakesHands(r)
  BY DEF ShakesHands
<1>4. PipelineFits(r, queue)
  BY DEF Fits, PipelineFits, IsOpen, IsStarted
<1>5. CallFits(r)
  BY <1>1, <1>2, <1>3 DEF Fits, CallFits, IsOpen
<1> QED
  BY <1>4, <1>5 DEF Fits

(* What a step makes of the stream.                                        *)
StreamFits == Fits(client', disk'[client'.user]) /\ (client'.handshake => IsOpen(client'))

LEMMA FitsOfCallEnds ==
    ASSUME Types, Numbers, Streams, NEW status, CallEnds(status)
    PROVE  StreamFits
<1> DEFINE u == client.user
           front == Head(client.pipeline)
<1>1. client.user \in User /\ disk[u] \in Seq(Batch) /\ QueuesInOrder
      /\ PipelineFits(client, disk[u])
  BY DEF Types, Client, Numbers, Streams, Fits
<1>2. CASE Rejects(status)
  <2>1. /\ TakesFirst(disk', u) /\ client' \in Client /\ ~client'.handshake
        /\ \E d \in Client : RejectionLeaves(d, front) /\ Fills(client', d, disk'[u])
    BY <1>1, <1>2, RejectionFields
  <2>2. PICK d \in Client : RejectionLeaves(d, front) /\ Fills(client', d, disk'[u])
    BY <2>1
  <2>3. /\ disk[u] # <<>> /\ Tail(disk[u]) \in Seq(Batch)
        /\ IsFront(Tail(client.pipeline), Tail(disk[u]))
    BY <1>1, <1>2, FrontIsFirst DEF Rejects
  <2>4. disk'[u] = Tail(disk[u]) /\ disk'[u] \in Seq(Batch)
    BY <2>1, <2>3 DEF TakesFirst
  <2>5. Len(Tail(client.pipeline)) <= MaxPending
    <3>1. client.pipeline \in Seq(Batch) /\ client.pipeline # <<>> /\ Len(client.pipeline) <= MaxPending
      BY <1>1, <1>2 DEF Rejects, Types, Client, PipelineFits
    <3>2. Len(client.pipeline) \in Nat /\ Len(Tail(client.pipeline)) = Len(client.pipeline) - 1
      BY <3>1, TailFacts
    <3> QED
      BY <3>1, <3>2, BoundAssumption
  <2>6. /\ d.pipeline = Tail(client.pipeline) /\ d.state = "initial" /\ d.network = client.network
        /\ d.in = <<>> /\ d.out = <<>> /\ d.end = "none" /\ ~d.idle /\ d.token = NoToken
        /\ d.user = u
    BY <2>2 DEF RejectionLeaves, Forgets, Settles
  <2>7. d.network
    BY <1>1, <1>2, <2>6 DEF Rejects, PipelineFits
  <2>8. Fits(d, disk'[u]) /\ ~IsOpen(d)
    BY <2>3, <2>4, <2>5, <2>6, <2>7 DEF Fits, PipelineFits, CallFits, IsOpen, IsStarted
  <2>9. Fits(client', disk'[u])
    BY <2>1, <2>2, <2>4, <2>8, FillKeepsFits
  <2>10. client'.user = u
    BY <2>2, <2>6 DEF Fills, FilledWith, SameEngine
  <2> QED
    BY <2>1, <2>9, <2>10 DEF StreamFits
<1>3. CASE ~Rejects(status)
  <2>1. /\ UNCHANGED disk /\ client' \in Client /\ ~client'.handshake
        /\ \E d \in Client :
              /\ BreakLeaves(d)
              /\ SameEngine(client', d) /\ SameCall(client', d) /\ Begins(client', d)
              /\ client'.network = d.network /\ client'.pipeline = d.pipeline
              /\ client'.idle = d.idle /\ client'.close = d.close
    BY <1>3, BreakFields
  <2>2. PICK d \in Client :
              /\ BreakLeaves(d)
              /\ SameEngine(client', d) /\ SameCall(client', d) /\ Begins(client', d)
              /\ client'.network = d.network /\ client'.pipeline = d.pipeline
              /\ client'.idle = d.idle /\ client'.close = d.close
    BY <2>1
  <2>3. /\ client'.user = u /\ client'.network = client.network
        /\ client'.pipeline = client.pipeline
        /\ client'.in = <<>> /\ client'.out = <<>> /\ client'.end = "none"
        /\ ~client'.idle /\ client'.token = NoToken
        /\ client'.state = "error" \/ (client'.state = "backoff" /\ client'.network /\ client'.pipeline # <<>>)
    BY <2>2 DEF BreakLeaves, Closes, Forgets, SameEngine, SameCall, Begins
  <2> QED
    BY <1>1, <2>1, <2>3 DEF StreamFits, Fits, PipelineFits, CallFits, IsOpen, IsStarted
<1> QED
  BY <1>2, <1>3

LEMMA FitsOfMutationResult ==
    ASSUME Types, Numbers, Streams, MutationResult
    PROVE  StreamFits
<1> DEFINE u == client.user
           front == Head(client.pipeline)
<1>1. client.user \in User /\ disk[u] \in Seq(Batch) /\ QueuesInOrder
      /\ PipelineFits(client, disk[u])
  BY DEF Types, Client, Numbers, Streams, Fits
<1>2. /\ client.in # <<>> /\ client.handshake /\ client.pipeline # <<>>
      /\ TakesFirst(disk', u) /\ client' \in Client /\ client'.handshake
      /\ \E d \in Client : MutationResultLeaves(d, front) /\ Fills(client', d, disk'[u])
  BY <1>1, MutationResultFields
<1>3. PICK d \in Client : MutationResultLeaves(d, front) /\ Fills(client', d, disk'[u])
  BY <1>2
<1>4. /\ disk[u] # <<>> /\ Tail(disk[u]) \in Seq(Batch)
      /\ IsFront(Tail(client.pipeline), Tail(disk[u]))
  BY <1>1, <1>2, FrontIsFirst
<1>5. disk'[u] = Tail(disk[u]) /\ disk'[u] \in Seq(Batch)
  BY <1>2, <1>4 DEF TakesFirst
<1>6. /\ d.pipeline = Tail(client.pipeline) /\ d.in = Tail(client.in)
      /\ d.network = client.network /\ d.state = client.state /\ d.handshake = client.handshake
      /\ d.idle = client.idle /\ d.token = client.token /\ d.out = client.out
      /\ d.end = client.end /\ d.user = u
  BY <1>3 DEF MutationResultLeaves, Settles
<1>7. /\ client.pipeline \in Seq(Batch) /\ client.in \in Seq(Request) /\ client.out \in Seq(Request)
      /\ Len(client.out) \in Nat
  BY ClientSeqs DEF Types
<1> DEFINE inLen == Len(client.in)
           pipeLen == Len(client.pipeline)
           outLen == Len(client.out)
<1>8. /\ inLen \in Nat \ {0} /\ pipeLen \in Nat \ {0} /\ outLen \in Nat
      /\ Len(d.in) = inLen - 1 /\ Len(d.pipeline) = pipeLen - 1 /\ Len(d.out) = outLen
      /\ Len(client.in) = inLen /\ Len(client.pipeline) = pipeLen /\ Len(client.out) = outLen
      /\ \A i \in 1..Len(d.in) : d.in[i] = client.in[i + 1] /\ i + 1 \in 1..Len(client.in)
      /\ \A i \in 1..Len(d.pipeline) : d.pipeline[i] = client.pipeline[i + 1]
      /\ \A i \in 1..Len(d.out) : d.out[i] = client.out[i]
  BY <1>2, <1>6, <1>7, TailFacts
<1> HIDE DEF inLen, pipeLen, outLen
<1>9. IsOpen(client) /\ client.network /\ ~client.idle
  BY <1>1, <1>2 DEF Streams, Fits, PipelineFits, CallFits
<1>10. PipelineFits(d, disk'[u])
  <2>1. Len(client.pipeline) <= MaxPending
    BY <1>1 DEF PipelineFits
  <2>2. Len(d.pipeline) <= MaxPending
    BY <1>8, <2>1, BoundAssumption
  <2> QED
    BY <1>4, <1>5, <1>6, <1>9, <2>2 DEF PipelineFits, IsOpen, IsStarted
<1>11. CASE client.end = "none"
  <2>1. CarriesPipeline(client)
    BY <1>2, <1>9, <1>11 DEF Streams, Fits, CallFits
  <2>2. inLen + outLen = pipeLen
    BY <1>8, <2>1 DEF CarriesPipeline
  <2>3. Len(d.in) + Len(d.out) = Len(d.pipeline)
    BY <1>8, <2>2
  <2>4. ASSUME NEW i \in 1..Len(d.in) PROVE d.in[i] = d.pipeline[i]
    <3>1. i \in 1..Len(d.pipeline)
      BY <1>8, <2>2
    <3>2. d.in[i] = client.in[i + 1] /\ i + 1 \in 1..Len(client.in) /\ d.pipeline[i] = client.pipeline[i + 1]
      BY <1>8, <3>1
    <3> QED
      BY <2>1, <3>2 DEF CarriesPipeline
  <2>5. ASSUME NEW i \in 1..Len(d.out) PROVE d.out[i] = d.pipeline[Len(d.in) + i]
    <3>4. i \in Nat /\ 1 <= i /\ i <= outLen
      BY <1>8
    <3>5. (inLen - 1) + i \in 1..(pipeLen - 1) /\ ((inLen - 1) + i) + 1 = inLen + i
      BY <1>8, <2>2, <3>4
    <3>1. Len(d.in) + i \in 1..Len(d.pipeline) /\ (Len(d.in) + i) + 1 = Len(client.in) + i
      BY <1>8, <3>5
    <3>2. d.pipeline[Len(d.in) + i] = client.pipeline[Len(client.in) + i]
      BY <1>8, <3>1
    <3>3. i \in 1..Len(client.out) /\ d.out[i] = client.out[i]
      BY <1>8
    <3> QED
      BY <2>1, <3>2, <3>3 DEF CarriesPipeline
  <2>6. CarriesPipeline(d)
    BY <2>3, <2>4, <2>5 DEF CarriesPipeline
  <2> QED
    <3>1. CallFits(d)
      BY <1>2, <1>6, <1>9, <1>11, <2>6 DEF CallFits, IsOpen
    <3>2. Fits(client', disk'[u]) /\ (IsOpen(client') <=> IsOpen(d))
      BY <1>2, <1>3, <1>5, <1>6, <1>10, <3>1, FillKeepsFits DEF Fits
    <3>3. client'.user = u
      BY <1>3, <1>6 DEF Fills, FilledWith, SameEngine
    <3> QED
      BY <1>6, <1>9, <3>2, <3>3 DEF StreamFits, IsOpen
<1>12. CASE client.end # "none"
  <2>1. EndsInPipeline(client)
    BY <1>2, <1>9, <1>12 DEF Streams, Fits, CallFits
  <2>2. inLen < pipeLen
    BY <1>8, <2>1 DEF EndsInPipeline
  <2>3. Len(d.in) < Len(d.pipeline)
    BY <1>8, <2>2
  <2>4. ASSUME NEW i \in 1..Len(d.in) PROVE d.in[i] = d.pipeline[i]
    <3>1. i \in 1..Len(d.pipeline)
      BY <1>8, <2>2
    <3>2. d.in[i] = client.in[i + 1] /\ i + 1 \in 1..Len(client.in) /\ d.pipeline[i] = client.pipeline[i + 1]
      BY <1>8, <3>1
    <3> QED
      BY <2>1, <3>2 DEF EndsInPipeline
  <2>5. ASSUME NEW i \in 1..Len(d.out)
        PROVE  \E j \in (Len(d.in) + 1)..Len(d.pipeline) : d.out[i] = d.pipeline[j]
    <3>1. i \in 1..Len(client.out) /\ d.out[i] = client.out[i]
      BY <1>8
    <3>2. PICK j \in (Len(client.in) + 1)..Len(client.pipeline) : client.out[i] = client.pipeline[j]
      BY <2>1, <3>1 DEF EndsInPipeline
    <3>3. j - 1 \in (Len(d.in) + 1)..Len(d.pipeline) /\ j - 1 \in 1..Len(d.pipeline) /\ (j - 1) + 1 = j
      BY <1>8, <2>2
    <3>4. d.pipeline[j - 1] = client.pipeline[j]
      BY <1>8, <3>3
    <3> QED
      BY <3>1, <3>2, <3>3, <3>4
  <2>6. EndsInPipeline(d)
    BY <2>3, <2>4, <2>5 DEF EndsInPipeline
  <2> QED
    <3>1. CallFits(d)
      BY <1>2, <1>6, <1>9, <1>12, <2>6 DEF CallFits, IsOpen
    <3>2. Fits(client', disk'[u]) /\ (IsOpen(client') <=> IsOpen(d))
      BY <1>2, <1>3, <1>5, <1>6, <1>10, <3>1, FillKeepsFits DEF Fits
    <3>3. client'.user = u
      BY <1>3, <1>6 DEF Fills, FilledWith, SameEngine
    <3> QED
      BY <1>6, <1>9, <3>2, <3>3 DEF StreamFits, IsOpen
<1> QED
  BY <1>11, <1>12

LEMMA FitsOfHandshake ==
    ASSUME Types, Streams, HandshakeComplete
    PROVE  StreamFits
<1>1. /\ client' \in Client /\ SameEngine(client', client)
      /\ client'.network = client.network /\ client'.pipeline = client.pipeline
      /\ client'.state = client.state
      /\ client.in # <<>> /\ ~client.handshake /\ client'.handshake
      /\ client'.in = Tail(client.in) /\ client'.out = client.out \o client.pipeline
      /\ client'.idle => client.idle /\ client.pipeline = <<>>
      /\ client'.end = client.end
      /\ UNCHANGED disk
  BY HandshakeFields
<1>2. IsOpen(client) /\ ShakesHands(client) /\ ~client.idle
  BY <1>1 DEF Streams, Fits, CallFits
<1>3. /\ client.in \in Seq(Request) /\ client.out \in Seq(Request) /\ client.pipeline \in Seq(Request)
      /\ Len(client.out) \in Nat
  BY ClientSeqs DEF Types
<1>4. client.out = <<>> /\ client'.in = <<>>
  <2> DEFINE inLen == Len(client.in)
             outLen == Len(client.out)
  <2>1. /\ inLen \in Nat \ {0} /\ outLen \in Nat
        /\ Len(Tail(client.in)) = inLen - 1 /\ Tail(client.in) \in Seq(Request)
    BY <1>1, <1>3, TailFacts
  <2>2. inLen + outLen <= 1
    BY <1>2 DEF ShakesHands
  <2>3. outLen = 0 /\ Len(Tail(client.in)) = 0
    <3> HIDE DEF inLen, outLen
    <3>1. inLen \in Nat \ {0} /\ outLen \in Nat
      BY <2>1
    <3>2. inLen = 1 /\ outLen = 0
      BY <2>2, <3>1
    <3> QED
      BY <2>1, <3>2
  <2>4. \A s \in Seq(Request) : Len(s) = 0 => s = <<>>
    OBVIOUS
  <2> QED
    BY <1>1, <1>3, <2>1, <2>3, <2>4
<1>5. client'.out = client.pipeline
  BY <1>1, <1>3, <1>4
<1>6. CarriesPipeline(client')
  <2> DEFINE pipeLen == Len(client.pipeline)
  <2>1. pipeLen \in Nat /\ Len(client'.in) = 0 /\ Len(client'.out) = pipeLen /\ Len(client'.pipeline) = pipeLen
    <3>1. pipeLen \in Nat
      BY <1>3
    <3>2. Len(client'.in) = 0
      BY <1>4
    <3> QED
      BY <1>1, <1>5, <3>1, <3>2
  <2> HIDE DEF pipeLen
  <2>2. Len(client'.in) + Len(client'.out) = Len(client'.pipeline)
    BY <2>1
  <2>3. \A i \in 1..Len(client'.in) : client'.in[i] = client'.pipeline[i]
    BY <2>1
  <2>4. \A i \in 1..Len(client'.out) : client'.out[i] = client'.pipeline[Len(client'.in) + i]
    <3>1. \A i \in 1..Len(client'.out) : Len(client'.in) + i = i
      BY <2>1
    <3> QED
      BY <1>1, <1>5, <3>1
  <2> QED
    BY <2>2, <2>3, <2>4 DEF CarriesPipeline
<1>7. client'.end = "none"
  BY <1>1, <1>2 DEF ShakesHands
<1>8. CallFits(client')
  BY <1>1, <1>2, <1>6, <1>7 DEF CallFits, IsOpen
<1>9. PipelineFits(client', disk[client.user])
  BY <1>1 DEF Streams, Fits, PipelineFits, IsOpen, IsStarted
<1> QED
  BY <1>1, <1>2, <1>8, <1>9 DEF StreamFits, Fits, SameEngine, IsOpen

LEMMA FitsOfServerAnswers ==
    ASSUME Types, Streams, ServerAnswers
    PROVE  StreamFits
<1>1. /\ client.out # <<>> /\ client.end = "none" /\ client.out[1] \in Request
      /\ client' \in Client /\ SameEngine(client', client) /\ SameStream(client', client)
      /\ client'.out = Tail(client.out) /\ client'.in = Append(client.in, client.out[1])
      /\ client'.token = client.token /\ client'.end = client.end
      /\ UNCHANGED disk
  BY ServerAnswersFields
<1>2. /\ client.in \in Seq(Request) /\ client.out \in Seq(Request)
  BY ClientSeqs DEF Types
<1> DEFINE inLen == Len(client.in)
           outLen == Len(client.out)
<1>3. /\ inLen \in Nat /\ outLen \in Nat \ {0}
      /\ Len(client.in) = inLen /\ Len(client.out) = outLen
      /\ Len(client'.in) = inLen + 1 /\ Len(client'.out) = outLen - 1
      /\ \A i \in 1..inLen : client'.in[i] = client.in[i]
      /\ client'.in[inLen + 1] = client.out[1]
      /\ \A i \in 1..Len(client'.out) : client'.out[i] = client.out[i + 1] /\ i + 1 \in 1..outLen
  BY <1>1, <1>2, TailFacts, AppendFacts
<1> HIDE DEF inLen, outLen
<1>4. IsOpen(client) /\ IsOpen(client')
  BY <1>1 DEF Streams, Fits, CallFits, SameStream, IsOpen
<1>5. PipelineFits(client', disk[client.user])
  BY <1>1 DEF Streams, Fits, PipelineFits, SameStream, IsOpen, IsStarted
<1>6. CASE ~client.handshake
  <2>1. ShakesHands(client) /\ client.pipeline # <<>>
    BY <1>4, <1>6 DEF Streams, Fits, CallFits
  <2>2. inLen = 0 /\ outLen = 1
    BY <1>3, <2>1 DEF ShakesHands
  <2>3. client.out[1] = Handshake
    BY <1>3, <2>1, <2>2 DEF ShakesHands
  <2>4. ShakesHands(client')
    <3>1. Len(client'.in) = 1 /\ Len(client'.out) = 0 /\ client'.in[1] = Handshake
      BY <1>3, <2>2, <2>3
    <3>2. \A i \in 1..Len(client'.in) : client'.in[i] = Handshake
      BY <3>1
    <3>3. \A i \in 1..Len(client'.out) : client'.out[i] = Handshake
      BY <3>1
    <3>4. Len(client'.in) + Len(client'.out) <= 1
      BY <3>1
    <3> QED
      BY <1>1, <3>2, <3>3, <3>4 DEF ShakesHands
  <2>5. CallFits(client')
    BY <1>1, <1>4, <1>6, <2>1, <2>4 DEF Streams, Fits, CallFits, SameStream
  <2> QED
    BY <1>1, <1>4, <1>5, <2>5 DEF StreamFits, Fits, SameEngine
<1>7. CASE client.handshake
  <2>1. CarriesPipeline(client)
    BY <1>1, <1>4, <1>7 DEF Streams, Fits, CallFits
  <2> DEFINE pipeLen == Len(client.pipeline)
  <2>2. inLen + outLen = pipeLen /\ Len(client'.pipeline) = pipeLen /\ pipeLen \in Nat
    BY <1>1, <1>3, <2>1, ClientSeqs DEF CarriesPipeline, SameStream, Types
  <2> HIDE DEF pipeLen
  <2>3. Len(client'.in) + Len(client'.out) = Len(client'.pipeline)
    BY <1>3, <2>2
  <2>4. ASSUME NEW i \in 1..Len(client'.in) PROVE client'.in[i] = client.pipeline[i]
    <3>1. CASE i \in 1..inLen
      BY <1>3, <2>1, <3>1 DEF CarriesPipeline
    <3>2. CASE i = inLen + 1
      BY <1>3, <2>1, <3>2 DEF CarriesPipeline
    <3> QED
      BY <1>3, <3>1, <3>2
  <2>5. ASSUME NEW i \in 1..Len(client'.out)
        PROVE  client'.out[i] = client.pipeline[Len(client'.in) + i]
    <3>1. client'.out[i] = client.out[i + 1] /\ i + 1 \in 1..Len(client.out)
      BY <1>3
    <3>2. inLen + (i + 1) = (inLen + 1) + i
      BY <1>3
    <3> QED
      BY <1>3, <2>1, <3>1, <3>2 DEF CarriesPipeline
  <2>6. CarriesPipeline(client')
    BY <1>1, <2>3, <2>4, <2>5 DEF CarriesPipeline, SameStream
  <2>7. CallFits(client')
    BY <1>1, <1>4, <1>7, <2>6 DEF Streams, Fits, CallFits, SameStream
  <2> QED
    BY <1>1, <1>4, <1>5, <2>7 DEF StreamFits, Fits, SameEngine
<1> QED
  BY <1>6, <1>7

LEMMA NotABatch == Handshake \notin Batch
BY DEF Handshake, Batch

LEMMA FitsOfServerRefuses ==
    ASSUME Types, Streams, ServerRefuses
    PROVE  StreamFits
<1>1. /\ client.out # <<>> /\ client.end = "none" /\ client.out[1] \in Batch
      /\ client' \in Client /\ SameEngine(client', client) /\ SameStream(client', client)
      /\ client'.out = <<>> /\ client'.in = client.in
      /\ client'.end = "denied"
      /\ UNCHANGED disk
  BY ServerRefusesFields
<1>2. client.in \in Seq(Request) /\ client.out \in Seq(Request) /\ Len(client.in) \in Nat
      /\ Len(client.pipeline) \in Nat
  BY ClientSeqs DEF Types
<1>3. Len(client.out) \in Nat \ {0}
  BY <1>1, <1>2, TailFacts
<1>4. IsOpen(client) /\ IsOpen(client')
  BY <1>1 DEF Streams, Fits, CallFits, SameStream, IsOpen
<1>5. client.handshake
  <2>1. 1 \in 1..Len(client.out) /\ client.out[1] # Handshake
    BY <1>1, <1>3, NotABatch
  <2> QED
    BY <1>4, <2>1 DEF Streams, Fits, CallFits, ShakesHands
<1>6. CarriesPipeline(client)
  BY <1>1, <1>4, <1>5 DEF Streams, Fits, CallFits
<1>7. Len(client.in) < Len(client.pipeline)
  <2> DEFINE inLen == Len(client.in)
             outLen == Len(client.out)
             pipeLen == Len(client.pipeline)
  <2>1. inLen \in Nat /\ outLen \in Nat \ {0} /\ pipeLen \in Nat /\ inLen + outLen = pipeLen
    BY <1>2, <1>3, <1>6 DEF CarriesPipeline
  <2> HIDE DEF inLen, outLen, pipeLen
  <2>2. inLen < pipeLen
    BY <2>1
  <2> QED
    BY <2>2 DEF inLen, pipeLen
<1>8. \A i \in 1..Len(client.in) : client.in[i] = client.pipeline[i]
  BY <1>6 DEF CarriesPipeline
<1>9. EndsInPipeline(client')
  BY <1>1, <1>7, <1>8 DEF EndsInPipeline, SameStream
<1>10. PipelineFits(client', disk[client.user])
  BY <1>1 DEF Streams, Fits, PipelineFits, SameStream, IsOpen, IsStarted
<1>11. CallFits(client')
  BY <1>1, <1>4, <1>5, <1>9 DEF Streams, Fits, CallFits, SameStream
<1> QED
  BY <1>1, <1>4, <1>10, <1>11 DEF StreamFits, Fits, SameEngine

LEMMA FitsOfRunResume ==
    ASSUME Types, Numbers, Streams, OnlyStartingWaits, RunResume
    PROVE  StreamFits
<1> DEFINE task == workQueue[1]
<1>1. /\ workQueue # <<>> /\ task.do = "resume"
      /\ \/ task.close # client.close /\ UNCHANGED <<client, disk>>
         \/ task.close = client.close /\ CallEnds("unknown")
         \/ /\ task.close = client.close
            /\ ResumeOpens(task.token)
            /\ UNCHANGED disk
  BY RunResumeFields
<1>2. CASE UNCHANGED <<client, disk>>
  BY <1>2 DEF StreamFits, Streams
<1>3. CASE CallEnds("unknown")
  BY <1>3, FitsOfCallEnds
<1>4. CASE task.close = client.close /\ ResumeOpens(task.token) /\ UNCHANGED disk
  <2>1. client.state = "starting"
    <3>1. 1 \in 1..Len(workQueue)
      BY <1>1, TailFacts DEF Types
    <3> QED
      BY <1>1, <1>4, <3>1 DEF OnlyStartingWaits, ResumeNow, ResumeAt
  <2>2. /\ client'.user = client.user
        /\ client'.network = client.network /\ client'.pipeline = client.pipeline
        /\ client'.handshake = client.handshake /\ client'.idle = client.idle
        /\ client'.state = "open" /\ client'.out = <<Handshake>>
        /\ client'.in = client.in /\ client'.end = client.end
    BY <1>4 DEF ResumeOpens, SameEngine
  <2>3. /\ ~client.handshake /\ client.in = <<>> /\ client.end = "none" /\ ~client.idle
        /\ client.network /\ client.pipeline # <<>>
    BY <2>1 DEF Streams, Fits, CallFits, PipelineFits, IsOpen, IsStarted
  <2>4. ShakesHands(client')
    BY <2>2, <2>3 DEF ShakesHands
  <2>5. CallFits(client')
    BY <2>2, <2>3, <2>4 DEF CallFits, IsOpen
  <2>6. PipelineFits(client', disk[client.user])
    BY <2>2, <2>3 DEF Streams, Fits, PipelineFits, IsOpen, IsStarted
  <2> QED
    BY <1>4, <2>2, <2>3, <2>5, <2>6 DEF StreamFits, Fits
<1> QED
  BY <1>1, <1>2, <1>3, <1>4

(* The tasks that stop the stream, or start it for a queue.                *)
LEMMA FitsOfRunWrite ==
    ASSUME Types, Numbers, Streams, RunWrite
    PROVE  StreamFits
<1> DEFINE u == client.user
           b == [id |-> client.nextId, write |-> Head(workQueue).write, user |-> u]
<1>1. /\ b \in Batch /\ u \in User
      /\ disk' \in [User -> Seq(Batch)] /\ disk'[u] = Append(disk[u], b)
      /\ client' \in Client /\ client'.handshake = client.handshake
      /\ \E d \in Client : WriteLeaves(d, b) /\ Fills(client', d, disk'[u])
  BY RunWriteFields DEF Streams, Fits
<1>2. PICK d \in Client : WriteLeaves(d, b) /\ Fills(client', d, disk'[u])
  BY <1>1
<1> HIDE DEF b
<1>3. /\ Len(disk[u]) \in Nat /\ Len(disk'[u]) = Len(disk[u]) + 1
      /\ \A i \in 1..Len(disk[u]) : disk'[u][i] = disk[u][i]
      /\ disk'[u] \in Seq(Batch)
  BY <1>1, AppendFacts DEF Types
<1>4. IsFront(client.pipeline, disk'[u])
  <2>1. Len(client.pipeline) <= Len(disk[u]) /\ \A i \in 1..Len(client.pipeline) : client.pipeline[i] = disk[u][i]
    BY DEF Streams, Fits, PipelineFits, IsFront
  <2>2. Len(client.pipeline) \in Nat
    BY ClientSeqs DEF Types
  <2> QED
    BY <1>3, <2>1, <2>2 DEF IsFront
<1>5. Fits(client, disk'[u])
  BY <1>4 DEF Streams, Fits, PipelineFits
<1>6. Fits(d, disk'[u]) /\ d.handshake = client.handshake /\ d.user = u /\ d.state = client.state
  BY <1>2, <1>5, SameFits DEF WriteLeaves, SameStream, SameCall
<1>7. Fits(client', disk'[u]) /\ (IsOpen(client') <=> IsOpen(d))
  BY <1>1, <1>2, <1>3, <1>6, FillKeepsFits
<1>8. client'.user = u
  BY <1>2, <1>6 DEF Fills, FilledWith, SameEngine
<1> QED
  BY <1>1, <1>6, <1>7, <1>8 DEF StreamFits, Streams, IsOpen

LEMMA FitsOfStops ==
    ASSUME Types, Streams, client' \in Client, Stops(client', client), UNCHANGED disk,
           client'.state = (IF IsStarted(client) THEN "initial" ELSE client.state),
           \/ ~client'.network /\ client'.pipeline = <<>>
           \/ client'.network = client.network /\ client'.pipeline = client.pipeline
    PROVE  StreamFits
<1>1. /\ client'.in = <<>> /\ client'.out = <<>> /\ client'.end = "none" /\ ~client'.idle
      /\ client'.token = NoToken /\ ~client'.handshake
      /\ client'.user = client.user
  <2>1. CASE IsStarted(client)
    BY <2>1 DEF Stops, Closes, Forgets, SameEngine
  <2>2. CASE ~IsStarted(client)
    BY <2>2 DEF Stops, SameCall, SameEngine, Streams, Fits, CallFits, IsStarted, IsOpen
  <2> QED
    BY <2>1, <2>2
<1>2. ~IsStarted(client') /\ ~IsOpen(client')
  BY DEF IsStarted, IsOpen
<1>3. CallFits(client')
  BY <1>1, <1>2 DEF CallFits
<1>4. IsFront(client'.pipeline, disk[client.user]) /\ Len(client'.pipeline) <= MaxPending
  <2>1. CASE client'.pipeline = <<>>
    <3>1. Len(disk[client.user]) \in Nat
      BY ClientSeqs DEF Types
    <3> QED
      BY <2>1, <3>1, BoundAssumption DEF IsFront
  <2>2. CASE client'.pipeline = client.pipeline
    BY <2>2 DEF Streams, Fits, PipelineFits
  <2> QED
    BY <2>1, <2>2
<1>5. PipelineFits(client', disk[client.user])
  BY <1>2, <1>4 DEF PipelineFits, Streams, Fits
<1> QED
  BY <1>1, <1>3, <1>5 DEF StreamFits, Fits

LEMMA FitsOfAfresh ==
    ASSUME Types, Numbers, Streams, RunCredential \/ RunConnectivity
    PROVE  StreamFits
<1>1. ASSUME NEW s \in Client, NEW u \in User, s.user = u, SameStream(s, client), SameCall(s, client),
             client' \in Client, UNCHANGED disk,
             NEW d \in Client, Afresh(d, s), client'.handshake = d.handshake,
             Fills(client', d, disk[u])
      PROVE  StreamFits
  <2>1. Fits(s, disk[client.user]) /\ (s.handshake => IsOpen(s))
    BY <1>1, SameFits DEF Streams, SameStream, SameCall, IsOpen
  <2>2. disk[u] \in Seq(Batch)
    BY DEF Types
  <2>3. Fits(d, disk[u]) /\ ~d.handshake /\ ~IsOpen(d)
    BY <1>1, <2>1, <2>2, AfreshFits DEF Fits
  <2>4. Fits(client', disk[u])
    BY <1>1, <2>2, <2>3, FillKeepsFits
  <2>5. d.user = u
    BY <1>1 DEF Afresh, Stops, Closes, SameEngine
  <2>6. client'.user = u
    BY <1>1, <2>5 DEF Fills, FilledWith, SameEngine
  <2> QED
    BY <1>1, <2>3, <2>4, <2>6 DEF StreamFits
<1>2. CASE RunConnectivity
  <2>1. /\ client' \in Client /\ UNCHANGED disk
        /\ \/ ~client.network /\ UNCHANGED client
           \/ \E d \in Client : /\ Afresh(d, client) /\ client'.handshake = d.handshake
                                /\ Fills(client', d, disk[client.user])
    BY <1>2, RunConnectivityFields DEF Numbers
  <2>2. CASE UNCHANGED client
    BY <2>1, <2>2 DEF StreamFits, Streams
  <2>3. client \in Client /\ client.user \in User /\ SameStream(client, client) /\ SameCall(client, client)
    BY ClientSeqs DEF Types, SameStream, SameCall
  <2> QED
    BY <1>1, <2>1, <2>2, <2>3
<1>3. CASE RunCredential
  <2> DEFINE u == Head(workQueue).user
  <2>1. /\ u \in User /\ client' \in Client /\ UNCHANGED disk
        /\ \E s \in Client :
              /\ SwapLeaves(s, u)
              /\ \/ ~client.network /\ client' = s
                 \/ \E d \in Client : /\ Afresh(d, s) /\ client'.handshake = d.handshake
                                      /\ Fills(client', d, disk[u])
    BY <1>3, RunCredentialFields DEF Numbers
  <2> HIDE DEF u
  <2>2. PICK s \in Client :
              /\ SwapLeaves(s, u)
              /\ \/ ~client.network /\ client' = s
                 \/ \E d \in Client : /\ Afresh(d, s) /\ client'.handshake = d.handshake
                                      /\ Fills(client', d, disk[u])
    BY <2>1
  <2>3. s.user = u /\ SameStream(s, client) /\ SameCall(s, client)
    BY <2>2 DEF SwapLeaves
  <2>4. CASE ~client.network /\ client' = s
    <3>1. Fits(s, disk[client.user]) /\ (s.handshake => IsOpen(s))
      BY <2>3, SameFits DEF Streams, SameStream, SameCall, IsOpen
    <3>2. s.pipeline = <<>>
      BY <2>3, <2>4 DEF Streams, Fits, PipelineFits, SameStream
    <3>3. Len(disk[u]) \in Nat
      BY <2>1 DEF Types
    <3>4. IsFront(s.pipeline, disk[u])
      BY <3>2, <3>3 DEF IsFront
    <3>5. Fits(s, disk[u])
      BY <3>1, <3>4 DEF Fits, PipelineFits
    <3> QED
      BY <2>1, <2>3, <2>4, <3>1, <3>5 DEF StreamFits
  <2> QED
    BY <1>1, <2>1, <2>2, <2>3, <2>4
<1> QED
  BY <1>2, <1>3

LEMMA FitsOfRestart ==
    ASSUME Types, Numbers, Restart
    PROVE  StreamFits
<1>1. /\ client' \in Client /\ ~client'.handshake
      /\ \E d \in Client : Fresh(d, authUser) /\ Fills(client', d, disk[authUser])
      /\ UNCHANGED disk
  BY RestartFields DEF Numbers, Restart
<1>2. PICK d \in Client : Fresh(d, authUser) /\ Fills(client', d, disk[authUser])
  BY <1>1
<1>3. disk[authUser] \in Seq(Batch)
  BY DEF Types
<1>4. Fits(d, disk[authUser]) /\ ~IsOpen(d)
  <2>1. IsFront(d.pipeline, disk[authUser]) /\ Len(d.pipeline) <= MaxPending
    BY <1>2, <1>3, BoundAssumption DEF Fresh, IsFront
  <2> QED
    BY <1>2, <2>1 DEF Fresh, Fits, PipelineFits, CallFits, IsOpen, IsStarted
<1>5. Fits(client', disk[authUser])
  BY <1>1, <1>2, <1>3, <1>4, FillKeepsFits
<1>6. client'.user = authUser
  BY <1>2 DEF Fresh, Fills, FilledWith, SameEngine
<1> QED
  BY <1>1, <1>5, <1>6 DEF StreamFits

LEMMA FitsOfRunEnable ==
    ASSUME Types, Numbers, Streams, RunEnable
    PROVE  StreamFits
<1> DEFINE queue == disk[client.user]
<1>1. /\ client' \in Client /\ client'.handshake = client.handshake
      /\ \E d \in Client : EnableLeaves(d) /\ Fills(client', d, queue)
      /\ UNCHANGED disk
  BY RunEnableFields DEF Numbers, Streams, Fits
<1>2. PICK d \in Client : EnableLeaves(d) /\ Fills(client', d, queue)
  BY <1>1
<1>3. queue \in Seq(Batch)
  BY ClientSeqs DEF Types
<1>4. /\ d.state = client.state /\ d.pipeline = client.pipeline /\ d.network
      /\ d.handshake = client.handshake /\ d.idle = client.idle /\ d.user = client.user
      /\ d.token = client.token /\ d.out = client.out /\ d.in = client.in /\ d.end = client.end
  BY <1>2 DEF EnableLeaves, SameCall, SameEngine
<1>5. PipelineFits(d, queue)
  BY <1>4 DEF Streams, Fits, PipelineFits, IsOpen, IsStarted
<1>7. CallFits(d)
  <2>1. CarriesPipeline(client) => CarriesPipeline(d)
    BY <1>4 DEF CarriesPipeline
  <2>2. EndsInPipeline(client) => EndsInPipeline(d)
    BY <1>4 DEF EndsInPipeline
  <2>3. ShakesHands(client) => ShakesHands(d)
    BY <1>4 DEF ShakesHands
  <2> QED
    BY <1>4, <2>1, <2>2, <2>3 DEF Streams, Fits, CallFits, IsOpen
<1>8. Fits(client', queue) /\ (IsOpen(client') <=> IsOpen(d))
  BY <1>1, <1>2, <1>3, <1>4, <1>5, <1>7, FillKeepsFits DEF Fits
<1>9. client'.user = client.user
  BY <1>2, <1>4 DEF Fills, FilledWith, SameEngine
<1> QED
  BY <1>1, <1>4, <1>8, <1>9 DEF StreamFits, Streams, IsOpen

LEMMA FitsWhenSame ==
    ASSUME Streams, UNCHANGED disk, client'.user = client.user,
           SameStream(client', client) \/ SameButAsked(client', client),
           client'.token = client.token, client'.out = client.out, client'.in = client.in,
           client'.end = client.end
    PROVE  StreamFits
BY SameFits DEF StreamFits, Streams, SameStream, SameButAsked, IsOpen

LEMMA FitsOfBackoffElapsed ==
    ASSUME Types, Streams, BackoffElapsed
    PROVE  StreamFits
<1>1. /\ SameEngine(client', client) /\ SameCall(client', client)
      /\ client'.network = client.network /\ client'.pipeline = client.pipeline
      /\ client'.handshake = client.handshake /\ client'.idle = client.idle
      /\ client.state = "backoff" /\ client'.state = "starting"
      /\ UNCHANGED disk
  BY BackoffElapsedFields
<1> QED
  BY <1>1 DEF StreamFits, Streams, Fits, PipelineFits, CallFits, SameEngine, SameCall, IsOpen, IsStarted

LEMMA FitsStep ==
    ASSUME Types, Numbers, Streams, OnlyStartingWaits, [Next]_vars
    PROVE  StreamFits
<1>1. CASE UNCHANGED vars
  BY <1>1 DEF vars, StreamFits, Streams
<1>2. CASE IssueWrite \/ CallNetwork \/ CallEnableNetwork \/ \E u \in User : ChangeUser(u)
  BY <1>2 DEF IssueWrite, CallNetwork, CallEnableNetwork, ChangeUser, StreamFits, Streams
<1>3. CASE Restart
  BY <1>3, FitsOfRestart
<1>4. ASSUME NEW ask \in client.asked, ReadUser(ask) \/ FetchToken(ask) \/ TokenFails(ask)
      PROVE  StreamFits
  <2>1. SameButAsked(client', client) /\ UNCHANGED disk
    BY <1>4, ReadUserFields, AnswerFields DEF Answers
  <2> QED
    BY <2>1, FitsWhenSame DEF SameButAsked, SameEngine, SameCall
<1>5. CASE RunMainQueue
  <2>1. CASE RunPosted
    BY <2>1, RunPostedFields DEF StreamFits, Streams
  <2>2. CASE RunToken
    BY <2>2, RunTokenFields, FitsWhenSame DEF SameButAsked, SameEngine, SameCall
  <2> QED
    BY <1>5, <2>1, <2>2 DEF RunMainQueue
<1>6. CASE RunWait
  BY <1>6, RunWaitFields, FitsWhenSame DEF SameCall
<1>7. CASE ServerTakesLate \/ ServerNeverTakesLate
  BY <1>7, TakesLateFields, NeverTakesLateFields, FitsWhenSame DEF SameEngine
<1>8. CASE RunDisable
  BY <1>8, RunDisableFields, FitsOfStops
<1>9. CASE IdleElapsed
  BY <1>9, IdleElapsedFields, FitsOfStops
<1>10. CASE CallEnded \/ CallBreaks
  BY <1>10, FitsOfCallEnds DEF CallEnded, CallBreaks
<1> QED
  BY <1>1, <1>2, <1>3, <1>4, <1>5, <1>6, <1>7, <1>8, <1>9, <1>10,
     FitsOfMutationResult, FitsOfHandshake, FitsOfServerAnswers, FitsOfServerRefuses,
     FitsOfRunResume, FitsOfRunWrite, FitsOfAfresh, FitsOfRunEnable, FitsOfBackoffElapsed
     DEF Next, RunWorkQueue

(* The first batch is settled, and its callback taken out.                 *)
TakesOut ==
    /\ disk[client.user] # <<>> /\ TakesFirst(disk', client.user)
    /\ client'.user = client.user
    /\ \A v \in User : client'.callbacks[v] =
          IF v = client.user
          THEN {e \in client.callbacks[v] : e.id # disk[client.user][1].id}
          ELSE client.callbacks[v]
    /\ client'.waits = {x \in client.waits : x.id # disk[client.user][1].id}

(* No more callbacks are kept, but for the write that is stored.           *)
LEMMA CallbacksMove ==
    ASSUME Types, Numbers, PipelineFits(client, disk[client.user]), [Next]_vars
    PROVE  \/ UNCHANGED disk /\ \A v \in User : client'.callbacks[v] \subseteq client.callbacks[v]
           \/ TakesOut
           \/ RunWrite
<1> USE DEF Numbers
<1>1. ASSUME NEW status, CallEnds(status)
      PROVE  \/ UNCHANGED disk /\ \A v \in User : client'.callbacks[v] \subseteq client.callbacks[v]
             \/ TakesOut
  <2>1. CASE Rejects(status)
    <3> DEFINE front == Head(client.pipeline)
    <3>1. disk[client.user] # <<>> /\ front = disk[client.user][1] /\ client.user \in User
      BY <2>1, FrontIsFirst DEF Rejects
    <3>2. /\ TakesFirst(disk', client.user)
          /\ \E d \in Client : RejectionLeaves(d, front) /\ Fills(client', d, disk'[client.user])
      BY <1>1, <2>1, RejectionFields
    <3>3. Settles(client', client, front.id)
      BY <3>2 DEF RejectionLeaves, Settles, Fills, FilledWith, SameEngine
    <3> QED
      BY <3>1, <3>2, <3>3 DEF TakesOut, Settles
  <2>2. CASE ~Rejects(status)
    BY <1>1, <2>2, BreakFields DEF BreakLeaves, Closes, SameEngine
  <2> QED
    BY <2>1, <2>2
<1>2. CASE UNCHANGED vars
  BY <1>2 DEF vars
<1>3. CASE MutationResult
  <2> DEFINE front == Head(client.pipeline)
  <2>1. disk[client.user] # <<>> /\ front = disk[client.user][1] /\ client.user \in User
    BY <1>3, FrontIsFirst DEF MutationResult
  <2>2. /\ TakesFirst(disk', client.user)
        /\ \E d \in Client : MutationResultLeaves(d, front) /\ Fills(client', d, disk'[client.user])
    BY <1>3, MutationResultFields
  <2> HIDE DEF front
  <2>3. Settles(client', client, front.id)
    <3>1. PICK d \in Client : MutationResultLeaves(d, front) /\ Fills(client', d, disk'[client.user])
      BY <2>2
    <3>2. Settles(d, client, front.id) /\ SameEngine(client', d)
      BY <3>1 DEF MutationResultLeaves, Fills, FilledWith
    <3> QED
      BY <3>2 DEF Settles, SameEngine
  <2> QED
    BY <2>1, <2>2, <2>3 DEF TakesOut, Settles
<1>4. CASE CallEnded
  BY <1>1, <1>4 DEF CallEnded
<1>5. CASE CallBreaks
  BY <1>1, <1>5 DEF CallBreaks
<1>6. CASE RunResume
  BY <1>1, <1>6, RunResumeFields DEF ResumeOpens, SameEngine
<1>7. CASE RunWrite
  BY <1>7
<1>8. CASE Restart
  BY <1>8, RestartFields DEF Fresh, Fills, FilledWith, SameEngine, Restart
<1>9. CASE RunCredential
  BY <1>9, RunCredentialFields
     DEF SwapLeaves, Afresh, Stops, Closes, Fills, FilledWith, SameEngine
<1>10. CASE RunEnable
  BY <1>10, RunEnableFields DEF EnableLeaves, Fills, FilledWith, SameEngine
<1>11. CASE RunConnectivity
  BY <1>11, RunConnectivityFields DEF Afresh, Stops, Closes, Fills, FilledWith, SameEngine
<1>12. CASE RunDisable \/ IdleElapsed
  BY <1>12, RunDisableFields, IdleElapsedFields DEF Stops, Closes, SameEngine
<1>13. CASE RunWait \/ BackoffElapsed \/ HandshakeComplete
  BY <1>13, RunWaitFields, BackoffElapsedFields, HandshakeFields DEF SameEngine
<1>14. CASE ServerAnswers \/ ServerRefuses \/ ServerTakesLate \/ ServerNeverTakesLate
  BY <1>14, ServerAnswersFields, ServerRefusesFields, TakesLateFields, NeverTakesLateFields
     DEF SameEngine
<1>15. ASSUME NEW ask \in client.asked, ReadUser(ask) \/ FetchToken(ask) \/ TokenFails(ask)
       PROVE  UNCHANGED <<disk, client.callbacks>>
  BY <1>15, ReadUserFields, AnswerFields DEF Answers, SameButAsked, SameEngine
<1>16. CASE RunMainQueue
  BY <1>16, RunPostedFields, RunTokenFields DEF RunMainQueue, SameButAsked, SameEngine
<1>17. CASE IssueWrite \/ CallNetwork \/ CallEnableNetwork \/ \E u \in User : ChangeUser(u)
  BY <1>17 DEF IssueWrite, CallNetwork, CallEnableNetwork, ChangeUser
<1> QED
  BY <1>2, <1>3, <1>4, <1>5, <1>6, <1>7, <1>8, <1>9, <1>10, <1>11, <1>12, <1>13, <1>14, <1>15,
     <1>16, <1>17 DEF Next, RunWorkQueue

(* ToSet, by its elements.                                                 *)
LEMMA ToSetFacts ==
    ASSUME NEW S, NEW s \in Seq(S)
    PROVE  \A e : e \in ToSet(s) <=> \E i \in 1..Len(s) : s[i] = e
BY DEF ToSet

LEMMA CallbacksKept ==
    ASSUME Types, Numbers, PipelineFits(client, disk[client.user]), CallbacksArePending, [Next]_vars
    PROVE  CallbacksArePending'
<1> DEFINE u == client.user
<1>1. u \in User /\ disk \in [User -> Seq(Batch)]
  BY ClientSeqs DEF Types
<1>2. CASE UNCHANGED disk /\ \A v \in User : client'.callbacks[v] \subseteq client.callbacks[v]
  BY <1>2 DEF CallbacksArePending
<1>3. CASE TakesOut
  <2> SUFFICES ASSUME NEW v \in User, NEW e \in client'.callbacks[v]
               PROVE  e \in ToSet(disk'[v])
    BY DEF CallbacksArePending
  <2>1. e \in client.callbacks[v] /\ (v = u => e.id # disk[u][1].id)
    BY <1>3 DEF TakesOut
  <2>2. PICK i \in 1..Len(disk[v]) : disk[v][i] = e
    <3>1. e \in ToSet(disk[v]) /\ disk[v] \in Seq(Batch)
      BY <1>1, <2>1 DEF CallbacksArePending
    <3> QED
      BY <3>1, ToSetFacts
  <2>3. disk'[v] \in Seq(Batch)
    BY <1>3 DEF TakesOut, TakesFirst
  <2>4. CASE v # u
    BY <1>3, <2>2, <2>3, <2>4, ToSetFacts DEF TakesOut, TakesFirst
  <2>5. CASE v = u
    <3>1. /\ Len(disk[u]) \in Nat \ {0} /\ Len(disk'[u]) = Len(disk[u]) - 1
          /\ \A k \in 1..Len(disk'[u]) : disk'[u][k] = disk[u][k + 1]
      BY <1>1, <1>3, LeftBehind DEF TakesOut
    <3>2. i # 1
      BY <2>1, <2>2, <2>5
    <3>3. i - 1 \in 1..Len(disk'[u]) /\ (i - 1) + 1 = i
      BY <2>2, <2>5, <3>1, <3>2
    <3>4. disk'[v][i - 1] = e /\ i - 1 \in 1..Len(disk'[v])
      BY <2>2, <2>5, <3>1, <3>3
    <3> QED
      BY <2>3, <3>4, ToSetFacts
  <2> QED
    BY <2>4, <2>5
<1>4. CASE RunWrite
  <2> DEFINE b == [id |-> client.nextId, write |-> Head(workQueue).write, user |-> u]
  <2>1. /\ b \in Batch
        /\ disk' \in [User -> Seq(Batch)]
        /\ disk'[u] = Append(disk[u], b) /\ \A v \in User \ {u} : disk'[v] = disk[v]
        /\ \E d \in Client : WriteLeaves(d, b) /\ Fills(client', d, disk'[u])
    BY <1>4, RunWriteFields
  <2>2. PICK d \in Client : WriteLeaves(d, b) /\ Fills(client', d, disk'[u])
    BY <2>1
  <2> HIDE DEF b
  <2>3. \A v \in User : client'.callbacks[v] \subseteq
             IF v = u THEN client.callbacks[v] \cup {b} ELSE client.callbacks[v]
    BY <2>2 DEF WriteLeaves, Fills, FilledWith, SameEngine
  <2>4. /\ Len(disk[u]) \in Nat /\ Len(disk'[u]) = Len(disk[u]) + 1
        /\ \A i \in 1..Len(disk[u]) : disk'[u][i] = disk[u][i]
        /\ disk'[u][Len(disk[u]) + 1] = b
    BY <1>1, <2>1, AppendFacts
  <2> SUFFICES ASSUME NEW v \in User, NEW e \in client'.callbacks[v]
               PROVE  e \in ToSet(disk'[v])
    BY DEF CallbacksArePending
  <2>5. disk'[v] \in Seq(Batch) /\ disk[v] \in Seq(Batch)
    BY <1>1, <2>1
  <2>6. CASE v = u /\ e = b
    <3>1. Len(disk[u]) + 1 \in 1..Len(disk'[u])
      BY <2>4
    <3> QED
      BY <2>4, <2>5, <2>6, <3>1, ToSetFacts
  <2>7. CASE e \in client.callbacks[v]
    <3>1. e \in ToSet(disk[v])
      BY <2>7 DEF CallbacksArePending
    <3>2. PICK i \in 1..Len(disk[v]) : disk[v][i] = e
      BY <2>5, <3>1, ToSetFacts
    <3>3. disk'[v][i] = e /\ i \in 1..Len(disk'[v])
      <4>1. CASE v = u
        BY <2>4, <3>2, <4>1
      <4>2. CASE v # u
        BY <2>1, <3>2, <4>2
      <4> QED
        BY <4>1, <4>2
    <3> QED
      BY <2>5, <3>3, ToSetFacts
  <2> QED
    BY <2>3, <2>6, <2>7
<1> QED
  BY <1>2, <1>3, <1>4, CallbacksMove

LEMMA StreamsStep ==
    ASSUME Types, Numbers, Streams, OnlyStartingWaits, [Next]_vars
    PROVE  Streams'
<1>1. StreamFits
  BY FitsStep
<1>2. CallbacksArePending'
  BY CallbacksKept DEF Streams, Fits
<1>3. Fits(client, disk[client.user])'
  BY <1>1 DEF StreamFits, Fits, PipelineFits, CallFits, IsFront, IsStarted, IsOpen,
     CarriesPipeline, EndsInPipeline, ShakesHands
<1>4. (client.handshake => IsOpen(client))'
  BY <1>1 DEF StreamFits, IsOpen
<1> QED
  BY <1>2, <1>3, <1>4 DEF Streams

LEMMA StreamsInit == Init => Streams
<1> SUFFICES ASSUME Init PROVE Streams
  OBVIOUS
<1>1. client \in Client /\ Fresh(client, FirstUser)
  BY InitialClient
<1>2. disk[client.user] = <<>> /\ FirstUser \in User
  BY <1>1, UserAssumption DEF Init, Fresh
<1>3. IsFront(client.pipeline, disk[client.user]) /\ Len(client.pipeline) <= MaxPending
  BY <1>1, <1>2, BoundAssumption DEF Fresh, IsFront
<1>4. Fits(client, disk[client.user])
  BY <1>1, <1>3 DEF Fresh, Fits, PipelineFits, CallFits, IsOpen, IsStarted
<1>5. CallbacksArePending
  BY <1>1 DEF Fresh, CallbacksArePending
<1> QED
  BY <1>1, <1>4, <1>5 DEF Fresh, Streams

-----------------------------------------------------------------------------
(* Waits is inductive, given Types, Numbers and Streams.                   *)

(* The resumes, or the tokens, that a step leaves on their queue stand k   *)
(* places nearer to its front.                                             *)
ResumesMoveUp(k) ==
    \A i \in 1..Len(workQueue') : workQueue'[i].do = "resume" =>
        i + k \in 1..Len(workQueue) /\ workQueue'[i] = workQueue[i + k]
TokensMoveUp(k) ==
    \A i \in 1..Len(mainQueue') : mainQueue'[i].is = "token" =>
        i + k \in 1..Len(mainQueue) /\ mainQueue'[i] = mainQueue[i + k]

KeepsResumes == ResumesMoveUp(0) \/ ResumesMoveUp(1)
KeepsTokens == TokensMoveUp(0) \/ TokensMoveUp(1)

LEMMA ResumesOfMoves ==
    ASSUME Types,
           \/ UNCHANGED workQueue
           \/ workQueue # <<>> /\ workQueue' = Tail(workQueue)
           \/ \E t \in Task : t.do # "resume" /\ workQueue' = Append(workQueue, t)
    PROVE  KeepsResumes
<1>1. workQueue \in Seq(Task) /\ Len(workQueue) \in Nat
  BY DEF Types
<1>2. CASE UNCHANGED workQueue
  BY <1>1, <1>2 DEF KeepsResumes, ResumesMoveUp
<1>3. CASE workQueue # <<>> /\ workQueue' = Tail(workQueue)
  BY <1>1, <1>3, TailFacts DEF KeepsResumes, ResumesMoveUp
<1>4. ASSUME NEW t \in Task, t.do # "resume", workQueue' = Append(workQueue, t)
      PROVE  KeepsResumes
  <2>1. /\ Len(workQueue') = Len(workQueue) + 1
        /\ \A i \in 1..Len(workQueue) : workQueue'[i] = workQueue[i]
        /\ workQueue'[Len(workQueue) + 1] = t
    BY <1>1, <1>4, AppendFacts
  <2> QED
    BY <1>1, <1>4, <2>1 DEF KeepsResumes, ResumesMoveUp
<1> QED
  BY <1>2, <1>3, <1>4

LEMMA TokensOfMoves ==
    ASSUME Types,
           \/ UNCHANGED mainQueue
           \/ mainQueue # <<>> /\ mainQueue' = Tail(mainQueue)
           \/ \E n \in Notice : n.is # "token" /\ mainQueue' = Append(mainQueue, n)
    PROVE  KeepsTokens
<1>1. mainQueue \in Seq(Notice) /\ Len(mainQueue) \in Nat
  BY DEF Types
<1>2. CASE UNCHANGED mainQueue
  BY <1>1, <1>2 DEF KeepsTokens, TokensMoveUp
<1>3. CASE mainQueue # <<>> /\ mainQueue' = Tail(mainQueue)
  BY <1>1, <1>3, TailFacts DEF KeepsTokens, TokensMoveUp
<1>4. ASSUME NEW n \in Notice, n.is # "token", mainQueue' = Append(mainQueue, n)
      PROVE  KeepsTokens
  <2>1. /\ Len(mainQueue') = Len(mainQueue) + 1
        /\ \A i \in 1..Len(mainQueue) : mainQueue'[i] = mainQueue[i]
        /\ mainQueue'[Len(mainQueue) + 1] = n
    BY <1>1, <1>4, AppendFacts
  <2> QED
    BY <1>1, <1>4, <2>1 DEF KeepsTokens, TokensMoveUp
<1> QED
  BY <1>2, <1>3, <1>4

(* What a step makes of the stream, its close count and what it asked for. *)
StreamStays ==
    client'.close = client.close /\ client'.state = client.state /\ client'.asked = client.asked
StreamTurns ==
    /\ \/ client'.close = client.close /\ client.state # "starting"
       \/ client'.close = client.close + 1
    /\ \/ client'.asked = client.asked
       \/ client'.asked = client.asked \cup {Ask(client'.close)} /\ client'.state = "starting"

LEMMA WaitsWhenStays ==
    ASSUME Types, Waits, KeepsResumes, KeepsTokens, StreamStays
    PROVE  Waits'
<1>1. PICK k \in {0, 1} : ResumesMoveUp(k)
  BY DEF KeepsResumes
<1>2. PICK m \in {0, 1} : TokensMoveUp(m)
  BY DEF KeepsTokens
<1>3. /\ client'.close = client.close /\ client'.state = client.state /\ client'.asked = client.asked
  BY DEF StreamStays
<1>4. ASSUME NEW i \in 1..Len(workQueue'), workQueue'[i].do = "resume"
      PROVE  /\ i + k \in 1..Len(workQueue) /\ workQueue'[i] = workQueue[i + k]
             /\ ResumeAt(i + k)
  BY <1>1, <1>4 DEF ResumesMoveUp, ResumeAt
<1>5. ASSUME NEW i \in 1..Len(mainQueue'), mainQueue'[i].is = "token"
      PROVE  /\ i + m \in 1..Len(mainQueue) /\ mainQueue'[i] = mainQueue[i + m]
             /\ TokenAt(i + m)
  BY <1>2, <1>5 DEF TokensMoveUp, TokenAt
<1>6. ClosesCount'
  BY <1>3, <1>4, <1>5 DEF Waits, ClosesCount, ResumeAt, TokenAt
<1>7. ASSUME NEW i \in 1..Len(workQueue'), ResumeNow(i)'
      PROVE  i + k \in 1..Len(workQueue) /\ ResumeNow(i + k)
  BY <1>3, <1>4, <1>7 DEF ResumeNow, ResumeAt
<1>8. ASSUME NEW i \in 1..Len(mainQueue'), TokenNow(i)'
      PROVE  i + m \in 1..Len(mainQueue) /\ TokenNow(i + m)
  BY <1>3, <1>5, <1>8 DEF TokenNow, TokenAt
<1>9. ASSUME NEW a \in client'.asked PROVE a \in client.asked /\ (AskNow(a)' <=> AskNow(a))
  BY <1>3 DEF AskNow
<1>10. OnlyStartingWaits'
  BY <1>3, <1>7, <1>8, <1>9 DEF Waits, OnlyStartingWaits
<1>11. WaitsOnce'
  <2>1. \A a, b \in client'.asked : AskNow(a)' /\ AskNow(b)' => a = b
    BY <1>9 DEF Waits, WaitsOnce
  <2>2. \A a \in client'.asked, i \in 1..Len(mainQueue') : ~(AskNow(a)' /\ TokenNow(i)')
    BY <1>8, <1>9 DEF Waits, WaitsOnce
  <2>3. \A a \in client'.asked, i \in 1..Len(workQueue') : ~(AskNow(a)' /\ ResumeNow(i)')
    BY <1>7, <1>9 DEF Waits, WaitsOnce
  <2>4. \A i, j \in 1..Len(mainQueue') : TokenNow(i)' /\ TokenNow(j)' => i = j
    <3> TAKE i, j \in 1..Len(mainQueue')
    <3> HAVE TokenNow(i)' /\ TokenNow(j)'
    <3>1. i + m = j + m
      BY <1>8 DEF Waits, WaitsOnce
    <3> QED
      BY <3>1
  <2>5. \A i \in 1..Len(mainQueue'), j \in 1..Len(workQueue') : ~(TokenNow(i)' /\ ResumeNow(j)')
    BY <1>7, <1>8 DEF Waits, WaitsOnce
  <2>6. \A i, j \in 1..Len(workQueue') : ResumeNow(i)' /\ ResumeNow(j)' => i = j
    <3> TAKE i, j \in 1..Len(workQueue')
    <3> HAVE ResumeNow(i)' /\ ResumeNow(j)'
    <3>1. i + k = j + k
      BY <1>7 DEF Waits, WaitsOnce
    <3> QED
      BY <3>1
  <2> QED
    BY <2>1, <2>2, <2>3, <2>4, <2>5, <2>6 DEF WaitsOnce
<1> QED
  BY <1>6, <1>10, <1>11 DEF Waits

(* When the stream was closed, or nobody waited, there is one at most who  *)
(* waits then, the one just asked.                                         *)
LEMMA WaitsWhenTurns ==
    ASSUME Types, Waits, KeepsResumes, KeepsTokens, StreamTurns
    PROVE  Waits'
<1>1. PICK k \in {0, 1} : ResumesMoveUp(k)
  BY DEF KeepsResumes
<1>2. PICK m \in {0, 1} : TokensMoveUp(m)
  BY DEF KeepsTokens
<1>3. client.close \in Nat /\ client'.close \in Nat /\ client.close <= client'.close
  BY ClientSeqs DEF StreamTurns, Types
<1>4. ASSUME NEW i \in 1..Len(workQueue'), workQueue'[i].do = "resume"
      PROVE  workQueue'[i].close <= client'.close /\ workQueue'[i].close # client'.close
  <2>1. i + k \in 1..Len(workQueue) /\ workQueue'[i] = workQueue[i + k] /\ ResumeAt(i + k)
    BY <1>1, <1>4 DEF ResumesMoveUp, ResumeAt
  <2>2. workQueue[i + k].close \in Nat /\ workQueue[i + k].close <= client.close
    BY <1>4, <2>1, TaskKinds DEF Waits, ClosesCount, Types
  <2>3. client.state # "starting" => workQueue[i + k].close # client.close
    BY <2>1 DEF Waits, OnlyStartingWaits, ResumeNow
  <2> QED
    BY <1>3, <2>1, <2>2, <2>3 DEF StreamTurns
<1>5. ASSUME NEW i \in 1..Len(mainQueue'), mainQueue'[i].is = "token"
      PROVE  mainQueue'[i].ask.close <= client'.close /\ mainQueue'[i].ask.close # client'.close
  <2>1. i + m \in 1..Len(mainQueue) /\ mainQueue'[i] = mainQueue[i + m] /\ TokenAt(i + m)
    BY <1>2, <1>5 DEF TokensMoveUp, TokenAt
  <2>2. mainQueue[i + m].ask.close \in Nat /\ mainQueue[i + m].ask.close <= client.close
    BY <1>5, <2>1, NoticeKinds DEF Waits, ClosesCount, Types
  <2>3. client.state # "starting" => mainQueue[i + m].ask.close # client.close
    BY <2>1 DEF Waits, OnlyStartingWaits, TokenNow
  <2> QED
    BY <1>3, <2>1, <2>2, <2>3 DEF StreamTurns
<1>6. ASSUME NEW a \in client.asked
      PROVE  a.close <= client'.close /\ a.close # client'.close
  <2>1. a.close \in Nat /\ a.close <= client.close
    BY AskingTypes DEF Waits, ClosesCount
  <2>2. client.state # "starting" => a.close # client.close
    BY DEF Waits, OnlyStartingWaits, AskNow
  <2> QED
    BY <1>3, <2>1, <2>2 DEF StreamTurns
<1>7. ASSUME NEW a \in client'.asked
      PROVE  \/ a.close <= client'.close /\ a.close # client'.close
             \/ a = Ask(client'.close) /\ client'.state = "starting" /\ a.close = client'.close
  BY <1>6 DEF StreamTurns, Ask
<1>8. ClosesCount'
  BY <1>3, <1>4, <1>5, <1>7 DEF ClosesCount, ResumeAt, TokenAt
<1>9. \A i \in 1..Len(workQueue') : ~ResumeNow(i)'
  BY <1>4 DEF ResumeNow, ResumeAt
<1>10. \A i \in 1..Len(mainQueue') : ~TokenNow(i)'
  BY <1>5 DEF TokenNow, TokenAt
<1>11. \A a \in client'.asked : AskNow(a)' => a = Ask(client'.close) /\ client'.state = "starting"
  BY <1>7 DEF AskNow
<1>12. OnlyStartingWaits'
  BY <1>9, <1>10, <1>11 DEF OnlyStartingWaits
<1>13. WaitsOnce'
  BY <1>9, <1>10, <1>11 DEF WaitsOnce
<1> QED
  BY <1>8, <1>12, <1>13 DEF Waits

LEMMA WaitsOfReadUser ==
    ASSUME Types, Waits, NEW ask \in client.asked, ReadUser(ask)
    PROVE  Waits'
<1>1. /\ SameButAsked(client', client)
      /\ \E a \in Asking :
            /\ a.close = ask.close
            /\ client'.asked = (client.asked \ {ask}) \cup {a}
      /\ UNCHANGED <<mainQueue, workQueue>>
  BY ReadUserFields DEF auth
<1>2. PICK a \in Asking : a.close = ask.close /\ client'.asked = (client.asked \ {ask}) \cup {a}
  BY <1>1
<1>3. client'.close = client.close /\ client'.state = client.state
  BY <1>1 DEF SameButAsked
<1>4. ASSUME NEW x \in client'.asked
      PROVE  \/ x = a
             \/ x # ask /\ x \in client.asked /\ (AskNow(x)' <=> AskNow(x))
  BY <1>2, <1>3 DEF AskNow
<1>5. (AskNow(a)' <=> AskNow(ask)) /\ a \in client'.asked
  BY <1>2, <1>3 DEF AskNow
<1>6. \A i : (TokenNow(i)' <=> TokenNow(i)) /\ (ResumeNow(i)' <=> ResumeNow(i))
             /\ (TokenAt(i)' <=> TokenAt(i)) /\ (ResumeAt(i)' <=> ResumeAt(i))
  BY <1>1, <1>3 DEF TokenNow, TokenAt, ResumeNow, ResumeAt
<1>7. ClosesCount'
  BY <1>1, <1>2, <1>3, <1>6 DEF Waits, ClosesCount
<1>8. OnlyStartingWaits'
  BY <1>1, <1>3, <1>4, <1>5, <1>6 DEF Waits, OnlyStartingWaits
<1>9. WaitsOnce'
  <2>1. \A x, y \in client'.asked : AskNow(x)' /\ AskNow(y)' => x = y
    BY <1>4, <1>5 DEF Waits, WaitsOnce
  <2>2. \A x \in client'.asked, i \in 1..Len(mainQueue') : ~(AskNow(x)' /\ TokenNow(i)')
    BY <1>1, <1>4, <1>5, <1>6 DEF Waits, WaitsOnce
  <2>3. \A x \in client'.asked, i \in 1..Len(workQueue') : ~(AskNow(x)' /\ ResumeNow(i)')
    BY <1>1, <1>4, <1>5, <1>6 DEF Waits, WaitsOnce
  <2>4. /\ \A i, j \in 1..Len(mainQueue') : TokenNow(i)' /\ TokenNow(j)' => i = j
        /\ \A i \in 1..Len(mainQueue'), j \in 1..Len(workQueue') : ~(TokenNow(i)' /\ ResumeNow(j)')
        /\ \A i, j \in 1..Len(workQueue') : ResumeNow(i)' /\ ResumeNow(j)' => i = j
    BY <1>1, <1>6 DEF Waits, WaitsOnce
  <2> QED
    BY <2>1, <2>2, <2>3, <2>4 DEF WaitsOnce
<1> QED
  BY <1>7, <1>8, <1>9 DEF Waits

(* The answer takes the place of what was asked.                           *)
LEMMA WaitsOfAnswer ==
    ASSUME Types, Waits, NEW ask \in client.asked, FetchToken(ask) \/ TokenFails(ask)
    PROVE  Waits'
<1>1. PICK a : Answers(ask, a)
  BY AnswerFields
<1>2. /\ client'.close = client.close /\ client'.state = client.state
      /\ client'.asked = client.asked \ {ask}
      /\ a \in Answer /\ a.close = ask.close
      /\ mainQueue' = Append(mainQueue, Token(a)) /\ workQueue' = workQueue
  BY <1>1 DEF Answers, SameButAsked
<1> DEFINE n == Len(mainQueue)
<1>3. /\ n \in Nat /\ Len(mainQueue') = n + 1
      /\ \A i \in 1..n : mainQueue'[i] = mainQueue[i]
      /\ mainQueue'[n + 1].is = "token" /\ mainQueue'[n + 1].ask = a
  <2>1. Token(a) \in Notice /\ Token(a).is = "token" /\ Token(a).ask = a
    BY <1>2, NoticeTypes
  <2> QED
    BY <1>2, <2>1, AppendFacts DEF Types
<1> HIDE DEF n
<1>4. ASSUME NEW i \in 1..Len(mainQueue')
      PROVE  \/ i = n + 1 /\ (TokenNow(i)' <=> AskNow(ask)) /\ (TokenAt(i)' => mainQueue'[i].ask.close = ask.close)
             \/ /\ i \in 1..n /\ i \in 1..Len(mainQueue)
                /\ (TokenNow(i)' <=> TokenNow(i)) /\ (TokenAt(i)' <=> TokenAt(i))
                /\ mainQueue'[i] = mainQueue[i]
  <2>1. CASE i = n + 1
    BY <1>2, <1>3, <2>1 DEF TokenNow, TokenAt, AskNow
  <2>2. CASE i \in 1..n
    <3>1. mainQueue'[i] = mainQueue[i] /\ i \in 1..Len(mainQueue)
      BY <1>3, <2>2 DEF n
    <3> QED
      BY <1>2, <2>2, <3>1 DEF TokenNow, TokenAt
  <2> QED
    BY <1>3, <2>1, <2>2
<1>5. ASSUME NEW x \in client'.asked
      PROVE  x # ask /\ x \in client.asked /\ (AskNow(x)' <=> AskNow(x))
  BY <1>2 DEF AskNow
<1>6. \A i : (ResumeNow(i)' <=> ResumeNow(i)) /\ (ResumeAt(i)' <=> ResumeAt(i))
  BY <1>2 DEF ResumeNow, ResumeAt
<1>7. ClosesCount'
  BY <1>2, <1>4, <1>5, <1>6 DEF Waits, ClosesCount
<1>8. OnlyStartingWaits'
  BY <1>2, <1>4, <1>5, <1>6 DEF Waits, OnlyStartingWaits
<1>9. WaitsOnce'
  <2>1. \A x, y \in client'.asked : AskNow(x)' /\ AskNow(y)' => x = y
    BY <1>5 DEF Waits, WaitsOnce
  <2>2. \A x \in client'.asked, i \in 1..Len(mainQueue') : ~(AskNow(x)' /\ TokenNow(i)')
    BY <1>4, <1>5 DEF Waits, WaitsOnce
  <2>3. \A x \in client'.asked, i \in 1..Len(workQueue') : ~(AskNow(x)' /\ ResumeNow(i)')
    BY <1>2, <1>5, <1>6 DEF Waits, WaitsOnce
  <2>4. \A i, j \in 1..Len(mainQueue') : TokenNow(i)' /\ TokenNow(j)' => i = j
    BY <1>4 DEF Waits, WaitsOnce
  <2>5. \A i \in 1..Len(mainQueue'), j \in 1..Len(workQueue') : ~(TokenNow(i)' /\ ResumeNow(j)')
    BY <1>2, <1>4, <1>6 DEF Waits, WaitsOnce
  <2>6. \A i, j \in 1..Len(workQueue') : ResumeNow(i)' /\ ResumeNow(j)' => i = j
    BY <1>2, <1>6 DEF Waits, WaitsOnce
  <2> QED
    BY <2>1, <2>2, <2>3, <2>4, <2>5, <2>6 DEF WaitsOnce
<1> QED
  BY <1>7, <1>8, <1>9 DEF Waits

(* The provider asks again, or hands the token to the worker queue.        *)
LEMMA WaitsOfRunToken ==
    ASSUME Types, Waits, RunToken
    PROVE  Waits'
<1> DEFINE ask == mainQueue[1].ask
           t == ResumeTask(ask.user, ask.close)
           n == Len(workQueue)
<1>1. /\ mainQueue # <<>> /\ mainQueue' = Tail(mainQueue) /\ mainQueue[1].is = "token"
      /\ ask \in Answer
      /\ SameButAsked(client', client)
      /\ \/ client'.asked = client.asked \cup {Ask(ask.close)} /\ UNCHANGED workQueue
         \/ client'.asked = client.asked /\ workQueue' = Append(workQueue, t)
  BY RunTokenFields
<1>2. client'.close = client.close /\ client'.state = client.state
  BY <1>1 DEF SameButAsked
<1>3. /\ Len(mainQueue) \in Nat \ {0} /\ Len(mainQueue') = Len(mainQueue) - 1
      /\ \A i \in 1..Len(mainQueue') : mainQueue'[i] = mainQueue[i + 1] /\ i + 1 \in 1..Len(mainQueue)
  BY <1>1, TailFacts DEF Types
<1>4. 1 \in 1..Len(mainQueue) /\ TokenAt(1) /\ (TokenNow(1) <=> ask.close = client.close)
  BY <1>1, <1>3 DEF TokenNow, TokenAt
<1>5. ASSUME NEW i \in 1..Len(mainQueue')
      PROVE  /\ i + 1 \in 1..Len(mainQueue) /\ i + 1 # 1 /\ mainQueue'[i] = mainQueue[i + 1]
             /\ (TokenNow(i)' <=> TokenNow(i + 1)) /\ (TokenAt(i)' <=> TokenAt(i + 1))
  <2>1. i + 1 \in 1..Len(mainQueue) /\ i + 1 # 1 /\ mainQueue'[i] = mainQueue[i + 1]
    BY <1>3
  <2> QED
    BY <1>2, <2>1 DEF TokenNow, TokenAt
<1>6. \A i, j \in 1..Len(mainQueue') : TokenNow(i)' /\ TokenNow(j)' => i = j
  <2> TAKE i, j \in 1..Len(mainQueue')
  <2> HAVE TokenNow(i)' /\ TokenNow(j)'
  <2>1. i + 1 = j + 1
    BY <1>5 DEF Waits, WaitsOnce
  <2> QED
    BY <2>1
<1>7. ask.close <= client.close
  BY <1>4 DEF Waits, ClosesCount
<1>8. CASE client'.asked = client.asked \cup {Ask(ask.close)} /\ UNCHANGED workQueue
  <2>7. PICK again : again = Ask(ask.close)
    OBVIOUS
  <2>8. again.close = ask.close /\ again \in client'.asked
    BY <1>8, <2>7 DEF Ask
  <2>1. again.close = ask.close /\ (AskNow(again)' <=> TokenNow(1))
    BY <1>2, <1>4, <2>8 DEF AskNow
  <2>2. ASSUME NEW x \in client'.asked
        PROVE  x = again \/ (x \in client.asked /\ (AskNow(x)' <=> AskNow(x)))
    BY <1>2, <1>8, <2>7 DEF AskNow
  <2>3. \A i : (ResumeNow(i)' <=> ResumeNow(i)) /\ (ResumeAt(i)' <=> ResumeAt(i))
    BY <1>2, <1>8 DEF ResumeNow, ResumeAt
  <2>4. ClosesCount'
    BY <1>2, <1>5, <1>7, <1>8, <2>1, <2>2, <2>3 DEF Waits, ClosesCount
  <2>5. OnlyStartingWaits'
    BY <1>2, <1>4, <1>5, <1>8, <2>1, <2>2, <2>3 DEF Waits, OnlyStartingWaits
  <2>6. WaitsOnce'
    <3>1. \A x, y \in client'.asked : AskNow(x)' /\ AskNow(y)' => x = y
      BY <1>4, <2>1, <2>2 DEF Waits, WaitsOnce
    <3>2. \A x \in client'.asked, i \in 1..Len(mainQueue') : ~(AskNow(x)' /\ TokenNow(i)')
      BY <1>4, <1>5, <2>1, <2>2 DEF Waits, WaitsOnce
    <3>3. \A x \in client'.asked, i \in 1..Len(workQueue') : ~(AskNow(x)' /\ ResumeNow(i)')
      BY <1>4, <1>8, <2>1, <2>2, <2>3 DEF Waits, WaitsOnce
    <3>4. \A i \in 1..Len(mainQueue'), j \in 1..Len(workQueue') : ~(TokenNow(i)' /\ ResumeNow(j)')
      BY <1>5, <1>8, <2>3 DEF Waits, WaitsOnce
    <3>5. \A i, j \in 1..Len(workQueue') : ResumeNow(i)' /\ ResumeNow(j)' => i = j
      BY <1>8, <2>3 DEF Waits, WaitsOnce
    <3> QED
      BY <1>6, <3>1, <3>2, <3>3, <3>4, <3>5 DEF WaitsOnce
  <2> QED
    BY <2>4, <2>5, <2>6 DEF Waits
<1>9. CASE client'.asked = client.asked /\ workQueue' = Append(workQueue, t)
  <2>1. /\ n \in Nat /\ Len(workQueue') = n + 1
        /\ \A i \in 1..n : workQueue'[i] = workQueue[i]
        /\ workQueue'[n + 1].do = "resume" /\ workQueue'[n + 1].close = ask.close
    <3>1. t \in Task /\ t.do = "resume" /\ t.close = ask.close
      BY <1>1, TaskTypes DEF Answer
    <3> HIDE DEF t
    <3> QED
      BY <1>9, <3>1, AppendFacts DEF Types
  <2> HIDE DEF n
  <2>2. ASSUME NEW i \in 1..Len(workQueue')
        PROVE  \/ i = n + 1 /\ (ResumeNow(i)' <=> TokenNow(1)) /\ workQueue'[i].close = ask.close
               \/ /\ i \in 1..n /\ i \in 1..Len(workQueue)
                  /\ (ResumeNow(i)' <=> ResumeNow(i)) /\ (ResumeAt(i)' <=> ResumeAt(i))
                  /\ workQueue'[i] = workQueue[i]
    <3>1. CASE i = n + 1
      BY <1>2, <1>4, <2>1, <3>1 DEF ResumeNow, ResumeAt
    <3>2. CASE i \in 1..n
      <4>1. workQueue'[i] = workQueue[i] /\ i \in 1..Len(workQueue)
        BY <2>1, <3>2 DEF n
      <4> QED
        BY <1>2, <3>2, <4>1 DEF ResumeNow, ResumeAt
    <3> QED
      BY <2>1, <3>1, <3>2
  <2>3. \A x \in client'.asked : x \in client.asked /\ (AskNow(x)' <=> AskNow(x))
    BY <1>2, <1>9 DEF AskNow
  <2>4. ClosesCount'
    BY <1>2, <1>5, <1>7, <2>2, <2>3 DEF Waits, ClosesCount
  <2>5. OnlyStartingWaits'
    BY <1>2, <1>4, <1>5, <2>2, <2>3 DEF Waits, OnlyStartingWaits
  <2>6. WaitsOnce'
    <3>1. \A x, y \in client'.asked : AskNow(x)' /\ AskNow(y)' => x = y
      BY <2>3 DEF Waits, WaitsOnce
    <3>2. \A x \in client'.asked, i \in 1..Len(mainQueue') : ~(AskNow(x)' /\ TokenNow(i)')
      BY <1>5, <2>3 DEF Waits, WaitsOnce
    <3>3. \A x \in client'.asked, i \in 1..Len(workQueue') : ~(AskNow(x)' /\ ResumeNow(i)')
      BY <1>4, <2>2, <2>3 DEF Waits, WaitsOnce
    <3>4. \A i \in 1..Len(mainQueue'), j \in 1..Len(workQueue') : ~(TokenNow(i)' /\ ResumeNow(j)')
      BY <1>4, <1>5, <2>2 DEF Waits, WaitsOnce
    <3>5. \A i, j \in 1..Len(workQueue') : ResumeNow(i)' /\ ResumeNow(j)' => i = j
      BY <1>4, <2>2 DEF Waits, WaitsOnce
    <3> QED
      BY <1>6, <3>1, <3>2, <3>3, <3>4, <3>5 DEF WaitsOnce
  <2> QED
    BY <2>4, <2>5, <2>6 DEF Waits
<1> QED
  BY <1>1, <1>8, <1>9

(* The stream goes on with the token: nobody waits for one any more.       *)
LEMMA WaitsOfResume ==
    ASSUME Types, Waits, workQueue # <<>>, workQueue' = Tail(workQueue), UNCHANGED mainQueue,
           workQueue[1].do = "resume", workQueue[1].close = client.close,
           client'.close = client.close, client'.asked = client.asked
    PROVE  Waits'
<1>1. /\ Len(workQueue) \in Nat \ {0} /\ Len(workQueue') = Len(workQueue) - 1
      /\ \A i \in 1..Len(workQueue') : workQueue'[i] = workQueue[i + 1] /\ i + 1 \in 1..Len(workQueue)
  BY TailFacts DEF Types
<1>2. ResumeNow(1) /\ 1 \in 1..Len(workQueue)
  BY <1>1 DEF ResumeNow, ResumeAt
<1>3. ASSUME NEW i \in 1..Len(workQueue')
      PROVE  /\ i + 1 \in 1..Len(workQueue) /\ i + 1 # 1 /\ workQueue'[i] = workQueue[i + 1]
             /\ (ResumeNow(i)' <=> ResumeNow(i + 1)) /\ (ResumeAt(i)' <=> ResumeAt(i + 1))
  <2>1. i + 1 \in 1..Len(workQueue) /\ i + 1 # 1 /\ workQueue'[i] = workQueue[i + 1]
    BY <1>1
  <2> QED
    BY <2>1 DEF ResumeNow, ResumeAt
<1>4. \A i : (TokenNow(i)' <=> TokenNow(i)) /\ (TokenAt(i)' <=> TokenAt(i))
  BY DEF TokenNow, TokenAt
<1>5. \A a : AskNow(a)' <=> AskNow(a)
  BY DEF AskNow
<1>6. \A i \in 1..Len(workQueue') : ~ResumeNow(i)'
  BY <1>2, <1>3 DEF Waits, WaitsOnce
<1>7. \A i \in 1..Len(mainQueue') : ~TokenNow(i)'
  BY <1>2, <1>4 DEF Waits, WaitsOnce
<1>8. \A a \in client'.asked : ~AskNow(a)'
  BY <1>2, <1>5 DEF Waits, WaitsOnce
<1>9. ClosesCount'
  BY <1>3, <1>4 DEF Waits, ClosesCount
<1>10. OnlyStartingWaits' /\ WaitsOnce'
  BY <1>6, <1>7, <1>8 DEF OnlyStartingWaits, WaitsOnce
<1> QED
  BY <1>9, <1>10 DEF Waits

LEMMA WaitsOfRestart ==
    ASSUME Types, Numbers, Restart
    PROVE  Waits'
<1>1. mainQueue' = <<>> /\ workQueue' = <<>>
  BY DEF Restart
<1>2. PICK d \in Client : Fresh(d, authUser) /\ Fills(client', d, disk[authUser])
  BY RestartFields DEF Numbers
<1>3. d.close = 0 /\ d.asked = {} /\ d.state = "initial"
  BY <1>2 DEF Fresh
<1>4. /\ client'.close = 0
      /\ \/ client'.asked = {}
         \/ client'.state = "starting" /\ client'.asked = {Ask(0)}
  BY <1>2, <1>3 DEF Fills, FilledWith, Begins
<1>5. PICK ask : ask = Ask(0)
  OBVIOUS
<1>6. ask.close = 0
  BY <1>5 DEF Ask
<1>7. \A a \in client'.asked : a = ask /\ client'.state = "starting"
  BY <1>4, <1>5
<1>8. ClosesCount'
  BY <1>1, <1>4, <1>6, <1>7 DEF ClosesCount
<1>9. OnlyStartingWaits' /\ WaitsOnce'
  BY <1>1, <1>7 DEF OnlyStartingWaits, WaitsOnce
<1> QED
  BY <1>8, <1>9 DEF Waits

LEMMA BeginsMoves ==
    ASSUME NEW d, Begins(client', d), client'.close = d.close, d.asked = client.asked,
           \/ d.close = client.close /\ (d.state = client.state \/ client.state # "starting")
           \/ d.close = client.close + 1
    PROVE  StreamStays \/ StreamTurns
BY DEF Begins, StreamStays, StreamTurns

LEMMA StopsMoves ==
    ASSUME Stops(client', client),
           client'.state = (IF IsStarted(client) THEN "initial" ELSE client.state)
    PROVE  StreamStays \/ StreamTurns
BY DEF Stops, Closes, StreamStays, StreamTurns

LEMMA AfreshMoves ==
    ASSUME NEW s, NEW d, SameStream(s, client), Afresh(d, s), NEW queue, Fills(client', d, queue)
    PROVE  StreamStays \/ StreamTurns
<1>1. /\ Begins(client', d) /\ client'.close = d.close
      /\ s.close = client.close /\ s.asked = client.asked /\ s.state = client.state
      /\ Stops(d, s)
  BY DEF Fills, FilledWith, SameStream, Afresh
<1>2. d.asked = client.asked
  BY <1>1 DEF Stops, Closes
<1>3. CASE IsStarted(s)
  <2>1. d.close = client.close + 1
    BY <1>1, <1>3 DEF Stops, Closes
  <2> QED
    BY <1>1, <1>2, <2>1, BeginsMoves
<1>4. CASE ~IsStarted(s)
  <2>1. d.close = client.close /\ client.state # "starting"
    BY <1>1, <1>4 DEF Stops, IsStarted
  <2> QED
    BY <1>1, <1>2, <2>1, BeginsMoves
<1> QED
  BY <1>3, <1>4

(* What the call ends with, the stream turns.                              *)
LEMMA CallEndsMoves ==
    ASSUME Types, Numbers, PipelineFits(client, disk[client.user]), NEW status, CallEnds(status)
    PROVE  StreamStays \/ StreamTurns
<1>1. CASE Rejects(status)
  <2> DEFINE front == Head(client.pipeline)
  <2>1. PICK d \in Client : RejectionLeaves(d, front) /\ Fills(client', d, disk'[client.user])
    BY <1>1, RejectionFields DEF Numbers
  <2>2. /\ d.close = client.close + 1 /\ d.asked = client.asked
        /\ Begins(client', d) /\ client'.close = d.close
    BY <2>1 DEF RejectionLeaves, Fills, FilledWith
  <2> QED
    BY <2>2, BeginsMoves
<1>2. CASE ~Rejects(status)
  <2>1. PICK d \in Client :
              /\ BreakLeaves(d)
              /\ SameEngine(client', d) /\ SameCall(client', d) /\ Begins(client', d)
              /\ client'.network = d.network /\ client'.pipeline = d.pipeline
              /\ client'.idle = d.idle /\ client'.close = d.close
    BY <1>2, BreakFields
  <2>2. d.close = client.close + 1 /\ d.asked = client.asked
    BY <2>1 DEF BreakLeaves, Closes
  <2> QED
    BY <2>1, <2>2, BeginsMoves
<1> QED
  BY <1>1, <1>2

(* The worker queue's tasks, but for the resume.                           *)
LEMMA WorkerMoves ==
    ASSUME Types, Numbers, PipelineFits(client, disk[client.user]), RunWorkQueue, ~RunResume
    PROVE  /\ StreamStays \/ StreamTurns
           /\ workQueue # <<>> /\ workQueue' = Tail(workQueue) /\ UNCHANGED mainQueue
<1>1. workQueue # <<>> /\ workQueue' = Tail(workQueue) /\ UNCHANGED mainQueue
  BY DEF RunWorkQueue, RunWrite, RunCredential, RunDisable, RunEnable, RunConnectivity, RunWait,
     Runs, Dequeue, auth
<1>2. CASE RunWrite
  <2> DEFINE b == [id |-> client.nextId, write |-> Head(workQueue).write, user |-> client.user]
  <2>1. PICK d \in Client : WriteLeaves(d, b) /\ Fills(client', d, disk'[client.user])
    BY <1>2, RunWriteFields
  <2>2. /\ d.close = client.close /\ d.state = client.state /\ d.asked = client.asked
        /\ Begins(client', d) /\ client'.close = d.close
    BY <2>1 DEF WriteLeaves, SameStream, Fills, FilledWith
  <2> QED
    BY <1>1, <2>2, BeginsMoves
<1>3. CASE RunCredential
  <2> DEFINE u == Head(workQueue).user
  <2>1. PICK s \in Client :
              /\ SwapLeaves(s, u)
              /\ \/ ~client.network /\ client' = s
                 \/ \E d \in Client : Afresh(d, s) /\ Fills(client', d, disk[u])
    BY <1>3, RunCredentialFields DEF Numbers
  <2>2. SameStream(s, client)
    BY <2>1 DEF SwapLeaves
  <2>3. CASE client' = s
    BY <1>1, <2>2, <2>3 DEF SameStream, StreamStays
  <2>4. CASE \E d \in Client : Afresh(d, s) /\ Fills(client', d, disk[u])
    BY <1>1, <2>2, <2>4, AfreshMoves
  <2> QED
    BY <2>1, <2>3, <2>4
<1>4. CASE RunDisable
  BY <1>1, <1>4, RunDisableFields, StopsMoves
<1>5. CASE RunEnable
  <2>1. PICK d \in Client : EnableLeaves(d) /\ Fills(client', d, disk[client.user])
    BY <1>5, RunEnableFields DEF Numbers
  <2>2. /\ d.close = client.close /\ d.state = client.state /\ d.asked = client.asked
        /\ Begins(client', d) /\ client'.close = d.close
    BY <2>1 DEF EnableLeaves, Fills, FilledWith
  <2> QED
    BY <1>1, <2>2, BeginsMoves
<1>6. CASE RunConnectivity
  <2>1. \/ UNCHANGED client
        \/ \E d \in Client : Afresh(d, client) /\ Fills(client', d, disk[client.user])
    BY <1>6, RunConnectivityFields DEF Numbers
  <2>2. SameStream(client, client)
    BY DEF SameStream
  <2>3. CASE UNCHANGED client
    BY <1>1, <2>3 DEF StreamStays
  <2> QED
    BY <1>1, <2>1, <2>2, <2>3, AfreshMoves
<1>7. CASE RunWait
  BY <1>1, <1>7, RunWaitFields DEF SameStream, StreamStays
<1> QED
  BY <1>2, <1>3, <1>4, <1>5, <1>6, <1>7 DEF RunWorkQueue

LEMMA WaitsOfRunResume ==
    ASSUME Types, Numbers, PipelineFits(client, disk[client.user]), Waits, RunResume
    PROVE  Waits'
<1>1. /\ workQueue # <<>> /\ workQueue' = Tail(workQueue) /\ workQueue[1].do = "resume"
      /\ UNCHANGED mainQueue
      /\ \/ workQueue[1].close # client.close /\ UNCHANGED client
         \/ CallEnds("unknown")
         \/ workQueue[1].close = client.close /\ ResumeOpens(workQueue[1].token)
  BY RunResumeFields DEF auth
<1>2. KeepsResumes /\ KeepsTokens
  BY <1>1, ResumesOfMoves, TokensOfMoves
<1>3. CASE UNCHANGED client
  BY <1>2, <1>3, WaitsWhenStays DEF StreamStays
<1>4. CASE CallEnds("unknown")
  BY <1>2, <1>4, CallEndsMoves, WaitsWhenStays, WaitsWhenTurns
<1>5. CASE workQueue[1].close = client.close /\ ResumeOpens(workQueue[1].token)
  BY <1>1, <1>5, WaitsOfResume DEF ResumeOpens
<1> QED
  BY <1>1, <1>3, <1>4, <1>5

LEMMA WaitsStep ==
    ASSUME Types, Numbers, PipelineFits(client, disk[client.user]), Waits, [Next]_vars
    PROVE  Waits'
<1>1. ASSUME KeepsResumes, KeepsTokens, StreamStays \/ StreamTurns
      PROVE  Waits'
  BY <1>1, WaitsWhenStays, WaitsWhenTurns
<1>2. UNCHANGED <<mainQueue, workQueue>> => KeepsResumes /\ KeepsTokens
  BY ResumesOfMoves, TokensOfMoves
<1>3. UNCHANGED client => StreamStays
  BY DEF StreamStays
<1>4. CASE UNCHANGED vars
  BY <1>1, <1>2, <1>3, <1>4 DEF vars, auth
<1>5. CASE IssueWrite
  <2>1. issued + 1 \in Write
    BY <1>5, BoundAssumption DEF IssueWrite, Types, Write
  <2>2. workQueue' = Append(workQueue, WriteTask(issued + 1)) /\ UNCHANGED <<mainQueue, client>>
    BY <1>5 DEF IssueWrite, auth
  <2>3. WriteTask(issued + 1) \in Task /\ WriteTask(issued + 1).do # "resume"
    BY <2>1, TaskTypes
  <2>4. KeepsResumes
    BY <2>2, <2>3, ResumesOfMoves
  <2>5. KeepsTokens
    BY <2>2, TokensOfMoves
  <2> QED
    BY <1>1, <1>3, <2>2, <2>4, <2>5
<1>6. CASE CallNetwork \/ CallEnableNetwork
  <2>1. PICK what \in {"disable", "enable", "wait", "connectivity"} :
            workQueue' = Append(workQueue, NetworkTask(what))
    BY <1>6 DEF CallNetwork, CallEnableNetwork
  <2>2. NetworkTask(what) \in Task /\ NetworkTask(what).do # "resume"
    BY TaskTypes
  <2>3. UNCHANGED <<mainQueue, client>>
    BY <1>6 DEF CallNetwork, CallEnableNetwork, auth
  <2>4. KeepsResumes
    BY <2>1, <2>2, ResumesOfMoves
  <2>5. KeepsTokens
    BY <2>3, TokensOfMoves
  <2> QED
    BY <1>1, <1>3, <2>3, <2>4, <2>5
<1>7. CASE Restart
  BY <1>7, WaitsOfRestart
<1>8. ASSUME NEW u \in User, ChangeUser(u)
      PROVE  Waits'
  <2>1. mainQueue' = Append(mainQueue, Posted(u)) /\ UNCHANGED <<workQueue, client>>
    BY <1>8 DEF ChangeUser
  <2>2. Posted(u) \in Notice /\ Posted(u).is # "token"
    BY NoticeTypes
  <2>3. KeepsTokens
    BY <2>1, <2>2, TokensOfMoves
  <2>4. KeepsResumes
    BY <2>1, ResumesOfMoves
  <2> QED
    BY <1>1, <1>3, <2>1, <2>3, <2>4
<1>9. ASSUME NEW ask \in client.asked, ReadUser(ask) \/ FetchToken(ask) \/ TokenFails(ask)
      PROVE  Waits'
  BY <1>9, WaitsOfReadUser, WaitsOfAnswer
<1>10. CASE RunPosted
  <2>1. /\ mainQueue # <<>> /\ mainQueue' = Tail(mainQueue) /\ UNCHANGED client
        /\ mainQueue[1].user \in User
        /\ workQueue' = Append(workQueue, CredentialTask(mainQueue[1].user))
    BY <1>10, RunPostedFields
  <2>2. /\ CredentialTask(mainQueue[1].user) \in Task
        /\ CredentialTask(mainQueue[1].user).do # "resume"
    BY <2>1, TaskTypes
  <2>3. KeepsResumes
    BY <2>1, <2>2, ResumesOfMoves
  <2>4. KeepsTokens
    BY <2>1, TokensOfMoves
  <2> QED
    BY <1>1, <1>3, <2>1, <2>3, <2>4
<1>11. CASE RunToken
  BY <1>11, WaitsOfRunToken
<1>12. CASE RunWorkQueue /\ ~RunResume
  BY <1>1, <1>12, WorkerMoves, ResumesOfMoves, TokensOfMoves
<1>13. CASE RunResume
  BY <1>13, WaitsOfRunResume
<1>14. CASE BackoffElapsed
  <2>1. UNCHANGED <<mainQueue, workQueue>> /\ StreamTurns
    BY <1>14, BackoffElapsedFields DEF auth, StreamTurns
  <2> QED
    BY <1>1, <1>2, <2>1
<1>15. CASE IdleElapsed
  <2>1. UNCHANGED <<mainQueue, workQueue>> /\ (StreamStays \/ StreamTurns)
    BY <1>15, IdleElapsedFields, StopsMoves DEF auth
  <2> QED
    BY <1>1, <1>2, <2>1
<1>16. CASE MutationResult
  <2> DEFINE front == Head(client.pipeline)
  <2>1. PICK d \in Client : MutationResultLeaves(d, front) /\ Fills(client', d, disk'[client.user])
    BY <1>16, MutationResultFields DEF Numbers
  <2>2. /\ d.close = client.close /\ d.state = client.state /\ d.asked = client.asked
        /\ Begins(client', d) /\ client'.close = d.close
    BY <2>1 DEF MutationResultLeaves, Fills, FilledWith
  <2>3. UNCHANGED <<mainQueue, workQueue>>
    BY <1>16 DEF MutationResult, auth
  <2> QED
    BY <1>1, <1>2, <2>2, <2>3, BeginsMoves
<1>17. ASSUME NEW status, CallEnds(status), UNCHANGED <<mainQueue, workQueue>>
       PROVE  Waits'
  BY <1>1, <1>2, <1>17, CallEndsMoves
<1>18. CASE CallEnded \/ CallBreaks
  BY <1>17, <1>18 DEF CallEnded, CallBreaks, auth
<1>19. CASE \/ HandshakeComplete \/ ServerAnswers \/ ServerRefuses
            \/ ServerTakesLate \/ ServerNeverTakesLate
  <2>1. UNCHANGED <<mainQueue, workQueue>> /\ StreamStays
    BY <1>19, HandshakeFields, ServerAnswersFields, ServerRefusesFields, TakesLateFields,
       NeverTakesLateFields DEF auth, SameStream, StreamStays
  <2> QED
    BY <1>1, <1>2, <2>1
<1> QED
  BY <1>4, <1>5, <1>6, <1>7, <1>8, <1>9, <1>10, <1>11, <1>12, <1>13, <1>14, <1>15, <1>16, <1>18,
     <1>19 DEF Next, RunMainQueue, RunWorkQueue

LEMMA WaitsInit == Init => Waits
<1> SUFFICES ASSUME Init PROVE Waits
  OBVIOUS
<1>1. client.asked = {} /\ mainQueue = <<>> /\ workQueue = <<>>
  BY InitialClient DEF Init, Fresh
<1> QED
  BY <1>1 DEF Waits, ClosesCount, OnlyStartingWaits, WaitsOnce

-----------------------------------------------------------------------------
(* Users is inductive, given Types, Numbers and Streams.                   *)

(* The start that the stream begins, if any, asks for a token.             *)
AskedAgain ==
    \A a \in client'.asked : \/ a \in client.asked
                             \/ a.user = NoToken /\ a.counter = provider.counter

LEMMA AskedOfMoves ==
    ASSUME StreamStays \/ StreamTurns
    PROVE  AskedAgain
BY DEF StreamStays, StreamTurns, AskedAgain, Ask

(* Whether the stream is open, with which token and for whom.              *)
StaysSignedIn ==
    /\ client'.user = client.user
    /\ IsOpen(client') => IsOpen(client) /\ client'.token = client.token

(* What a step does that is not one of FIRAuth's, of the main queue's or   *)
(* the app's.                                                              *)
LEMMA SignedInOfCallEnds ==
    ASSUME Types, Numbers, PipelineFits(client, disk[client.user]), NEW status, CallEnds(status)
    PROVE  StaysSignedIn /\ AskedAgain
<1>1. AskedAgain
  BY CallEndsMoves, AskedOfMoves
<1>2. CASE Rejects(status)
  <2> DEFINE front == Head(client.pipeline)
  <2>1. PICK d \in Client : RejectionLeaves(d, front) /\ Fills(client', d, disk'[client.user])
    BY <1>2, RejectionFields DEF Numbers
  <2>2. d.user = client.user /\ d.state = "initial" /\ Begins(client', d) /\ client'.user = d.user
    BY <2>1 DEF RejectionLeaves, Settles, Fills, FilledWith, SameEngine
  <2> QED
    BY <1>1, <2>2 DEF StaysSignedIn, Begins, IsOpen
<1>3. CASE ~Rejects(status)
  <2>1. PICK d \in Client :
              /\ BreakLeaves(d)
              /\ SameEngine(client', d) /\ SameCall(client', d) /\ Begins(client', d)
              /\ client'.network = d.network /\ client'.pipeline = d.pipeline
              /\ client'.idle = d.idle /\ client'.close = d.close
    BY <1>3, BreakFields
  <2>2. d.user = client.user /\ d.state = "error" /\ Begins(client', d) /\ client'.user = d.user
    BY <2>1 DEF BreakLeaves, Closes, SameEngine
  <2> QED
    BY <1>1, <2>2 DEF StaysSignedIn, Begins, IsOpen
<1> QED
  BY <1>2, <1>3

LEMMA SignedInOfFill ==
    ASSUME NEW d, NEW queue, Fills(client', d, queue), d.user = client.user,
           \/ d.state = client.state /\ d.token = client.token
           \/ ~IsOpen(d)
    PROVE  StaysSignedIn
BY DEF Fills, FilledWith, SameEngine, Begins, StaysSignedIn, IsOpen

LEMMA SignedInOfStops ==
    ASSUME Stops(client', client),
           client'.state = (IF IsStarted(client) THEN "initial" ELSE client.state)
    PROVE  StaysSignedIn
BY DEF Stops, Closes, SameEngine, StaysSignedIn, IsOpen, IsStarted

(* The user of a client that was restarted, or goes over to another user.  *)
LEMMA SignedInOfRestart ==
    ASSUME Types, Numbers, Restart
    PROVE  client'.user = authUser /\ ~IsOpen(client')
<1>1. PICK d \in Client : Fresh(d, authUser) /\ Fills(client', d, disk[authUser])
  BY RestartFields DEF Numbers
<1> QED
  BY <1>1 DEF Fresh, Fills, FilledWith, SameEngine, Begins, IsOpen

LEMMA SignedInOfCredential ==
    ASSUME Types, Numbers, PipelineFits(client, disk[client.user]), RunCredential
    PROVE  client'.user = workQueue[1].user /\ workQueue[1].do = "credential" /\ ~IsOpen(client')
<1> DEFINE u == Head(workQueue).user
<1>1. workQueue[1].do = "credential" /\ u = workQueue[1].user
  BY RunCredentialFields DEF Numbers
<1>2. PICK s \in Client :
            /\ SwapLeaves(s, u)
            /\ \/ ~client.network /\ client' = s
               \/ \E d \in Client : Afresh(d, s) /\ Fills(client', d, disk[u])
  BY RunCredentialFields DEF Numbers
<1>3. s.user = u /\ s.state = client.state
  BY <1>2 DEF SwapLeaves, SameStream
<1>4. CASE ~client.network /\ client' = s
  BY <1>1, <1>3, <1>4 DEF PipelineFits, IsStarted, IsOpen
<1>5. ASSUME NEW d \in Client, Afresh(d, s), Fills(client', d, disk[u])
      PROVE  client'.user = u /\ ~IsOpen(client')
  BY <1>3, <1>5 DEF Afresh, Stops, Closes, Fills, FilledWith, SameEngine, Begins, IsOpen
<1> QED
  BY <1>1, <1>2, <1>4, <1>5

LEMMA SignedInOfWorker ==
    ASSUME Types, Numbers, PipelineFits(client, disk[client.user]), RunWorkQueue,
           ~RunResume, ~RunCredential
    PROVE  StaysSignedIn
<1>1. CASE RunWrite
  <2> DEFINE b == [id |-> client.nextId, write |-> Head(workQueue).write, user |-> client.user]
  <2>1. PICK d \in Client : WriteLeaves(d, b) /\ Fills(client', d, disk'[client.user])
    BY <1>1, RunWriteFields
  <2> HIDE DEF b
  <2> QED
    BY <2>1, SignedInOfFill DEF WriteLeaves, SameStream, SameCall
<1>2. CASE RunDisable
  BY <1>2, RunDisableFields, SignedInOfStops
<1>3. CASE RunEnable
  <2>1. PICK d \in Client : EnableLeaves(d) /\ Fills(client', d, disk[client.user])
    BY <1>3, RunEnableFields DEF Numbers
  <2> QED
    BY <2>1, SignedInOfFill DEF EnableLeaves, SameEngine, SameCall
<1>4. CASE RunConnectivity
  <2>1. \/ UNCHANGED client
        \/ \E d \in Client : Afresh(d, client) /\ Fills(client', d, disk[client.user])
    BY <1>4, RunConnectivityFields DEF Numbers
  <2>2. ASSUME NEW d \in Client, Afresh(d, client), Fills(client', d, disk[client.user])
        PROVE  StaysSignedIn
    <3>1. d.user = client.user /\ ~IsOpen(d)
      BY <2>2 DEF Afresh, Stops, Closes, SameEngine, IsOpen
    <3> QED
      BY <2>2, <3>1, SignedInOfFill
  <2>3. CASE UNCHANGED client
    BY <2>3 DEF StaysSignedIn
  <2> QED
    BY <2>1, <2>2, <2>3
<1>5. CASE RunWait
  BY <1>5, RunWaitFields DEF SameStream, SameCall, StaysSignedIn, IsOpen
<1> QED
  BY <1>1, <1>2, <1>3, <1>4, <1>5 DEF RunWorkQueue

LEMMA SignedInOfServer ==
    ASSUME Types, Numbers, PipelineFits(client, disk[client.user]),
           \/ BackoffElapsed \/ IdleElapsed
           \/ HandshakeComplete \/ MutationResult \/ CallEnded \/ CallBreaks
           \/ ServerAnswers \/ ServerRefuses \/ ServerTakesLate \/ ServerNeverTakesLate
    PROVE  StaysSignedIn /\ AskedAgain /\ UNCHANGED <<auth, workQueue>>
<1>1. UNCHANGED <<auth, workQueue>>
  BY DEF BackoffElapsed, IdleElapsed, HandshakeComplete, MutationResult, CallEnded, CallBreaks,
     ServerAnswers, ServerRefuses, ServerTakesLate, ServerNeverTakesLate
<1>2. CASE BackoffElapsed
  BY <1>1, <1>2, BackoffElapsedFields DEF SameEngine, StaysSignedIn, AskedAgain, IsOpen, Ask
<1>3. CASE IdleElapsed
  BY <1>1, <1>3, IdleElapsedFields, SignedInOfStops, StopsMoves, AskedOfMoves
<1>4. CASE MutationResult
  <2> DEFINE front == Head(client.pipeline)
  <2>1. PICK d \in Client : MutationResultLeaves(d, front) /\ Fills(client', d, disk'[client.user])
    BY <1>4, MutationResultFields DEF Numbers
  <2> HIDE DEF front
  <2>2. /\ d.close = client.close /\ d.state = client.state /\ d.asked = client.asked
        /\ d.user = client.user /\ d.token = client.token
        /\ Begins(client', d) /\ client'.close = d.close
    BY <2>1 DEF MutationResultLeaves, Settles, Fills, FilledWith
  <2>3. StaysSignedIn
    BY <2>1, <2>2, SignedInOfFill
  <2> QED
    BY <1>1, <2>2, <2>3, BeginsMoves, AskedOfMoves
<1>5. CASE CallEnded \/ CallBreaks
  BY <1>1, <1>5, SignedInOfCallEnds DEF CallEnded, CallBreaks
<1>6. CASE HandshakeComplete
  BY <1>1, <1>6, HandshakeFields DEF SameEngine, StaysSignedIn, AskedAgain, IsOpen
<1>7. CASE ServerAnswers \/ ServerRefuses \/ ServerTakesLate \/ ServerNeverTakesLate
  BY <1>1, <1>7, ServerAnswersFields, ServerRefusesFields, TakesLateFields, NeverTakesLateFields
     DEF SameEngine, SameStream, StaysSignedIn, AskedAgain, IsOpen
<1> QED
  BY <1>2, <1>3, <1>4, <1>5, <1>6, <1>7

(* The user that the provider, and then the client, goes over to.          *)
ProviderKnows == CountersCount /\ AnswersAreTrue /\ ProviderCatchesUp
ClientFollows == ClientCatchesUp /\ ResumesAsUser

LEMMA ProviderWhenAsked ==
    ASSUME Types, ProviderKnows, UNCHANGED auth, AskedAgain
    PROVE  ProviderKnows'
<1>1. UNCHANGED <<authUser, provider, mainQueue>> /\ provider.counter \in Nat
  BY DEF auth, Types
<1>2. \A i : (TokenAt(i)' <=> TokenAt(i)) /\ (NonePosted(i)' <=> NonePosted(i))
  BY <1>1 DEF TokenAt, NonePosted
<1>3. CountersCount'
  BY <1>1, <1>2 DEF AskedAgain, ProviderKnows, CountersCount
<1>4. AnswersAreTrue'
  BY <1>1, <1>2 DEF AskedAgain, ProviderKnows, AnswersAreTrue, NonePosted
<1>5. ProviderCatchesUp'
  BY <1>1 DEF ProviderKnows, ProviderCatchesUp, NonePosted
<1> QED
  BY <1>3, <1>4, <1>5 DEF ProviderKnows

LEMMA ProviderOfChangeUser ==
    ASSUME Types, ProviderKnows, NEW u \in User, ChangeUser(u)
    PROVE  ProviderKnows'
<1>0. PICK n : n = Len(mainQueue)
  OBVIOUS
<1>1. /\ authUser' = u /\ UNCHANGED <<provider, client>>
      /\ n \in Nat /\ Len(mainQueue') = n + 1
      /\ \A i \in 1..n : mainQueue'[i] = mainQueue[i]
      /\ mainQueue'[n + 1].is = "posted" /\ mainQueue'[n + 1].user = u
  <2>1. mainQueue' = Append(mainQueue, Posted(u)) /\ authUser' = u /\ UNCHANGED <<provider, client>>
    BY DEF ChangeUser
  <2>2. Posted(u) \in Notice /\ Posted(u).is = "posted" /\ Posted(u).user = u
    BY NoticeTypes
  <2> QED
    BY <1>0, <2>1, <2>2, AppendFacts DEF Types
<1>3. ASSUME NEW i \in 1..Len(mainQueue'), i # n + 1
      PROVE  i \in 1..n /\ i \in 1..Len(mainQueue) /\ mainQueue'[i] = mainQueue[i]
             /\ (TokenAt(i)' <=> TokenAt(i)) /\ (NonePosted(i)' <=> NonePosted(i))
  <2>1. i \in 1..n /\ mainQueue'[i] = mainQueue[i]
    BY <1>1, <1>3
  <2>2. \A j \in 1..i : mainQueue'[j] = mainQueue[j]
    BY <1>1, <2>1
  <2> QED
    BY <1>0, <2>1, <2>2 DEF TokenAt, NonePosted
<1>4. ~TokenAt(n + 1)' /\ ~NonePosted(Len(mainQueue))' /\ n + 1 \in 1..Len(mainQueue')
  <2>1. n + 1 \in 1..Len(mainQueue') /\ Len(mainQueue') = n + 1
    BY <1>1
  <2> QED
    BY <1>1, <2>1 DEF TokenAt, NonePosted
<1>5. CountersCount'
  BY <1>1, <1>3, <1>4 DEF ProviderKnows, CountersCount
<1>6. AnswersAreTrue'
  BY <1>1, <1>3, <1>4 DEF ProviderKnows, AnswersAreTrue
<1>7. ProviderCatchesUp'
  <2>1. ASSUME NEW i \in 1..Len(mainQueue'), mainQueue'[i].is = "posted",
               \A j \in (i + 1)..Len(mainQueue') : mainQueue'[j].is # "posted"
        PROVE  mainQueue'[i].user = authUser'
    <3>1. i = n + 1
      <4>1. n + 1 \notin (i + 1)..Len(mainQueue')
        BY <1>1, <2>1
      <4> QED
        BY <1>1, <4>1
    <3> QED
      BY <1>1, <3>1
  <2> QED
    BY <1>4, <2>1 DEF ProviderCatchesUp
<1> QED
  BY <1>5, <1>6, <1>7 DEF ProviderKnows

LEMMA ProviderOfRestart ==
    ASSUME Types, Numbers, Restart
    PROVE  ProviderKnows'
<1>1. /\ mainQueue' = <<>> /\ provider'.user = authUser /\ provider'.counter = provider.counter
      /\ authUser' = authUser /\ provider.counter \in Nat
  BY DEF Restart, Types
<1>2. PICK d \in Client : Fresh(d, authUser) /\ Fills(client', d, disk[authUser])
  BY RestartFields DEF Numbers
<1>3. d.asked = {} /\ Begins(client', d)
  BY <1>2 DEF Fresh, Fills, FilledWith
<1>4. \A a \in client'.asked : a.user = NoToken /\ a.counter = provider.counter
  BY <1>3 DEF Begins, Ask
<1>5. CountersCount' /\ AnswersAreTrue'
  BY <1>1, <1>4 DEF CountersCount, AnswersAreTrue
<1>6. ProviderCatchesUp'
  BY <1>1 DEF ProviderCatchesUp
<1> QED
  BY <1>5, <1>6 DEF ProviderKnows

LEMMA ProviderOfReadUser ==
    ASSUME Types, ProviderKnows, NEW ask \in client.asked, ReadUser(ask)
    PROVE  ProviderKnows'
<1>1. PICK a \in Asking :
          /\ a.counter = ask.counter /\ a.user = authUser
          /\ client'.asked = (client.asked \ {ask}) \cup {a}
  BY ReadUserFields
<1>2. UNCHANGED <<authUser, provider, mainQueue>>
  BY DEF ReadUser, auth
<1>3. \A i : (TokenAt(i)' <=> TokenAt(i)) /\ (NonePosted(i)' <=> NonePosted(i))
  BY <1>2 DEF TokenAt, NonePosted
<1>4. NonePosted(Len(mainQueue))' <=> NonePosted(Len(mainQueue))
  BY <1>2 DEF NonePosted
<1>5. CountersCount'
  BY <1>1, <1>2, <1>3 DEF ProviderKnows, CountersCount
<1>6. AnswersAreTrue'
  BY <1>1, <1>2, <1>3, <1>4 DEF ProviderKnows, AnswersAreTrue, ProviderCatchesUp
<1>7. ProviderCatchesUp'
  BY <1>2, <1>4 DEF ProviderKnows, ProviderCatchesUp
<1> QED
  BY <1>5, <1>6, <1>7 DEF ProviderKnows

LEMMA ProviderOfAnswer ==
    ASSUME Types, ProviderKnows, NEW ask \in client.asked, FetchToken(ask) \/ TokenFails(ask)
    PROVE  ProviderKnows'
<1>1. PICK a : Answers(ask, a)
  BY AnswerFields
<1>0. PICK n : n = Len(mainQueue)
  OBVIOUS
<1>2. /\ client'.asked = client.asked \ {ask}
      /\ a.counter = ask.counter
      /\ a.user = Failed \/ (a.user = ask.user /\ ask.user # NoToken)
      /\ UNCHANGED <<authUser, provider>>
  BY <1>1 DEF Answers
<1>3. /\ n \in Nat /\ Len(mainQueue') = n + 1
      /\ \A i \in 1..n : mainQueue'[i] = mainQueue[i]
      /\ mainQueue'[n + 1].is = "token" /\ mainQueue'[n + 1].ask = a
  <2>1. mainQueue' = Append(mainQueue, Token(a)) /\ a \in Answer
    BY <1>1 DEF Answers
  <2>2. Token(a) \in Notice /\ Token(a).is = "token" /\ Token(a).ask = a
    BY <2>1, NoticeTypes
  <2> QED
    BY <1>0, <2>1, <2>2, AppendFacts DEF Types
<1>5. ASSUME NEW i \in 1..Len(mainQueue'), i # n + 1
      PROVE  i \in 1..n /\ i \in 1..Len(mainQueue) /\ mainQueue'[i] = mainQueue[i]
             /\ (TokenAt(i)' <=> TokenAt(i)) /\ (NonePosted(i)' <=> NonePosted(i))
  <2>1. i \in 1..n /\ mainQueue'[i] = mainQueue[i]
    BY <1>3, <1>5
  <2>2. \A j \in 1..i : mainQueue'[j] = mainQueue[j]
    BY <1>3, <2>1
  <2> QED
    BY <1>0, <2>1, <2>2 DEF TokenAt, NonePosted
<1>6. NonePosted(n + 1)' => NonePosted(Len(mainQueue))
  <2> SUFFICES ASSUME NonePosted(n + 1)', NEW j \in 1..Len(mainQueue)
               PROVE  mainQueue[j].is # "posted"
    BY DEF NonePosted
  <2>1. j \in 1..(n + 1) /\ mainQueue'[j] = mainQueue[j]
    BY <1>3, <1>0
  <2> QED
    BY <2>1 DEF NonePosted
<1>7. NonePosted(Len(mainQueue))' => NonePosted(n + 1)'
  BY <1>3 DEF NonePosted
<1>8. CountersCount'
  BY <1>2, <1>3, <1>5 DEF ProviderKnows, CountersCount
<1>9. AnswersAreTrue'
  <2>1. ASSUME NEW x \in client'.asked, x.counter = provider'.counter, x.user # NoToken,
               NonePosted(Len(mainQueue))'
        PROVE  x.user = provider'.user
    BY <1>2, <1>6, <1>7, <2>1 DEF ProviderKnows, AnswersAreTrue
  <2>2. ASSUME NEW i \in 1..Len(mainQueue'), TokenAt(i)',
               mainQueue'[i].ask.counter = provider'.counter, NonePosted(i)'
        PROVE  mainQueue'[i].ask.user \in {Failed, provider'.user}
    <3>1. CASE i = n + 1
      <4>1. NonePosted(Len(mainQueue))
        BY <1>6, <2>2, <3>1
      <4> QED
        BY <1>2, <1>3, <2>2, <3>1, <4>1 DEF ProviderKnows, AnswersAreTrue
    <3>2. CASE i # n + 1
      BY <1>2, <1>5, <2>2, <3>2 DEF ProviderKnows, AnswersAreTrue
    <3> QED
      BY <3>1, <3>2
  <2> QED
    BY <2>1, <2>2 DEF AnswersAreTrue
<1>10. ProviderCatchesUp'
  <2>1. NonePosted(Len(mainQueue))' => provider'.user = authUser'
    BY <1>2, <1>6, <1>7 DEF ProviderKnows, ProviderCatchesUp
  <2>2. ASSUME NEW i \in 1..Len(mainQueue'), mainQueue'[i].is = "posted",
               \A j \in (i + 1)..Len(mainQueue') : mainQueue'[j].is # "posted"
        PROVE  mainQueue'[i].user = authUser'
    <3>1. i # n + 1
      BY <1>3, <2>2
    <3>2. i \in 1..Len(mainQueue) /\ mainQueue'[i] = mainQueue[i]
      BY <1>5, <3>1
    <3>3. \A j \in (i + 1)..Len(mainQueue) : j \in (i + 1)..Len(mainQueue') /\ mainQueue'[j] = mainQueue[j]
      BY <1>3, <1>0, <3>2
    <3> QED
      BY <1>2, <2>2, <3>2, <3>3 DEF ProviderKnows, ProviderCatchesUp
  <2> QED
    BY <2>1, <2>2 DEF ProviderCatchesUp
<1> QED
  BY <1>8, <1>9, <1>10 DEF ProviderKnows

LEMMA ProviderOfRunPosted ==
    ASSUME Types, ProviderKnows, RunPosted
    PROVE  ProviderKnows'
<1>1. /\ mainQueue # <<>> /\ mainQueue' = Tail(mainQueue) /\ mainQueue[1].is = "posted"
      /\ provider'.user = mainQueue[1].user /\ provider'.counter = provider.counter + 1
      /\ UNCHANGED <<authUser, client>>
      /\ provider.counter \in Nat
  BY RunPostedFields DEF Types
<1>2. /\ Len(mainQueue) \in Nat \ {0} /\ Len(mainQueue') = Len(mainQueue) - 1
      /\ \A i \in 1..Len(mainQueue') : mainQueue'[i] = mainQueue[i + 1] /\ i + 1 \in 1..Len(mainQueue)
  BY <1>1, TailFacts DEF Types
<1>3. \A a \in client.asked : a.counter \in Nat /\ a.counter <= provider.counter
  BY AskingTypes DEF ProviderKnows, CountersCount
<1>4. ASSUME NEW i \in 1..Len(mainQueue'), TokenAt(i)'
      PROVE  mainQueue'[i].ask.counter \in Nat /\ mainQueue'[i].ask.counter <= provider.counter
  <2>1. TokenAt(i + 1) /\ mainQueue'[i] = mainQueue[i + 1] /\ i + 1 \in 1..Len(mainQueue)
    BY <1>2, <1>4 DEF TokenAt
  <2>2. mainQueue[i + 1] \in Notice /\ mainQueue[i + 1].is = "token"
    BY <2>1 DEF TokenAt, Types
  <2> QED
    BY <2>1, <2>2, NoticeKinds DEF ProviderKnows, CountersCount
<1>5. CountersCount'
  BY <1>1, <1>3, <1>4 DEF CountersCount
<1>6. AnswersAreTrue'
  <2>1. \A a \in client'.asked : a.counter # provider'.counter
    BY <1>1, <1>3
  <2>2. \A i \in 1..Len(mainQueue') : TokenAt(i)' => mainQueue'[i].ask.counter # provider'.counter
    BY <1>1, <1>4
  <2> QED
    BY <2>1, <2>2 DEF AnswersAreTrue
<1>7. ProviderCatchesUp'
  <2>1. ASSUME NonePosted(Len(mainQueue))'
        PROVE  provider'.user = authUser'
    <3>1. ASSUME NEW j \in 2..Len(mainQueue) PROVE mainQueue[j].is # "posted"
      <4>1. j - 1 \in 1..Len(mainQueue') /\ (j - 1) + 1 = j
        BY <1>2
      <4> QED
        BY <1>2, <2>1, <4>1 DEF NonePosted
    <3>2. 1 \in 1..Len(mainQueue) /\ 1 + 1 = 2
      BY <1>2
    <3> QED
      BY <1>1, <3>1, <3>2 DEF ProviderKnows, ProviderCatchesUp
  <2>2. ASSUME NEW i \in 1..Len(mainQueue'), mainQueue'[i].is = "posted",
               \A j \in (i + 1)..Len(mainQueue') : mainQueue'[j].is # "posted"
        PROVE  mainQueue'[i].user = authUser'
    <3>1. mainQueue'[i] = mainQueue[i + 1] /\ i + 1 \in 1..Len(mainQueue)
      BY <1>2
    <3>2. ASSUME NEW j \in ((i + 1) + 1)..Len(mainQueue) PROVE mainQueue[j].is # "posted"
      <4>1. j - 1 \in (i + 1)..Len(mainQueue') /\ j - 1 \in 1..Len(mainQueue') /\ (j - 1) + 1 = j
        BY <1>2
      <4> QED
        BY <1>2, <2>2, <4>1
    <3> QED
      BY <1>1, <2>2, <3>1, <3>2 DEF ProviderKnows, ProviderCatchesUp
  <2> QED
    BY <2>1, <2>2 DEF ProviderCatchesUp
<1> QED
  BY <1>5, <1>6, <1>7 DEF ProviderKnows

LEMMA ProviderOfRunToken ==
    ASSUME Types, ProviderKnows, RunToken
    PROVE  ProviderKnows'
<1> DEFINE ask == mainQueue[1].ask
<1>1. /\ mainQueue # <<>> /\ mainQueue' = Tail(mainQueue) /\ mainQueue[1].is = "token"
      /\ UNCHANGED <<authUser, provider>> /\ provider.counter \in Nat
      /\ client'.asked = client.asked \cup {Ask(ask.close)} \/ client'.asked = client.asked
  BY RunTokenFields DEF Types
<1>2. /\ Len(mainQueue) \in Nat \ {0} /\ Len(mainQueue') = Len(mainQueue) - 1
      /\ \A i \in 1..Len(mainQueue') : mainQueue'[i] = mainQueue[i + 1] /\ i + 1 \in 1..Len(mainQueue)
  BY <1>1, TailFacts DEF Types
<1>3. AskedAgain
  BY <1>1 DEF AskedAgain, Ask
<1>4. ASSUME NEW i \in 0..Len(mainQueue'), NonePosted(i)'
      PROVE  NonePosted(i + 1)
  <2> SUFFICES ASSUME NEW j \in 1..(i + 1) PROVE mainQueue[j].is # "posted"
    BY DEF NonePosted
  <2>1. CASE j = 1
    BY <1>1, <2>1
  <2>2. CASE j # 1
    <3>1. j - 1 \in 1..i /\ j - 1 \in 1..Len(mainQueue') /\ (j - 1) + 1 = j
      BY <1>2, <2>2
    <3> QED
      BY <1>2, <1>4, <3>1 DEF NonePosted
  <2> QED
    BY <2>1, <2>2
<1>5. NonePosted(Len(mainQueue))' => NonePosted(Len(mainQueue))
  <2> SUFFICES ASSUME NonePosted(Len(mainQueue))', NEW j \in 1..Len(mainQueue)
               PROVE  mainQueue[j].is # "posted"
    BY DEF NonePosted
  <2>1. CASE j = 1
    BY <1>1, <2>1
  <2>2. CASE j # 1
    <3>1. j - 1 \in 1..Len(mainQueue') /\ (j - 1) + 1 = j
      BY <1>2, <2>2
    <3> QED
      BY <1>2, <3>1 DEF NonePosted
  <2> QED
    BY <2>1, <2>2
<1>6. ASSUME NEW i \in 1..Len(mainQueue')
      PROVE  /\ i + 1 \in 1..Len(mainQueue) /\ mainQueue'[i] = mainQueue[i + 1]
             /\ (TokenAt(i)' <=> TokenAt(i + 1))
             /\ NonePosted(i)' => NonePosted(i + 1)
  <2>1. i + 1 \in 1..Len(mainQueue) /\ mainQueue'[i] = mainQueue[i + 1] /\ i \in 0..Len(mainQueue')
    BY <1>2
  <2> QED
    BY <1>4, <2>1 DEF TokenAt
<1>7. CountersCount'
  BY <1>1, <1>3, <1>6 DEF AskedAgain, ProviderKnows, CountersCount
<1>8. AnswersAreTrue'
  BY <1>1, <1>3, <1>5, <1>6 DEF AskedAgain, ProviderKnows, AnswersAreTrue
<1>9. ProviderCatchesUp'
  <2>1. NonePosted(Len(mainQueue))' => provider'.user = authUser'
    BY <1>1, <1>5 DEF ProviderKnows, ProviderCatchesUp
  <2>2. ASSUME NEW i \in 1..Len(mainQueue'), mainQueue'[i].is = "posted",
               \A j \in (i + 1)..Len(mainQueue') : mainQueue'[j].is # "posted"
        PROVE  mainQueue'[i].user = authUser'
    <3>1. mainQueue'[i] = mainQueue[i + 1] /\ i + 1 \in 1..Len(mainQueue)
      BY <1>2
    <3>2. ASSUME NEW j \in ((i + 1) + 1)..Len(mainQueue) PROVE mainQueue[j].is # "posted"
      <4>1. j - 1 \in (i + 1)..Len(mainQueue') /\ j - 1 \in 1..Len(mainQueue') /\ (j - 1) + 1 = j
        BY <1>2
      <4> QED
        BY <1>2, <2>2, <4>1
    <3> QED
      BY <1>1, <2>2, <3>1, <3>2 DEF ProviderKnows, ProviderCatchesUp
  <2> QED
    BY <2>1, <2>2 DEF ProviderCatchesUp
<1> QED
  BY <1>7, <1>8, <1>9 DEF ProviderKnows

(* A task is taken from the worker queue, or put on it.                    *)
LEMMA UserAfterTail ==
    ASSUME Types, workQueue # <<>>, workQueue' = Tail(workQueue),
           client'.user = (IF workQueue[1].do = "credential" THEN workQueue[1].user ELSE client.user),
           NEW n \in 1..Len(workQueue), NEW u, UserAfter(n, u)
    PROVE  UserAfter(n - 1, u)'
<1>1. /\ Len(workQueue) \in Nat \ {0} /\ Len(workQueue') = Len(workQueue) - 1
      /\ \A i \in 1..Len(workQueue') : workQueue'[i] = workQueue[i + 1] /\ i + 1 \in 1..Len(workQueue)
  BY TailFacts DEF Types
<1>2. \A j \in 1..(n - 1) : workQueue'[j] = workQueue[j + 1] /\ j + 1 \in 1..n
  BY <1>1
<1>3. CASE (\A j \in 1..n : workQueue[j].do # "credential") /\ client.user = u
  <2>1. 1 \in 1..n
    OBVIOUS
  <2>2. client'.user = u
    BY <1>3, <2>1
  <2>3. \A j \in 1..(n - 1) : workQueue'[j].do # "credential"
    BY <1>2, <1>3
  <2> QED
    BY <2>2, <2>3 DEF UserAfter
<1>4. ASSUME NEW i \in 1..n, workQueue[i].do = "credential", workQueue[i].user = u,
             \A j \in (i + 1)..n : workQueue[j].do # "credential"
      PROVE  UserAfter(n - 1, u)'
  <2>1. CASE i = 1
    <3>1. \A j \in 1..(n - 1) : workQueue'[j].do # "credential"
      <4> TAKE j \in 1..(n - 1)
      <4>1. workQueue'[j] = workQueue[j + 1] /\ j + 1 \in (i + 1)..n
        BY <1>2, <2>1
      <4> QED
        BY <1>4, <4>1
    <3> QED
      BY <1>4, <2>1, <3>1 DEF UserAfter
  <2>2. CASE i # 1
    <3>1. i - 1 \in 1..(n - 1) /\ (i - 1) + 1 = i
      BY <2>2
    <3>2. workQueue'[i - 1] = workQueue[i]
      BY <1>2, <3>1
    <3>3. ASSUME NEW j \in ((i - 1) + 1)..(n - 1) PROVE workQueue'[j].do # "credential"
      <4>1. j \in 1..(n - 1) /\ j + 1 \in (i + 1)..n
        BY <3>1
      <4> QED
        BY <1>2, <1>4, <4>1
    <3> QED
      BY <1>4, <3>1, <3>2, <3>3 DEF UserAfter
  <2> QED
    BY <2>1, <2>2
<1> QED
  BY <1>3, <1>4 DEF UserAfter

LEMMA UserAfterKept ==
    ASSUME NEW n \in Nat, NEW u, UserAfter(n, u), client'.user = client.user,
           \A j \in 1..n : workQueue'[j] = workQueue[j]
    PROVE  UserAfter(n, u)'
<1>1. CASE (\A j \in 1..n : workQueue[j].do # "credential") /\ client.user = u
  BY <1>1 DEF UserAfter
<1>2. ASSUME NEW i \in 1..n, workQueue[i].do = "credential", workQueue[i].user = u,
             \A j \in (i + 1)..n : workQueue[j].do # "credential"
      PROVE  UserAfter(n, u)'
  <2>1. \A j \in (i + 1)..n : j \in 1..n
    OBVIOUS
  <2> QED
    BY <1>2, <2>1 DEF UserAfter
<1> QED
  BY <1>1, <1>2 DEF UserAfter

LEMMA UserAfterOneMore ==
    ASSUME NEW n \in Nat, NEW u, UserAfter(n, u), client'.user = client.user,
           \A j \in 1..n : workQueue'[j] = workQueue[j],
           workQueue'[n + 1].do # "credential"
    PROVE  UserAfter(n + 1, u)'
<1>1. CASE (\A j \in 1..n : workQueue[j].do # "credential") /\ client.user = u
  <2>1. \A j \in 1..(n + 1) : j \in 1..n \/ j = n + 1
    OBVIOUS
  <2> QED
    BY <1>1, <2>1 DEF UserAfter
<1>2. ASSUME NEW i \in 1..n, workQueue[i].do = "credential", workQueue[i].user = u,
             \A j \in (i + 1)..n : workQueue[j].do # "credential"
      PROVE  UserAfter(n + 1, u)'
  <2>1. \A j \in (i + 1)..(n + 1) : (j \in (i + 1)..n /\ j \in 1..n) \/ j = n + 1
    OBVIOUS
  <2>2. i \in 1..(n + 1)
    OBVIOUS
  <2>3. \A j \in (i + 1)..(n + 1) : workQueue'[j].do # "credential"
    BY <1>2, <2>1
  <2> QED
    BY <1>2, <2>2, <2>3 DEF UserAfter
<1> QED
  BY <1>1, <1>2 DEF UserAfter

(* The client goes over to the users of the credential tasks, and no other.*)
LEMMA FollowsOfTail ==
    ASSUME Types, ClientFollows, workQueue # <<>>, workQueue' = Tail(workQueue),
           UNCHANGED provider,
           client'.user = (IF workQueue[1].do = "credential" THEN workQueue[1].user ELSE client.user)
    PROVE  ClientFollows'
<1>1. /\ Len(workQueue) \in Nat \ {0} /\ Len(workQueue') = Len(workQueue) - 1
      /\ \A i \in 1..Len(workQueue') : workQueue'[i] = workQueue[i + 1] /\ i + 1 \in 1..Len(workQueue)
  BY TailFacts DEF Types
<1>2. ClientCatchesUp'
  <2>0. PICK n : n = Len(workQueue)
    OBVIOUS
  <2>1. PICK u : u = provider.user
    OBVIOUS
  <2>2. n \in 1..Len(workQueue) /\ UserAfter(n, u)
    BY <1>1, <2>0, <2>1 DEF ClientFollows, ClientCatchesUp
  <2>3. UserAfter(n - 1, u)'
    BY <2>2, UserAfterTail
  <2>4. n - 1 = Len(workQueue') /\ u = provider'.user
    BY <1>1, <2>0, <2>1
  <2> QED
    BY <2>3, <2>4 DEF ClientCatchesUp, UserAfter
<1>3. ResumesAsUser'
  <2> SUFFICES ASSUME NEW i \in 1..Len(workQueue'), ResumeAt(i)', workQueue'[i].token # Failed
               PROVE  UserAfter(i - 1, workQueue[i].token)'
    BY DEF ResumesAsUser
  <2>1. PICK u : u = workQueue'[i].token
    OBVIOUS
  <2>2. i + 1 \in 1..Len(workQueue) /\ ResumeAt(i + 1) /\ workQueue[i + 1].token = u
        /\ workQueue'[i] = workQueue[i + 1]
    BY <1>1, <2>1 DEF ResumeAt
  <2>3. UserAfter((i + 1) - 1, u)
    BY <2>1, <2>2 DEF ClientFollows, ResumesAsUser
  <2>4. i \in 1..Len(workQueue) /\ (i + 1) - 1 = i
    BY <1>1
  <2>5. UserAfter(i - 1, u)'
    BY <2>3, <2>4, UserAfterTail
  <2> QED
    BY <2>1, <2>5 DEF UserAfter
<1> QED
  BY <1>2, <1>3 DEF ClientFollows

LEMMA FollowsOfAppend ==
    ASSUME Types, ClientFollows, NEW t \in Task, workQueue' = Append(workQueue, t),
           client'.user = client.user,
           \/ t.do = "credential" /\ t.user = provider'.user
           \/ t.do # "credential" /\ provider'.user = provider.user,
           t.do = "resume" /\ t.token # Failed => t.token = provider.user
    PROVE  ClientFollows'
<1>1. PICK n : n = Len(workQueue)
  OBVIOUS
<1>2. /\ n \in Nat /\ Len(workQueue') = n + 1
      /\ \A i \in 1..n : workQueue'[i] = workQueue[i]
      /\ workQueue'[n + 1] = t
  BY <1>1, AppendFacts DEF Types
<1>3. PICK u : u = provider.user
  OBVIOUS
<1>4. UserAfter(n, u)
  BY <1>1, <1>3 DEF ClientFollows, ClientCatchesUp
<1>5. UserAfter(n, u)'
  BY <1>2, <1>4, UserAfterKept
<1>6. UserAfter(n + 1, provider.user)'
  <2>1. CASE t.do = "credential" /\ t.user = provider'.user
    <3>1. n + 1 \in 1..(n + 1) /\ \A j \in ((n + 1) + 1)..(n + 1) : FALSE
      BY <1>2
    <3> QED
      BY <1>2, <2>1, <3>1 DEF UserAfter
  <2>2. CASE t.do # "credential" /\ provider'.user = provider.user
    <3>1. UserAfter(n + 1, u)'
      BY <1>2, <1>4, <2>2, UserAfterOneMore
    <3>2. u = provider'.user
      BY <1>3, <2>2
    <3> QED
      BY <3>1, <3>2 DEF UserAfter
  <2> QED
    BY <2>1, <2>2
<1>7. ClientCatchesUp'
  BY <1>2, <1>6 DEF ClientCatchesUp, UserAfter
<1>8. ResumesAsUser'
  <2> SUFFICES ASSUME NEW i \in 1..Len(workQueue'), ResumeAt(i)', workQueue'[i].token # Failed
               PROVE  UserAfter(i - 1, workQueue[i].token)'
    BY DEF ResumesAsUser
  <2>1. PICK v : v = workQueue'[i].token
    OBVIOUS
  <2>2. CASE i = n + 1
    <3>1. t.do = "resume" /\ v = u /\ i - 1 = n
      BY <1>2, <1>3, <2>1, <2>2 DEF ResumeAt
    <3> QED
      BY <1>5, <2>1, <3>1 DEF UserAfter
  <2>3. CASE i # n + 1
    <3>1. i \in 1..n /\ i \in 1..Len(workQueue) /\ workQueue'[i] = workQueue[i]
      BY <1>1, <1>2, <2>3
    <3>2. ResumeAt(i) /\ workQueue[i].token = v
      BY <2>1, <3>1 DEF ResumeAt
    <3>3. UserAfter(i - 1, v)
      BY <2>1, <3>1, <3>2 DEF ClientFollows, ResumesAsUser
    <3>4. i - 1 \in Nat /\ \A j \in 1..(i - 1) : workQueue'[j] = workQueue[j]
      BY <1>2, <3>1
    <3>5. UserAfter(i - 1, v)'
      BY <3>3, <3>4, UserAfterKept
    <3> QED
      BY <2>1, <3>5 DEF UserAfter
  <2> QED
    BY <2>2, <2>3
<1> QED
  BY <1>7, <1>8 DEF ClientFollows

LEMMA FollowsWhenKept ==
    ASSUME ClientFollows, UNCHANGED <<workQueue, provider>>, client'.user = client.user
    PROVE  ClientFollows'
BY DEF ClientFollows, ClientCatchesUp, ResumesAsUser, ResumeAt, UserAfter

LEMMA FollowsOfRestart ==
    ASSUME Types, Numbers, Restart
    PROVE  ClientFollows'
<1>1. workQueue' = <<>> /\ client'.user = authUser /\ provider'.user = authUser
  BY SignedInOfRestart DEF Restart, Types
<1> QED
  BY <1>1 DEF ClientFollows, ClientCatchesUp, ResumesAsUser, UserAfter

(* The token of an open stream is of the user it is open for.              *)
TokenIsOfUser == IsOpen(client) => client.token = client.user

LEMMA UsersParts == Users <=> ProviderKnows /\ ClientFollows /\ TokenIsOfUser
BY DEF Users, ProviderKnows, ClientFollows, TokenIsOfUser

LEMMA UsersPartsNext == ProviderKnows' /\ ClientFollows' /\ TokenIsOfUser' => Users'
BY DEF Users, ProviderKnows, ClientFollows, TokenIsOfUser

LEMMA TokenWhenStays ==
    ASSUME TokenIsOfUser, StaysSignedIn
    PROVE  TokenIsOfUser'
BY DEF TokenIsOfUser, StaysSignedIn, IsOpen

LEMMA UsersOfWorker ==
    ASSUME Types, Numbers, PipelineFits(client, disk[client.user]), Users, RunWorkQueue
    PROVE  Users'
<1> USE UsersParts, UsersPartsNext
<1>1. CASE ~RunResume /\ ~RunCredential
  <2>1. /\ StreamStays \/ StreamTurns
        /\ workQueue # <<>> /\ workQueue' = Tail(workQueue)
    BY <1>1, WorkerMoves
  <2>2. UNCHANGED auth /\ workQueue[1].do # "credential"
    BY <1>1, <2>1, TailFacts DEF RunWorkQueue, RunWrite, RunDisable, RunEnable, RunConnectivity,
       RunWait, Runs, Types
  <2>3. StaysSignedIn /\ AskedAgain
    BY <1>1, <2>1, SignedInOfWorker, AskedOfMoves
  <2>4. ClientFollows'
    BY <2>1, <2>2, <2>3, FollowsOfTail DEF auth, StaysSignedIn
  <2> QED
    BY <2>2, <2>3, <2>4, ProviderWhenAsked, TokenWhenStays
<1>2. CASE RunCredential
  <2>1. ~RunResume
    BY <1>2 DEF RunCredential, RunResume, Runs
  <2>2. /\ StreamStays \/ StreamTurns
        /\ workQueue # <<>> /\ workQueue' = Tail(workQueue)
    BY <2>1, WorkerMoves
  <2>3. UNCHANGED auth
    BY <1>2 DEF RunCredential
  <2>4. client'.user = workQueue[1].user /\ workQueue[1].do = "credential" /\ ~IsOpen(client')
    BY <1>2, SignedInOfCredential
  <2>5. ClientFollows'
    BY <2>2, <2>3, <2>4, FollowsOfTail DEF auth
  <2>6. ProviderKnows'
    BY <2>2, <2>3, AskedOfMoves, ProviderWhenAsked
  <2>7. TokenIsOfUser'
    BY <2>4 DEF TokenIsOfUser, IsOpen
  <2> QED
    BY <2>5, <2>6, <2>7
<1>3. CASE RunResume
  <2> DEFINE task == workQueue[1]
  <2>1. /\ workQueue # <<>> /\ workQueue' = Tail(workQueue) /\ task.do = "resume"
        /\ UNCHANGED auth
        /\ \/ UNCHANGED client
           \/ CallEnds("unknown")
           \/ task.token # Failed /\ ResumeOpens(task.token)
    BY <1>3, RunResumeFields
  <2>2. AskedAgain /\ client'.user = client.user
    <3>1. CASE UNCHANGED client
      BY <3>1 DEF AskedAgain
    <3>2. CASE CallEnds("unknown")
      BY <3>2, SignedInOfCallEnds DEF StaysSignedIn
    <3>3. CASE ResumeOpens(task.token)
      BY <3>3 DEF ResumeOpens, AskedAgain, SameEngine
    <3> QED
      BY <2>1, <3>1, <3>2, <3>3
  <2>3. ClientFollows'
    BY <2>1, <2>2, FollowsOfTail DEF auth
  <2>4. TokenIsOfUser'
    <3>1. CASE UNCHANGED client
      BY <3>1 DEF TokenIsOfUser
    <3>2. CASE CallEnds("unknown")
      BY <3>2, SignedInOfCallEnds, TokenWhenStays
    <3>3. CASE task.token # Failed /\ ResumeOpens(task.token)
      <4>1. 1 \in 1..Len(workQueue) /\ 1 - 1 = 0
        BY <2>1, TailFacts DEF Types
      <4>2. UserAfter(0, task.token)
        BY <2>1, <3>3, <4>1 DEF ClientFollows, ResumesAsUser, ResumeAt
      <4>3. client.user = task.token
        BY <4>2 DEF UserAfter
      <4> QED
        BY <2>2, <3>3, <4>3 DEF ResumeOpens, TokenIsOfUser
    <3> QED
      BY <2>1, <3>1, <3>2, <3>3
  <2> QED
    BY <2>1, <2>2, <2>3, <2>4, ProviderWhenAsked
<1> QED
  BY <1>1, <1>2, <1>3

LEMMA UsersStep ==
    ASSUME Types, Numbers, PipelineFits(client, disk[client.user]), Users, [Next]_vars
    PROVE  Users'
<1> USE UsersParts, UsersPartsNext
<1>1. UNCHANGED client => StaysSignedIn /\ AskedAgain
  BY DEF StaysSignedIn, AskedAgain
<1>2. CASE UNCHANGED vars
  <2>1. UNCHANGED <<client, auth, workQueue, provider>>
    BY <1>2 DEF vars, auth
  <2> QED
    BY <1>1, <2>1, ProviderWhenAsked, FollowsWhenKept, TokenWhenStays
<1>3. CASE IssueWrite \/ CallNetwork \/ CallEnableNetwork
  <2>1. UNCHANGED <<client, auth>>
    BY <1>3 DEF IssueWrite, CallNetwork, CallEnableNetwork
  <2>2. PICK t \in Task : t.do \notin {"credential", "resume"} /\ workQueue' = Append(workQueue, t)
    <3>1. CASE IssueWrite
      <4>1. issued + 1 \in Write /\ workQueue' = Append(workQueue, WriteTask(issued + 1))
        BY <3>1, BoundAssumption DEF IssueWrite, Types, Write
      <4>2. WriteTask(issued + 1) \in Task /\ WriteTask(issued + 1).do = "write"
        BY <4>1, TaskTypes
      <4> QED
        BY <4>1, <4>2
    <3>2. CASE CallNetwork \/ CallEnableNetwork
      <4>1. PICK what \in {"disable", "enable", "wait", "connectivity"} :
                workQueue' = Append(workQueue, NetworkTask(what))
        BY <3>2 DEF CallNetwork, CallEnableNetwork
      <4>2. NetworkTask(what) \in Task /\ NetworkTask(what).do = what
        BY TaskTypes
      <4> QED
        BY <4>1, <4>2
    <3> QED
      BY <1>3, <3>1, <3>2
  <2>3. ClientFollows'
    BY <2>1, <2>2, FollowsOfAppend DEF auth
  <2> QED
    BY <1>1, <2>1, <2>3, ProviderWhenAsked, TokenWhenStays
<1>4. CASE Restart
  BY <1>4, ProviderOfRestart, FollowsOfRestart, SignedInOfRestart DEF TokenIsOfUser, IsOpen
<1>5. ASSUME NEW u \in User, ChangeUser(u)
      PROVE  Users'
  <2>1. UNCHANGED <<client, workQueue, provider>>
    BY <1>5 DEF ChangeUser
  <2> QED
    BY <1>1, <1>5, <2>1, ProviderOfChangeUser, FollowsWhenKept, TokenWhenStays
<1>6. ASSUME NEW ask \in client.asked, ReadUser(ask) \/ FetchToken(ask) \/ TokenFails(ask)
      PROVE  Users'
  <2>1. SameButAsked(client', client) /\ UNCHANGED <<workQueue, provider>>
    BY <1>6, ReadUserFields, AnswerFields DEF Answers, auth
  <2>2. StaysSignedIn
    BY <2>1 DEF SameButAsked, SameEngine, SameCall, StaysSignedIn, IsOpen
  <2> QED
    BY <1>6, <2>1, <2>2, ProviderOfReadUser, ProviderOfAnswer, FollowsWhenKept, TokenWhenStays
       DEF StaysSignedIn
<1>7. CASE RunPosted
  <2>1. /\ mainQueue[1].user \in User /\ provider'.user = mainQueue[1].user
        /\ workQueue' = Append(workQueue, CredentialTask(mainQueue[1].user))
        /\ UNCHANGED client
    BY <1>7, RunPostedFields
  <2>2. PICK t \in Task : /\ t.do = "credential" /\ t.user = mainQueue[1].user
                          /\ workQueue' = Append(workQueue, t)
    BY <2>1, TaskTypes
  <2>3. ClientFollows'
    BY <2>1, <2>2, FollowsOfAppend
  <2> QED
    BY <1>1, <1>7, <2>1, <2>3, ProviderOfRunPosted, TokenWhenStays
<1>8. CASE RunToken
  <2> DEFINE ask == mainQueue[1].ask
  <2>1. /\ mainQueue # <<>> /\ mainQueue[1].is = "token" /\ ask \in Answer
        /\ SameButAsked(client', client)
        /\ UNCHANGED provider
        /\ \/ UNCHANGED workQueue
           \/ /\ ask.counter = provider.counter
              /\ workQueue' = Append(workQueue, ResumeTask(ask.user, ask.close))
    BY <1>8, RunTokenFields
  <2>2. StaysSignedIn
    BY <2>1 DEF SameButAsked, SameEngine, SameCall, StaysSignedIn, IsOpen
  <2>3. ClientFollows'
    <3>1. CASE UNCHANGED workQueue
      BY <2>1, <2>2, <3>1, FollowsWhenKept DEF StaysSignedIn
    <3>2. CASE /\ ask.counter = provider.counter
               /\ workQueue' = Append(workQueue, ResumeTask(ask.user, ask.close))
      <4>1. 1 \in 1..Len(mainQueue) /\ TokenAt(1) /\ NonePosted(1)
        BY <2>1, TailFacts DEF TokenAt, NonePosted, Types
      <4>2. ask.user \in {Failed, provider.user}
        BY <3>2, <4>1 DEF ProviderKnows, AnswersAreTrue
      <4>3. PICK t \in Task : /\ t.do = "resume" /\ t.token = ask.user
                              /\ workQueue' = Append(workQueue, t)
        BY <2>1, <3>2, TaskTypes DEF Answer
      <4> QED
        BY <2>1, <2>2, <4>2, <4>3, FollowsOfAppend DEF StaysSignedIn
    <3> QED
      BY <2>1, <3>1, <3>2
  <2> QED
    BY <1>8, <2>2, <2>3, ProviderOfRunToken, TokenWhenStays
<1>9. CASE RunWorkQueue
  BY <1>9, UsersOfWorker
<1>10. CASE \/ BackoffElapsed \/ IdleElapsed
            \/ HandshakeComplete \/ MutationResult \/ CallEnded \/ CallBreaks
            \/ ServerAnswers \/ ServerRefuses \/ ServerTakesLate \/ ServerNeverTakesLate
  <2>1. StaysSignedIn /\ AskedAgain /\ UNCHANGED <<auth, workQueue>>
    BY <1>10, SignedInOfServer
  <2> QED
    BY <2>1, ProviderWhenAsked, FollowsWhenKept, TokenWhenStays DEF StaysSignedIn, auth
<1> QED
  BY <1>2, <1>3, <1>4, <1>5, <1>6, <1>7, <1>8, <1>9, <1>10 DEF Next, RunMainQueue

LEMMA UsersInit == Init => Users
<1> SUFFICES ASSUME Init PROVE Users
  OBVIOUS
<1>1. client.asked = {} /\ client.user = FirstUser /\ client.state = "initial"
  BY InitialClient DEF Fresh
<1>2. /\ mainQueue = <<>> /\ workQueue = <<>> /\ authUser = FirstUser /\ provider.user = FirstUser
  BY DEF Init
<1> QED
  BY <1>1, <1>2 DEF Users, CountersCount, AnswersAreTrue, ProviderCatchesUp, ClientCatchesUp,
     ResumesAsUser, UserAfter, IsOpen

-----------------------------------------------------------------------------
(* Commits is inductive, given Types, Numbers and Streams.                 *)

(* What a step does to the mutation queues.                                *)
Taken == disk[client.user] # <<>> /\ TakesFirst(disk', client.user)

Stored(b) ==
    /\ b \in Batch /\ b.user = client.user
    /\ \A w \in Nat : Past(w) => w < b.write
    /\ \A u \in User : \A i \in 1..Len(disk[u]) : i \in 1..Len(disk'[u]) /\ disk'[u][i] = disk[u][i]
    /\ \A u \in User : \A i \in 1..Len(disk'[u]) :
          \/ i \in 1..Len(disk[u]) /\ disk'[u][i] = disk[u][i]
          \/ i = Len(disk[u]) + 1 /\ disk'[u][i] = b /\ u = client.user

QueuesMove == UNCHANGED disk \/ Taken \/ \E b : Stored(b)

LEMMA StoredOfRunWrite ==
    ASSUME Types, Numbers, PipelineFits(client, disk[client.user]), RunWrite
    PROVE  /\ UNCHANGED <<auth, app, server>>
           /\ \E d \in Client : \E b :
                 /\ Stored(b)
                 /\ WriteLeaves(d, b) /\ Fills(client', d, disk'[client.user])
                 /\ disk'[client.user] = Append(disk[client.user], b)
                 /\ \A v \in User \ {client.user} : disk'[v] = disk[v]
<1> DEFINE u == client.user
<1>1. PICK b : b = [id |-> client.nextId, write |-> Head(workQueue).write, user |-> client.user]
  OBVIOUS
<1>2. /\ workQueue # <<>> /\ workQueue[1].do = "write" /\ b.write = workQueue[1].write
      /\ b \in Batch /\ u \in User /\ b.user = u
      /\ disk'[u] = Append(disk[u], b) /\ \A v \in User \ {u} : disk'[v] = disk[v]
      /\ UNCHANGED <<auth, app, server>>
      /\ \E d \in Client : WriteLeaves(d, b) /\ Fills(client', d, disk'[u])
  BY <1>1, RunWriteFields
<1>3. ASSUME NEW w \in Nat, Past(w) PROVE w < b.write
  <2>1. 1 \in 1..Len(workQueue)
    BY <1>2, TailFacts DEF Types
  <2> QED
    BY <1>2, <1>3, <2>1 DEF Past
<1>4. /\ Len(disk[u]) \in Nat /\ Len(disk'[u]) = Len(disk[u]) + 1
      /\ \A i \in 1..Len(disk[u]) : disk'[u][i] = disk[u][i]
      /\ disk'[u][Len(disk[u]) + 1] = b
  <2>1. disk[u] \in Seq(Batch)
    BY <1>2 DEF Types
  <2> QED
    BY <1>2, <2>1, AppendFacts
<1>5. ASSUME NEW v \in User, NEW i \in 1..Len(disk[v])
      PROVE  i \in 1..Len(disk'[v]) /\ disk'[v][i] = disk[v][i]
  <2>1. CASE v = u
    <3> HIDE DEF u
    <3> QED
      BY <2>1, <1>4
  <2>2. CASE v # u
    BY <2>2, <1>2
  <2> QED
    BY <2>1, <2>2
<1>6. ASSUME NEW v \in User, NEW i \in 1..Len(disk'[v])
      PROVE  \/ i \in 1..Len(disk[v]) /\ disk'[v][i] = disk[v][i]
             \/ i = Len(disk[v]) + 1 /\ disk'[v][i] = b /\ v = client.user
  <2>1. CASE v = u
    <3>1. v = client.user
      BY <2>1
    <3>2. i \in 1..Len(disk[u]) \/ i = Len(disk[u]) + 1
      <4> HIDE DEF u
      <4> QED
        BY <2>1, <1>4
    <3> HIDE DEF u
    <3> QED
      BY <2>1, <3>1, <3>2, <1>4
  <2>2. CASE v # u
    BY <2>2, <1>2
  <2> QED
    BY <2>1, <2>2
<1>7. Stored(b)
  BY <1>2, <1>3, <1>5, <1>6 DEF Stored
<1> QED
  BY <1>2, <1>7

LEMMA QueuesMoveStep ==
    ASSUME Types, Numbers, PipelineFits(client, disk[client.user]), [Next]_vars
    PROVE  QueuesMove
<1>1. CASE RunWrite
  BY <1>1, StoredOfRunWrite DEF QueuesMove
<1>2. CASE ~RunWrite
  BY <1>2, DiskMoves DEF QueuesMove, Taken, Numbers
<1> QED
  BY <1>1, <1>2

(* What was in its user's queue or before it stays so.                     *)
LEMMA InOrBeforeKept ==
    ASSUME Types, Numbers, QueuesMove,
           NEW x, x.user \in User, x.write \in Nat, InOrBefore(x), Past(x.write)
    PROVE  InOrBefore(x)'
<1> DEFINE u == x.user
<1>1. CASE UNCHANGED disk
  BY <1>1 DEF InOrBefore, InDisk
<1>2. CASE Taken
  <2>1. /\ \A v \in User \ {client.user} : disk'[v] = disk[v]
        /\ Len(disk[client.user]) \in Nat \ {0}
        /\ Len(disk'[client.user]) = Len(disk[client.user]) - 1
        /\ \A i \in 1..Len(disk'[client.user]) :
              disk'[client.user][i] = disk[client.user][i + 1] /\ i + 1 \in 1..Len(disk[client.user])
    BY <1>2, LeftBehind DEF Taken, Types, Client
  <2>2. CASE u # client.user
    BY <2>1, <2>2, <1>2 DEF InOrBefore, InDisk
  <2>3. CASE u = client.user
    <3>1. /\ Len(disk[u]) \in Nat \ {0} /\ Len(disk'[u]) = Len(disk[u]) - 1
          /\ \A i \in 1..Len(disk'[u]) : disk'[u][i] = disk[u][i + 1] /\ i + 1 \in 1..Len(disk[u])
      BY <2>1, <2>3
    <3>2. CASE \A i \in 1..Len(disk[u]) : x.write < disk[u][i].write
      <4>1. \A i \in 1..Len(disk'[u]) : x.write < disk'[u][i].write
        BY <3>1, <3>2
      <4> QED
        BY <4>1 DEF InOrBefore
    <3>3. ASSUME NEW k \in 1..Len(disk[u]), disk[u][k].write = x.write
          PROVE  InOrBefore(x)'
      <4>1. CASE k = 1
        <5>1. ASSUME NEW i \in 1..Len(disk'[u]) PROVE disk[u][1].write < disk[u][i + 1].write
          <6>1. 1 < i + 1 /\ 1 \in 1..Len(disk[u]) /\ i + 1 \in 1..Len(disk[u])
            <7> HIDE DEF u
            <7> QED
              BY <3>1
          <6>2. Increasing(disk[u])
            BY DEF Numbers, QueuesInOrder
          <6> QED
            BY <6>1, <6>2 DEF Increasing
        <5>2. \A i \in 1..Len(disk'[u]) : x.write < disk'[u][i].write
          BY <3>1, <3>3, <4>1, <5>1
        <5> QED
          BY <5>2 DEF InOrBefore
      <4>2. CASE k # 1
        <5>1. k - 1 \in 1..Len(disk'[u]) /\ (k - 1) + 1 = k
          <6> HIDE DEF u
          <6> QED
            BY <3>1, <4>2
        <5>2. disk'[u][k - 1].write = x.write
          BY <3>1, <3>3, <5>1
        <5> QED
          BY <5>1, <5>2 DEF InOrBefore, InDisk
      <4> QED
        BY <4>1, <4>2
    <3> QED
      BY <3>2, <3>3 DEF InOrBefore, InDisk
  <2> QED
    BY <2>2, <2>3
<1>3. ASSUME NEW b, Stored(b) PROVE InOrBefore(x)'
  <2>1. x.write < b.write
    BY <1>3 DEF Stored
  <2>2. CASE \A i \in 1..Len(disk[u]) : x.write < disk[u][i].write
    <3>1. \A i \in 1..Len(disk'[u]) : x.write < disk'[u][i].write
      BY <1>3, <2>1, <2>2 DEF Stored
    <3> QED
      BY <3>1 DEF InOrBefore
  <2>3. CASE InDisk(x)
    BY <1>3, <2>3 DEF Stored, InOrBefore, InDisk
  <2> QED
    BY <2>2, <2>3 DEF InOrBefore
<1> QED
  BY <1>1, <1>2, <1>3 DEF QueuesMove

(* The log grows.                                                          *)
LogGrows == \A i \in 1..Len(log) : i \in 1..Len(log') /\ log'[i] = log[i]

LEMMA LogGrowsOf ==
    ASSUME Types, UNCHANGED log \/ \E r : Takes(r)
    PROVE  LogGrows
<1>1. Len(log) \in Nat
  BY DEF Types
<1> QED
  BY <1>1 DEF LogGrows, Takes

LEMMA LoggedStays ==
    ASSUME LogGrows, NEW b, Logged(b)
    PROVE  Logged(b)'
BY DEF LogGrows, Logged

(* An entry of the log names a write and its user.                         *)
LEMMA LoggedFacts ==
    ASSUME Types
    PROVE  /\ \A i \in 1..Len(log) : /\ log[i] \in Entry /\ log[i].user \in User
                                     /\ log[i].write \in Write /\ log[i].write \in Nat
           /\ \A b : \A i \in 1..Len(log) :
                 log[i] = LogEntry(b) <=> log[i].write = b.write /\ log[i].user = b.user
<1>1. ASSUME NEW i \in 1..Len(log)
      PROVE  /\ log[i] \in Entry /\ log[i].user \in User
             /\ log[i].write \in Write /\ log[i].write \in Nat
  <2>1. log[i] \in Entry
    BY DEF Types
  <2> QED
    BY <2>1, BoundAssumption DEF Entry, Write
<1>2. ASSUME NEW b, NEW i \in 1..Len(log)
      PROVE  log[i] = LogEntry(b) <=> log[i].write = b.write /\ log[i].user = b.user
  <2>1. log[i] = [write |-> log[i].write, user |-> log[i].user]
    BY <1>1 DEF Entry
  <2> QED
    BY <2>1 DEF LogEntry
<1> QED
  BY <1>1, <1>2

LEMMA LoggedSame ==
    ASSUME NEW b, NEW c, b.write = c.write, b.user = c.user, Logged(b)
    PROVE  Logged(c)
BY DEF Logged, LogEntry

(* The server may commit what the batch asks for.                          *)
Ready(b) ==
    /\ b.user \in User /\ b.write \in Nat
    /\ Past(b.write)
    /\ InOrBefore(b)
    /\ InDisk(b) \/ Logged(b) \/ b.write \in refused
    /\ \A k \in 1..Len(disk[b.user]) :
          disk[b.user][k].write < b.write => Logged(disk[b.user][k])

LEMMA LogWhenTaken ==
    ASSUME Types, Numbers, LogInOrder, UNCHANGED <<disk, refused, workQueue, issued>>,
           NEW b, Takes(b), b # Handshake => Ready(b)
    PROVE  LogInOrder'
<1>1. CASE UNCHANGED log
  BY <1>1 DEF LogInOrder, FirstCommitsInOrder, InOrBefore, InDisk, Past, Logged
<1>2. CASE log' # log
  <2> DEFINE n == Len(log)
             u == b.user
  <2>1. /\ ~Logged(b) /\ Ready(b)
        /\ Len(log') = n + 1 /\ log'[n + 1] = LogEntry(b) /\ n \in Nat
        /\ \A i \in 1..n : log'[i] = log[i]
    BY <1>2 DEF Takes, Types
  <2>2. /\ log'[n + 1].write = b.write /\ log'[n + 1].user = u
        /\ u \in User /\ b.write \in Nat
    BY <2>1 DEF LogEntry, Ready
  <2> HIDE DEF n
  <2>3. \A i \in 1..Len(log') : i \in 1..n \/ i = n + 1
    BY <2>1
  <2>4. \A i \in 1..n : i \in 1..Len(log)
    BY DEF n
  <2>5. ASSUME NEW i \in 1..n, log[i].user = u, b.write \notin refused
        PROVE  log[i].write < b.write
    <3>1. PICK k \in 1..Len(disk[u]) : disk[u][k].write = b.write
      BY <2>1, <2>5 DEF Ready, InDisk
    <3>2. log[i].write \in Nat /\ InOrBefore(log[i])
      BY <2>4, LoggedFacts DEF LogInOrder
    <3>3. CASE \A m \in 1..Len(disk[u]) : log[i].write < disk[u][m].write
      BY <3>1, <3>3
    <3>4. ASSUME NEW m \in 1..Len(disk[u]), disk[u][m].write = log[i].write
          PROVE  log[i].write < b.write
      <4>1. Logged(disk[u][m])
        <5>1. disk[u][m].user = u
          BY <2>2, StoredBatch
        <5> QED
          BY <2>4, <2>5, <3>4, <5>1, LoggedFacts DEF Logged
      <4>2. /\ Len(disk[u]) \in Nat /\ disk[u][k].user = u /\ disk[u][m].write \in Nat
        BY <2>2, StoredBatch DEF Types
      <4>3. CASE m < k
        BY <2>2, <3>1, <3>4, <4>3 DEF Numbers, QueuesInOrder, Increasing
      <4>4. CASE m = k \/ k < m
        <5>1. Logged(disk[u][k])
          BY <2>2, <4>1, <4>4 DEF LogInOrder
        <5>2. Logged(b)
          BY <3>1, <4>2, <5>1, LoggedSame
        <5> QED
          BY <2>1, <5>2
      <4> QED
        BY <4>2, <4>3, <4>4
    <3> QED
      BY <2>5, <3>2, <3>3, <3>4 DEF InOrBefore, InDisk
  <2>6. FirstCommitsInOrder'
    <3> SUFFICES ASSUME NEW i \in 1..Len(log'), NEW j \in 1..Len(log'),
                        i < j, log'[i].user = log'[j].user, log'[j].write \notin refused'
                 PROVE  log'[i].write < log'[j].write
      BY DEF FirstCommitsInOrder
    <3>1. CASE j = n + 1
      <4>1. i \in 1..n /\ log'[i] = log[i]
        BY <2>1, <2>3, <3>1
      <4>2. log[i].user = u /\ b.write \notin refused
        BY <2>2, <3>1, <4>1
      <4> QED
        BY <2>2, <2>5, <3>1, <4>1, <4>2
    <3>2. CASE j # n + 1
      <4>1. i \in 1..n /\ j \in 1..n
        BY <2>1, <2>3, <3>2
      <4> QED
        BY <2>1, <2>4, <4>1 DEF LogInOrder, FirstCommitsInOrder
    <3> QED
      BY <3>1, <3>2
  <2>7. \A i \in 1..Len(log') : InOrBefore(log[i])' /\ Past(log[i].write)'
    <3> TAKE i \in 1..Len(log')
    <3>1. CASE i = n + 1
      BY <2>1, <2>2, <3>1 DEF Ready, InOrBefore, InDisk, Past
    <3>2. CASE i \in 1..n
      BY <2>1, <2>4, <3>2 DEF LogInOrder, InOrBefore, InDisk, Past
    <3> QED
      BY <2>3, <3>1, <3>2
  <2>8. LogGrows
    BY LogGrowsOf
  <2>9. ASSUME NEW v \in User, NEW i \in 1..Len(disk[v]), NEW j \in 1..Len(disk[v]),
               i < j, Logged(disk[v][j])'
        PROVE  Logged(disk[v][i])'
    <3>1. PICK x : x = disk[v][i]
      OBVIOUS
    <3>2. PICK m \in 1..Len(log') : log'[m] = LogEntry(disk'[v][j])
      BY <2>9 DEF Logged, LogEntry
    <3>3. Logged(x)
      <4>1. CASE m \in 1..n
        <5>1. Logged(disk[v][j])
          BY <2>1, <2>4, <3>2, <4>1 DEF Logged
        <5> QED
          BY <2>9, <3>1, <5>1 DEF LogInOrder
      <4>2. CASE m = n + 1
        <5>1. disk[v][j].write = b.write /\ disk[v][j].user = u
          BY <2>1, <3>2, <4>2 DEF LogEntry
        <5>2. v = u
          BY <5>1, StoredBatch
        <5>3. disk[v][i].write < disk[v][j].write
          BY <2>9 DEF Numbers, QueuesInOrder, Increasing
        <5> QED
          BY <2>1, <3>1, <5>1, <5>2, <5>3 DEF Ready
      <4> QED
        BY <2>3, <4>1, <4>2
    <3>4. Logged(x)'
      BY <2>8, <3>3, LoggedStays
    <3> QED
      BY <3>1, <3>4 DEF Logged, LogEntry
  <2> QED
    BY <2>6, <2>7, <2>9 DEF LogInOrder, Logged, LogEntry
<1> QED
  BY <1>1, <1>2

LEMMA LogWhenKept ==
    ASSUME Types, Numbers, QueueMoves, QueuesMove, LogInOrder, UNCHANGED log, refused \subseteq refused'
    PROVE  LogInOrder'
<1>1. FirstCommitsInOrder'
  BY DEF LogInOrder, FirstCommitsInOrder
<1>2. \A i \in 1..Len(log') : InOrBefore(log[i])' /\ Past(log[i].write)'
  <2> TAKE i \in 1..Len(log')
  <2>1. PICK x : x = log[i]
    OBVIOUS
  <2>2. x.user \in User /\ x.write \in Nat /\ InOrBefore(x) /\ Past(x.write) /\ x = log'[i]
    BY <2>1, LoggedFacts DEF LogInOrder
  <2>3. InOrBefore(x)'
    BY <2>2, InOrBeforeKept
  <2>4. PICK w \in Nat : w = x.write
    BY <2>2
  <2>5. Past(w)'
    BY <2>2, <2>4, PastKept
  <2> QED
    BY <2>2, <2>3, <2>4, <2>5 DEF InOrBefore, InDisk, Past
<1>3. ASSUME NEW u \in User, NEW i \in 1..Len(disk'[u]), NEW j \in 1..Len(disk'[u]),
             i < j, Logged(disk'[u][j])
      PROVE  Logged(disk'[u][i])
  <2>1. CASE UNCHANGED disk
    BY <1>3, <2>1 DEF LogInOrder
  <2>2. CASE Taken
    <3>1. CASE u # client.user
      <4>1. disk'[u] = disk[u]
        BY <2>2, <3>1 DEF Taken, TakesFirst
      <4> QED
        BY <1>3, <4>1 DEF LogInOrder
    <3>2. CASE u = client.user
      <4>1. /\ disk'[u][i] = disk[u][i + 1] /\ i + 1 \in 1..Len(disk[u])
            /\ disk'[u][j] = disk[u][j + 1] /\ j + 1 \in 1..Len(disk[u])
        BY <2>2, <3>2, LeftBehind DEF Taken
      <4>2. i + 1 < j + 1
        BY <1>3
      <4> QED
        BY <1>3, <4>1, <4>2 DEF LogInOrder
    <3> QED
      BY <3>1, <3>2
  <2>3. ASSUME NEW b, Stored(b) PROVE Logged(disk'[u][i])
    <3>1. Len(disk[u]) \in Nat
      BY DEF Types
    <3>2. CASE j \in 1..Len(disk[u]) /\ disk'[u][j] = disk[u][j]
      <4>1. i \in 1..Len(disk[u])
        BY <1>3, <3>1, <3>2
      <4>2. disk'[u][i] = disk[u][i]
        BY <2>3, <4>1 DEF Stored
      <4> QED
        BY <1>3, <3>2, <4>1, <4>2 DEF LogInOrder
    <3>3. CASE disk'[u][j] = b
      <4>1. PICK m \in 1..Len(log) : log[m] = LogEntry(b)
        BY <1>3, <3>3 DEF Logged
      <4>2. log[m].write = b.write /\ log[m].write \in Nat
        BY <4>1, LoggedFacts
      <4>3. Past(log[m].write)
        BY DEF LogInOrder
      <4>4. log[m].write < b.write
        BY <2>3, <4>2, <4>3 DEF Stored
      <4> QED
        BY <4>2, <4>4
    <3> QED
      BY <2>3, <3>2, <3>3 DEF Stored
  <2> QED
    BY <2>1, <2>2, <2>3 DEF QueuesMove
<1> QED
  BY <1>1, <1>2, <1>3 DEF LogInOrder, Logged

(* The batch that a step takes out is settled.                             *)
FrontSettled ==
    Taken => \/ Logged(disk[client.user][1])
             \/ disk[client.user][1].write \in refused

ServerMoves == LogGrows /\ refused \subseteq refused'

LEMMA LateOkKept ==
    ASSUME Types, Numbers, QueueMoves, QueuesMove, ServerMoves, FrontSettled,
           NEW b, b.user \in User, b.write \in Nat, LateOk(b)
    PROVE  LateOk(b)'
<1>1. Past(b.write)'
  BY PastKept DEF LateOk
<1>2. InOrBefore(b)'
  BY InOrBeforeKept DEF LateOk
<1>3. ASSUME Logged(b) PROVE Logged(b)'
  BY <1>3, LoggedStays DEF ServerMoves
<1>4. ASSUME NEW i \in 1..Len(disk[b.user]), disk[b.user][i].write = b.write
      PROVE  InDisk(b)' \/ Logged(b)' \/ b.write \in refused'
  <2>1. CASE UNCHANGED disk
    BY <1>4, <2>1 DEF InDisk
  <2>2. ASSUME NEW c, Stored(c) PROVE InDisk(b)'
    BY <1>4, <2>2 DEF InDisk, Stored
  <2>3. CASE Taken
    <3>1. CASE b.user # client.user
      <4>1. disk'[b.user] = disk[b.user]
        BY <2>3, <3>1 DEF Taken, TakesFirst
      <4> QED
        BY <1>4, <4>1 DEF InDisk
    <3>2. CASE b.user = client.user /\ i = 1
      <4>1. disk[b.user][1].user = b.user
        BY <1>4, <3>2, StoredBatch
      <4>2. Logged(disk[b.user][1]) => Logged(b)
        BY <1>4, <3>2, <4>1, LoggedSame
      <4> QED
        BY <1>3, <1>4, <2>3, <3>2, <4>2 DEF FrontSettled, ServerMoves
    <3>3. CASE b.user = client.user /\ i # 1
      <4>1. /\ Len(disk[b.user]) \in Nat \ {0} /\ Len(disk'[b.user]) = Len(disk[b.user]) - 1
            /\ \A k \in 1..Len(disk'[b.user]) : disk'[b.user][k] = disk[b.user][k + 1]
        BY <2>3, <3>3, LeftBehind DEF Taken
      <4>2. i - 1 \in 1..Len(disk'[b.user]) /\ (i - 1) + 1 = i
        BY <4>1, <3>3
      <4>3. disk'[b.user][i - 1].write = b.write
        BY <1>4, <4>1, <4>2
      <4> QED
        BY <4>2, <4>3 DEF InDisk
    <3> QED
      BY <3>1, <3>2, <3>3
  <2> QED
    BY <2>1, <2>2, <2>3 DEF QueuesMove
<1>5. InDisk(b)' \/ Logged(b)' \/ b.write \in refused'
  BY <1>3, <1>4 DEF LateOk, InDisk, ServerMoves
<1> QED
  BY <1>1, <1>2, <1>5 DEF LateOk

(* What is stored before a write that the worker queue is past was stored  *)
(* before.                                                                 *)
LEMMA StoredBefore ==
    ASSUME Types, QueuesMove, NEW u \in User, NEW w \in Nat, Past(w),
           NEW k \in 1..Len(disk'[u]), disk'[u][k].write < w
    PROVE  \E m \in 1..Len(disk[u]) : disk'[u][k] = disk[u][m]
<1>1. CASE UNCHANGED disk
  BY <1>1
<1>2. CASE Taken
  <2>1. client.user \in User
    BY ClientSeqs DEF Types
  <2> QED
    BY <1>2, <2>1, LeftBehind DEF Taken
<1>3. ASSUME NEW b, Stored(b) PROVE \E m \in 1..Len(disk[u]) : disk'[u][k] = disk[u][m]
  <2>1. w < b.write /\ b.write \in Nat
    BY <1>3, BoundAssumption DEF Stored, Batch, Write
  <2>2. disk'[u][k] # b
    BY <2>1
  <2> QED
    BY <1>3, <2>2 DEF Stored
<1> QED
  BY <1>1, <1>2, <1>3 DEF QueuesMove

LEMMA LateRequests ==
    ASSUME Types, NEW i \in 1..Len(client.late), IsBatch(client.late[i])
    PROVE  /\ client.late[i] \in Batch /\ client.late[i].user \in User
           /\ client.late[i].write \in Nat
<1>1. client.late[i] \in Request
  BY ClientSeqs DEF Types
<1>2. client.late[i] \in Batch
  BY <1>1 DEF Request, IsBatch
<1> QED
  BY <1>2, BoundAssumption DEF Batch, Write

(* LateInOrder, by batch and place.                                        *)
LateAt(b, i) == i \in 1..Len(client.late) /\ client.late[i] = b /\ IsBatch(b)
Before(c, b) == c.write < b.write /\ \E k \in 1..Len(disk[b.user]) : disk[b.user][k] = c

LEMMA LateInOrderUse ==
    ASSUME LateInOrder, NEW b, NEW i, LateAt(b, i)
    PROVE  LateOk(b) /\ \A c : Before(c, b) => Logged(c) \/ LateBefore(c, i)
<1>1. i \in 1..Len(client.late) /\ client.late[i] = b /\ IsBatch(client.late[i])
  BY DEF LateAt
<1>2. /\ LateOk(b)
      /\ \A k \in 1..Len(disk[b.user]) : disk[b.user][k].write < b.write =>
            Logged(disk[b.user][k]) \/ LateBefore(disk[b.user][k], i)
  BY <1>1 DEF LateInOrder
<1> QED
  BY <1>2 DEF Before

LEMMA LateInOrderNext ==
    ASSUME \A b, i : LateAt(b, i)' =>
              LateOk(b)' /\ \A c : Before(c, b)' => Logged(c)' \/ LateBefore(c, i)'
    PROVE  LateInOrder'
<1> SUFFICES ASSUME NEW i \in 1..Len(client'.late), IsBatch(client.late[i])'
             PROVE  /\ LateOk(client.late[i])'
                    /\ \A k \in 1..Len(disk[client.late[i].user])' :
                          (disk[client.late[i].user][k].write < client.late[i].write)' =>
                          \/ Logged(disk[client.late[i].user][k])'
                          \/ LateBefore(disk[client.late[i].user][k], i)'
  BY DEF LateInOrder
<1>1. PICK b : b = client'.late[i]
  OBVIOUS
<1>2. LateAt(b, i)'
  BY <1>1 DEF LateAt, IsBatch
<1>3. LateOk(b)'
  BY <1>2
<1>4. ASSUME NEW k \in 1..Len(disk'[b.user]), disk'[b.user][k].write < b.write
      PROVE  Logged(disk[b.user][k])' \/ LateBefore(disk[b.user][k], i)'
  <2>1. PICK c : c = disk'[b.user][k]
    OBVIOUS
  <2>2. Before(c, b)'
    BY <1>4, <2>1 DEF Before
  <2>3. Logged(c)' \/ LateBefore(c, i)'
    BY <1>2, <2>2
  <2> QED
    BY <2>1, <2>3 DEF Logged, LogEntry, LateBefore
<1>5. LateOk(client.late[i])'
  <2>1. Past(client.late[i].write)'
    BY <1>1, <1>3 DEF LateOk, Past
  <2>2. InDisk(client.late[i])' <=> InDisk(b)'
    BY <1>1 DEF InDisk
  <2>3. InOrBefore(client.late[i])'
    BY <1>1, <1>3, <2>2 DEF LateOk, InOrBefore
  <2>4. Logged(client.late[i])' <=> Logged(b)'
    BY <1>1 DEF Logged, LogEntry
  <2>5. (client.late[i].write \in refused)' <=> b.write \in refused'
    BY <1>1
  <2> QED
    BY <1>3, <2>1, <2>2, <2>3, <2>4, <2>5 DEF LateOk
<1>6. ASSUME NEW k \in 1..Len(disk[client.late[i].user])',
             (disk[client.late[i].user][k].write < client.late[i].write)'
      PROVE  \/ Logged(disk[client.late[i].user][k])'
             \/ LateBefore(disk[client.late[i].user][k], i)'
  <2>1. k \in 1..Len(disk'[b.user]) /\ disk'[b.user][k].write < b.write
    BY <1>1, <1>6
  <2>2. Logged(disk[b.user][k])' \/ LateBefore(disk[b.user][k], i)'
    BY <1>4, <2>1
  <2>3. disk'[b.user][k] = disk'[client'.late[i].user][k]
    BY <1>1
  <2> QED
    BY <2>2, <2>3 DEF Logged, LogEntry, LateBefore
<1> QED
  BY <1>5, <1>6

(* An old call's requests are kept, but for the first, which the server    *)
(* takes.                                                                  *)
LEMMA LateWhenKept ==
    ASSUME Types, Numbers, QueueMoves, QueuesMove, ServerMoves, FrontSettled, LateInOrder,
           NEW d \in {0, 1}, Len(client'.late) + d = Len(client.late),
           Len(client'.late) \in Nat,
           \A i \in 1..Len(client'.late) : client'.late[i] = client.late[i + d],
           \A x : d = 1 /\ x = client.late[1] /\ IsBatch(x) => Logged(x)'
    PROVE  LateInOrder'
<1> SUFFICES ASSUME NEW b, NEW i, LateAt(b, i)'
             PROVE  LateOk(b)' /\ \A c : Before(c, b)' => Logged(c)' \/ LateBefore(c, i)'
  BY LateInOrderNext
<1>1. i \in 1..Len(client'.late) /\ client'.late[i] = b /\ IsBatch(b)
  BY DEF LateAt, IsBatch
<1>2. i + d \in 1..Len(client.late) /\ client.late[i + d] = b
  BY <1>1
<1>3. b \in Batch /\ b.user \in User /\ b.write \in Nat
  BY <1>1, <1>2, LateRequests
<1>0. PICK n : n = i + d
  OBVIOUS
<1>4. LateAt(b, n)
  BY <1>0, <1>1, <1>2 DEF LateAt
<1>5. LateOk(b) /\ \A c : Before(c, b) => Logged(c) \/ LateBefore(c, n)
  BY <1>4, LateInOrderUse
<1>6. LateOk(b)'
  BY <1>3, <1>5, LateOkKept
<1>7. ASSUME NEW c, Before(c, b)'
      PROVE  Logged(c)' \/ LateBefore(c, i)'
  <2>1. PICK k \in 1..Len(disk'[b.user]) : disk'[b.user][k] = c
    BY <1>7 DEF Before
  <2>2. c.write < b.write /\ Past(b.write)
    BY <1>5, <1>7 DEF Before, LateOk
  <2>3. PICK m \in 1..Len(disk[b.user]) : disk'[b.user][k] = disk[b.user][m]
    BY <1>3, <2>1, <2>2, StoredBefore
  <2>4. Before(c, b)
    BY <2>1, <2>2, <2>3 DEF Before
  <2>5. CASE Logged(c)
    BY <2>5, LoggedStays DEF ServerMoves
  <2>6. CASE LateBefore(c, n)
    <3>1. PICK h \in 1..(n - 1) : client.late[h] = c
      BY <2>6 DEF LateBefore
    <3>2. CASE d = 1 /\ h = 1
      <4>1. c \in Batch
        BY <1>3, <2>1, <2>3, StoredBatch
      <4>2. IsBatch(c)
        BY <4>1, NotABatch DEF IsBatch
      <4> QED
        BY <3>1, <3>2, <4>2
    <3>3. CASE ~(d = 1 /\ h = 1)
      <4>1. d = 0 \/ d = 1
        OBVIOUS
      <4>2. i \in Nat /\ i <= Len(client'.late)
        BY <1>1
      <4>3. h - d \in 1..(i - 1) /\ h - d \in 1..Len(client'.late) /\ (h - d) + d = h
        BY <1>0, <3>3, <4>1, <4>2
      <4>4. client'.late[h - d] = c
        BY <3>1, <4>3
      <4> QED
        BY <4>3, <4>4 DEF LateBefore
    <3> QED
      BY <3>2, <3>3
  <2> QED
    BY <1>5, <2>4, <2>5, <2>6
<1> QED
  BY <1>6, <1>7

(* What is on its way on a call is what its user's queue has next.         *)
LEMMA OutIsNext ==
    ASSUME Types, Streams, NEW i \in 1..Len(client.out), IsBatch(client.out[i]), client.end = "none"
    PROVE  /\ client.handshake /\ CarriesPipeline(client)
           /\ Len(client.in) \in Nat
           /\ Len(client.in) + i \in 1..Len(disk[client.user])
           /\ Len(client.in) + i \in 1..Len(client.pipeline)
           /\ client.out[i] = client.pipeline[Len(client.in) + i]
           /\ client.out[i] = disk[client.user][Len(client.in) + i]
           /\ \A k \in 1..Len(client.in) : client.in[k] = disk[client.user][k] /\ k \in 1..Len(disk[client.user])
           /\ \A h \in 1..Len(client.out) :
                 /\ Len(client.in) + h \in 1..Len(disk[client.user])
                 /\ client.out[h] = disk[client.user][Len(client.in) + h]
<1> DEFINE u == client.user
           inLen == Len(client.in)
           outLen == Len(client.out)
           pipeLen == Len(client.pipeline)
           diskLen == Len(disk[u])
<1>1. client.out # <<>>
  BY ClientSeqs DEF Types
<1>2. IsOpen(client)
  BY <1>1 DEF Streams, Fits, CallFits
<1>3. client.handshake
  BY <1>2 DEF Streams, Fits, CallFits, ShakesHands, IsBatch
<1>4. CarriesPipeline(client) /\ IsFront(client.pipeline, disk[u])
  BY <1>2, <1>3 DEF Streams, Fits, CallFits, PipelineFits
<1>5. inLen \in Nat /\ outLen \in Nat /\ pipeLen \in Nat /\ diskLen \in Nat
  BY ClientSeqs DEF Types
<1>6. inLen + outLen = pipeLen /\ pipeLen <= diskLen
  BY <1>4 DEF CarriesPipeline, IsFront
<1>7. /\ \A k \in 1..inLen : client.in[k] = client.pipeline[k]
      /\ \A h \in 1..outLen : client.out[h] = client.pipeline[inLen + h]
      /\ \A k \in 1..pipeLen : client.pipeline[k] = disk[u][k]
  BY <1>4 DEF CarriesPipeline, IsFront
<1>8. i \in 1..outLen
  OBVIOUS
<1> HIDE DEF inLen, outLen, pipeLen, diskLen
<1>9. \A h \in 1..outLen : inLen + h \in 1..pipeLen /\ inLen + h \in 1..diskLen
  BY <1>5, <1>6
<1>10. \A k \in 1..inLen : k \in 1..pipeLen /\ k \in 1..diskLen
  BY <1>5, <1>6
<1>11. /\ \A h \in 1..outLen : client.out[h] = disk[u][inLen + h]
       /\ \A k \in 1..inLen : client.in[k] = disk[u][k]
  BY <1>7, <1>9, <1>10
<1> QED
  BY <1>3, <1>4, <1>5, <1>7, <1>8, <1>9, <1>10, <1>11 DEF inLen, outLen, pipeLen, diskLen

(* What of the queue comes before a request is committed or is on its way  *)
(* before it.                                                              *)
LEMMA OutIsOk ==
    ASSUME Types, Numbers, Streams, ResultsAreTrue,
           NEW i \in 1..Len(client.out), IsBatch(client.out[i]), client.end = "none"
    PROVE  LET b == client.out[i]
           IN  /\ b \in Batch /\ b.user = client.user /\ b.user \in User /\ b.write \in Nat
               /\ LateOk(b) /\ InDisk(b)
               /\ \A k \in 1..Len(disk[b.user]) : disk[b.user][k].write < b.write =>
                     \/ Logged(disk[b.user][k])
                     \/ \E h \in 1..(i - 1) : client.out[h] = disk[b.user][k]
<1>1. PICK b : b = client.out[i]
  OBVIOUS
<1>2. PICK u : u = client.user
  OBVIOUS
<1>3. PICK n : n = Len(client.in)
  OBVIOUS
<1>4. /\ n \in Nat /\ n + i \in 1..Len(disk[u]) /\ b = disk[u][n + i]
      /\ \A k \in 1..n : client.in[k] = disk[u][k] /\ k \in 1..Len(disk[u])
      /\ \A h \in 1..Len(client.out) : n + h \in 1..Len(disk[u]) /\ client.out[h] = disk[u][n + h]
  BY <1>1, <1>2, <1>3, OutIsNext
<1>5. u \in User
  BY <1>2, ClientSeqs DEF Types
<1>6. b \in Batch /\ b.user = u /\ b.write \in Nat
  BY <1>4, <1>5, StoredBatch
<1>7. Past(b.write) /\ Increasing(disk[u])
  BY <1>4, <1>5 DEF Numbers, QueuesInOrder
<1>8. InDisk(b)
  BY <1>4, <1>6 DEF InDisk
<1>9. ASSUME NEW k \in 1..Len(disk[u]), disk[u][k].write < b.write
      PROVE  Logged(disk[u][k]) \/ \E h \in 1..(i - 1) : client.out[h] = disk[u][k]
  <2>1. k < n + i
    <3>1. CASE k = n + i
      BY <1>4, <1>6, <1>9, <3>1
    <3>2. CASE n + i < k
      <4>1. b.write < disk[u][k].write /\ disk[u][k].write \in Nat
        BY <1>4, <1>5, <1>7, <3>2, StoredBatch DEF Increasing
      <4> QED
        BY <1>6, <1>9, <4>1
    <3> QED
      BY <1>4, <3>1, <3>2
  <2>2. CASE k \in 1..n
    <3>1. client.in[k] = disk[u][k] /\ k \in 1..Len(client.in)
      BY <1>3, <1>4, <2>2
    <3>2. IsBatch(client.in[k])
      BY <1>5, <3>1, StoredBatch, NotABatch DEF IsBatch
    <3> QED
      BY <3>1, <3>2 DEF ResultsAreTrue
  <2>3. CASE k \notin 1..n
    <3>1. k - n \in 1..(i - 1) /\ k - n \in 1..Len(client.out) /\ n + (k - n) = k
      <4>1. i \in 1..Len(client.out) /\ Len(client.out) \in Nat
        BY ClientSeqs DEF Types
      <4> QED
        BY <1>4, <2>1, <2>3, <4>1
    <3>2. client.out[k - n] = disk[u][k]
      BY <1>4, <3>1
    <3> QED
      BY <3>1, <3>2
  <2> QED
    BY <2>2, <2>3
<1> QED
  BY <1>1, <1>2, <1>5, <1>6, <1>7, <1>8, <1>9 DEF LateOk, InOrBefore

(* A call is given up.                                                     *)
LEMMA LateWhenForgotten ==
    ASSUME Types, Numbers, Streams, ResultsAreTrue, QueueMoves,
           UNCHANGED <<disk, log, refused>>,
           client'.late = (IF client.end = "none" THEN client.out ELSE <<>>)
    PROVE  LateInOrder'
<1> SUFFICES ASSUME NEW b, NEW i, LateAt(b, i)'
             PROVE  LateOk(b)' /\ \A c : Before(c, b)' => Logged(c)' \/ LateBefore(c, i)'
  BY LateInOrderNext
<1>1. i \in 1..Len(client'.late) /\ client'.late[i] = b /\ IsBatch(b)
  BY DEF LateAt, IsBatch
<1>2. CASE client.end = "none"
  <2>1. i \in 1..Len(client.out) /\ client'.late = client.out /\ client.out[i] = b
    BY <1>1, <1>2
  <2>2. IsBatch(client.out[i])
    BY <1>1, <2>1
  <2>3. /\ b.user \in User /\ b.write \in Nat /\ LateOk(b)
        /\ \A k \in 1..Len(disk[b.user]) : disk[b.user][k].write < b.write =>
              \/ Logged(disk[b.user][k])
              \/ \E h \in 1..(i - 1) : client.out[h] = disk[b.user][k]
    BY <1>2, <2>1, <2>2, OutIsOk
  <2>4. Past(b.write)'
    BY <2>3, PastKept DEF LateOk
  <2>5. LateOk(b)'
    BY <2>3, <2>4 DEF LateOk, InOrBefore, InDisk, Logged
  <2>6. ASSUME NEW c, Before(c, b)' PROVE Logged(c)' \/ LateBefore(c, i)'
    <3>1. PICK k \in 1..Len(disk[b.user]) : disk[b.user][k] = c /\ c.write < b.write
      BY <2>6 DEF Before
    <3>2. Logged(c) \/ \E h \in 1..(i - 1) : client.out[h] = c
      BY <2>3, <3>1
    <3> QED
      BY <2>1, <3>2 DEF Logged, LateBefore
  <2> QED
    BY <2>5, <2>6
<1>3. CASE client.end # "none"
  BY <1>1, <1>3
<1> QED
  BY <1>2, <1>3

(* A step keeps the call or gives it up.                                   *)
CallKept ==
    /\ client'.late = client.late /\ client'.in = client.in /\ client'.end = client.end
    /\ \/ client.end = "none"
       \/ \A i \in 1..Len(client.pipeline) : client'.pipeline[i] = client.pipeline[i]
CallForgotten ==
    /\ client'.late = (IF client.end = "none" THEN client.out ELSE <<>>)
    /\ client'.in = <<>> /\ client'.end = "none"

WaitsKept ==
    \/ client'.user = client.user /\ client'.waits = client.waits
    \/ client'.waits = {}

(* Nothing is stored, sent, settled or told.                               *)
Quiet ==
    /\ UNCHANGED <<disk, told, waited, log, refused>>
    /\ CallKept \/ CallForgotten
    /\ WaitsKept \/ RunWait

LEMMA CallWhenStopped ==
    ASSUME Streams, NEW s, NEW d, SameStream(s, client), SameCall(s, client), Stops(d, s),
           client'.late = d.late, client'.in = d.in, client'.end = d.end
    PROVE  CallKept \/ CallForgotten
<1>1. CASE IsStarted(s)
  BY <1>1 DEF Stops, Closes, Forgets, SameCall, CallForgotten
<1>2. CASE ~IsStarted(s)
  <2>1. client.end = "none"
    BY <1>2 DEF IsStarted, IsOpen, SameStream, Streams, Fits, CallFits
  <2> QED
    BY <1>2, <2>1 DEF Stops, SameCall, CallKept
<1> QED
  BY <1>1, <1>2

LEMMA CallWhenFilled ==
    ASSUME Types, NEW d \in Client, NEW queue, Fills(client', d, queue),
           d.late = client.late, d.in = client.in, d.end = client.end, d.pipeline = client.pipeline
    PROVE  CallKept
<1>1. PICK new : FilledWith(client', d, new) /\ new \in Seq(Batch)
  BY DEF Fills, ComesNext
<1>2. \A i \in 1..Len(d.pipeline) : (d.pipeline \o new)[i] = d.pipeline[i]
  <2>1. d.pipeline \in Seq(Batch)
    BY ClientSeqs
  <2> QED
    BY <1>1, <2>1, ConcatFacts
<1> QED
  BY <1>1, <1>2 DEF FilledWith, CallKept

LEMMA SameAsItself == SameStream(client, client) /\ SameCall(client, client)
BY DEF SameStream, SameCall

LEMMA QuietCallEnds ==
    ASSUME Types, NEW status, CallEnds(status), ~Rejects(status), UNCHANGED server
    PROVE  Quiet
<1>1. /\ UNCHANGED <<disk, told, waited>>
      /\ \E d \in Client : BreakLeaves(d) /\ SameEngine(client', d) /\ SameCall(client', d)
  BY BreakFields
<1>2. PICK d \in Client : BreakLeaves(d) /\ SameEngine(client', d) /\ SameCall(client', d)
  BY <1>1
<1>3. CallForgotten
  BY <1>2 DEF BreakLeaves, Closes, Forgets, SameCall, CallForgotten
<1>4. WaitsKept
  BY <1>2 DEF BreakLeaves, Closes, SameEngine, WaitsKept
<1> QED
  BY <1>1, <1>3, <1>4 DEF Quiet, server

LEMMA QuietWorker ==
    ASSUME Types, Numbers, Streams, RunWorkQueue, ~RunWrite
    PROVE  Quiet
<1> USE SameAsItself
<1>0. QueuesInOrder /\ PipelineFits(client, disk[client.user])
  BY DEF Numbers, Streams, Fits
<1>1. CASE RunCredential
  <2> DEFINE u == Head(workQueue).user
  <2>1. UNCHANGED <<disk, told, waited, log, refused>>
    BY <1>1 DEF RunCredential, app, server
  <2>2. PICK s \in Client :
            /\ SwapLeaves(s, u)
            /\ \/ ~client.network /\ client' = s
               \/ /\ client.network
                  /\ \E d \in Client : Afresh(d, s) /\ Fills(client', d, disk[u])
    BY <1>0, <1>1, RunCredentialFields
  <2>3. CASE client' = s
    <3>1. CallKept
      BY <2>2, <2>3 DEF SwapLeaves, SameStream, SameCall, CallKept
    <3>2. WaitsKept
      BY <2>2, <2>3 DEF SwapLeaves, WaitsKept
    <3> QED
      BY <2>1, <3>1, <3>2 DEF Quiet
  <2>4. ASSUME NEW d \in Client, Afresh(d, s), Fills(client', d, disk[u]) PROVE Quiet
    <3>1. /\ SameEngine(client', d) /\ client'.late = d.late
          /\ client'.in = d.in /\ client'.end = d.end
      BY <2>4 DEF Fills, FilledWith
    <3>2. Stops(d, s) /\ SameStream(s, client) /\ SameCall(s, client) /\ SameEngine(d, s)
      BY <2>2, <2>4 DEF Afresh, SwapLeaves, Stops, Closes
    <3>3. CallKept \/ CallForgotten
      BY <3>1, <3>2, CallWhenStopped
    <3>4. WaitsKept
      BY <2>2, <3>1, <3>2 DEF SwapLeaves, SameEngine, WaitsKept
    <3> QED
      BY <2>1, <3>3, <3>4 DEF Quiet
  <2> QED
    BY <2>2, <2>3, <2>4
<1>2. CASE RunResume
  <2> DEFINE task == workQueue[1]
  <2>1. /\ UNCHANGED server
        /\ \/ UNCHANGED <<client, disk, told, waited>>
           \/ CallEnds("unknown")
           \/ ResumeOpens(task.token) /\ UNCHANGED <<disk, told, waited>>
    BY <1>2, RunResumeFields
  <2>2. CASE UNCHANGED <<client, disk, told, waited>>
    BY <2>1, <2>2 DEF Quiet, CallKept, WaitsKept, server
  <2>3. CASE CallEnds("unknown")
    <3>1. ~Rejects("unknown")
      BY DEF Rejects, IsPermanentWriteError, IsPermanentError
    <3> QED
      BY <2>1, <2>3, <3>1, QuietCallEnds
  <2>4. CASE ResumeOpens(task.token) /\ UNCHANGED <<disk, told, waited>>
    BY <2>1, <2>4 DEF ResumeOpens, SameEngine, Quiet, CallKept, WaitsKept, server
  <2> QED
    BY <2>1, <2>2, <2>3, <2>4
<1>3. CASE RunDisable
  <2>1. Stops(client', client) /\ UNCHANGED <<disk, app, server>>
    BY <1>3, RunDisableFields
  <2>2. CallKept \/ CallForgotten
    BY <2>1, CallWhenStopped
  <2>3. WaitsKept
    BY <2>1 DEF Stops, Closes, SameEngine, WaitsKept
  <2> QED
    BY <2>1, <2>2, <2>3 DEF Quiet, app, server
<1>4. CASE RunEnable
  <2>1. PICK d \in Client : EnableLeaves(d) /\ Fills(client', d, disk[client.user])
    BY <1>0, <1>4, RunEnableFields
  <2>2. UNCHANGED <<disk, app, server>>
    BY <1>4 DEF RunEnable
  <2>3. CallKept
    <3>1. d.late = client.late /\ d.in = client.in /\ d.end = client.end /\ d.pipeline = client.pipeline
      BY <2>1 DEF EnableLeaves, SameCall
    <3> QED
      BY <2>1, <3>1, CallWhenFilled
  <2>4. WaitsKept
    BY <2>1 DEF EnableLeaves, Fills, FilledWith, SameEngine, WaitsKept
  <2> QED
    BY <2>2, <2>3, <2>4 DEF Quiet, app, server
<1>5. CASE RunConnectivity
  <2>1. /\ UNCHANGED <<disk, app, server>>
        /\ \/ UNCHANGED client
           \/ \E d \in Client : Afresh(d, client) /\ Fills(client', d, disk[client.user])
    BY <1>0, <1>5, RunConnectivityFields
  <2>2. CASE UNCHANGED client
    BY <2>1, <2>2 DEF Quiet, CallKept, WaitsKept, app, server
  <2>3. ASSUME NEW d \in Client, Afresh(d, client), Fills(client', d, disk[client.user]) PROVE Quiet
    <3>1. /\ SameEngine(client', d) /\ client'.late = d.late
          /\ client'.in = d.in /\ client'.end = d.end
      BY <2>3 DEF Fills, FilledWith
    <3>2. Stops(d, client) /\ SameEngine(d, client)
      BY <2>3 DEF Afresh, Stops, Closes
    <3>3. CallKept \/ CallForgotten
      BY <3>1, <3>2, CallWhenStopped
    <3>4. WaitsKept
      BY <3>1, <3>2 DEF SameEngine, WaitsKept
    <3> QED
      BY <2>1, <3>3, <3>4 DEF Quiet, app, server
  <2> QED
    BY <2>1, <2>2, <2>3
<1>6. CASE RunWait
  <2>1. SameStream(client', client) /\ SameCall(client', client) /\ UNCHANGED <<disk, app, server>>
    BY <1>6, RunWaitFields
  <2> QED
    BY <1>6, <2>1 DEF SameStream, SameCall, Quiet, CallKept, app, server
<1> QED
  BY <1>1, <1>2, <1>3, <1>4, <1>5, <1>6 DEF RunWorkQueue

LEMMA QuietRestart ==
    ASSUME Types, Numbers, Restart
    PROVE  Quiet
<1>1. PICK d \in Client :
          /\ Fresh(d, authUser)
          /\ d.late = IF client.end = "none" THEN client.out ELSE <<>>
          /\ Fills(client', d, disk[authUser])
  BY RestartFields DEF Numbers
<1>2. CallForgotten
  BY <1>1 DEF Fills, FilledWith, Fresh, CallForgotten
<1>3. WaitsKept
  BY <1>1 DEF Fills, FilledWith, Fresh, SameEngine, WaitsKept
<1> QED
  BY <1>2, <1>3 DEF Restart, Quiet, app, server

LEMMA QuietStep ==
    ASSUME Types, Numbers, Streams, [Next]_vars
    PROVE  \/ Quiet \/ RunWrite \/ HandshakeComplete \/ MutationResult
           \/ CallEnded /\ Rejects(client.end)
           \/ ServerAnswers \/ ServerRefuses \/ ServerTakesLate \/ ServerNeverTakesLate
<1> USE SameAsItself
<1>1. CASE UNCHANGED <<client, disk, told, waited, log, refused>>
  BY <1>1 DEF Quiet, CallKept, WaitsKept
<1>2. CASE UNCHANGED vars \/ IssueWrite \/ CallNetwork \/ CallEnableNetwork
           \/ (\E u \in User : ChangeUser(u)) \/ RunPosted
  BY <1>1, <1>2 DEF vars, IssueWrite, CallNetwork, CallEnableNetwork, ChangeUser, RunPosted, app, server
<1>3. ASSUME SameButAsked(client', client), UNCHANGED <<disk, app, server>> PROVE Quiet
  BY <1>3 DEF SameButAsked, SameEngine, SameCall, Quiet, CallKept, WaitsKept, app, server
<1>4. ASSUME NEW ask \in client.asked, ReadUser(ask) \/ FetchToken(ask) \/ TokenFails(ask)
      PROVE  Quiet
  BY <1>3, <1>4, ReadUserFields, AnswerFields DEF Answers
<1>5. CASE RunToken
  BY <1>3, <1>5, RunTokenFields
<1>6. CASE Restart
  BY <1>6, QuietRestart
<1>7. CASE RunWorkQueue /\ ~RunWrite
  BY <1>7, QuietWorker
<1>8. CASE BackoffElapsed
  <2>1. /\ SameEngine(client', client) /\ SameCall(client', client)
        /\ client'.pipeline = client.pipeline /\ UNCHANGED <<disk, app, server>>
    BY <1>8, BackoffElapsedFields
  <2> QED
    BY <2>1 DEF SameEngine, SameCall, Quiet, CallKept, WaitsKept, app, server
<1>9. CASE IdleElapsed
  <2>1. Stops(client', client) /\ UNCHANGED <<disk, app, server>>
    BY <1>9, IdleElapsedFields
  <2>2. CallKept \/ CallForgotten
    BY <2>1, CallWhenStopped
  <2>3. WaitsKept
    BY <2>1 DEF Stops, Closes, SameEngine, WaitsKept
  <2> QED
    BY <2>1, <2>2, <2>3 DEF Quiet, app, server
<1>10. CASE CallEnded /\ ~Rejects(client.end)
  BY <1>10, QuietCallEnds DEF CallEnded
<1>11. CASE CallBreaks
  <2>1. PICK status \in {"unavailable", "aborted"} \cup (IF client.handshake THEN {} ELSE {"denied"}) :
            CallEnds(status)
    BY <1>11 DEF CallBreaks
  <2>2. ~Rejects(status)
    BY <2>1 DEF Rejects, IsPermanentWriteError, IsPermanentError
  <2> QED
    BY <1>11, <2>1, <2>2, QuietCallEnds DEF CallBreaks
<1> QED
  BY <1>2, <1>4, <1>5, <1>6, <1>7, <1>8, <1>9, <1>10, <1>11 DEF Next, RunMainQueue, RunWorkQueue

(* What has come back on a call is the front of the pipeline.              *)
LEMMA InIsFront ==
    ASSUME Types, Streams, client.handshake
    PROVE  /\ Len(client.in) \in Nat /\ Len(client.in) <= Len(client.pipeline)
           /\ Len(client.pipeline) \in Nat
           /\ \A i \in 1..Len(client.in) : client.in[i] = client.pipeline[i]
           /\ client.end # "none" => Len(client.in) < Len(client.pipeline)
<1>1. IsOpen(client)
  BY DEF Streams
<1>2. CASE client.end = "none"
  <2>1. CarriesPipeline(client)
    BY <1>1, <1>2 DEF Streams, Fits, CallFits
  <2> DEFINE inLen == Len(client.in)
             outLen == Len(client.out)
             pipeLen == Len(client.pipeline)
  <2>2. inLen \in Nat /\ outLen \in Nat /\ pipeLen \in Nat
    BY ClientSeqs DEF Types
  <2>3. inLen + outLen = pipeLen /\ \A i \in 1..inLen : client.in[i] = client.pipeline[i]
    BY <2>1 DEF CarriesPipeline
  <2> HIDE DEF inLen, outLen, pipeLen
  <2>4. inLen <= pipeLen
    BY <2>2, <2>3
  <2> QED
    BY <1>2, <2>2, <2>3, <2>4 DEF inLen, pipeLen
<1>3. CASE client.end # "none"
  <2>1. EndsInPipeline(client)
    BY <1>1, <1>3 DEF Streams, Fits, CallFits
  <2>2. Len(client.in) \in Nat /\ Len(client.pipeline) \in Nat
    BY ClientSeqs DEF Types
  <2> QED
    BY <2>1, <2>2 DEF EndsInPipeline
<1> QED
  BY <1>2, <1>3

(* The stream of a call that was refused is open, and its handshake done.  *)
LEMMA EndedAfterHandshake ==
    ASSUME Streams, client.end # "none"
    PROVE  IsOpen(client) /\ client.handshake
BY DEF Streams, Fits, CallFits, ShakesHands

LEMMA ResultsWhenKept ==
    ASSUME Types, Streams, ResultsAreTrue, ServerMoves, CallKept
    PROVE  ResultsAreTrue'
<1>1. ASSUME NEW i \in 1..Len(client'.in), IsBatch(client'.in[i])
      PROVE  Logged(client.in[i])'
  <2>1. client'.in = client.in
    BY DEF CallKept
  <2>2. PICK b : b = client.in[i]
    OBVIOUS
  <2>3. Logged(b)
    BY <1>1, <2>1, <2>2 DEF ResultsAreTrue
  <2>4. Logged(b)'
    BY <2>3, LoggedStays DEF ServerMoves
  <2> QED
    BY <2>1, <2>2, <2>4 DEF Logged, LogEntry
<1>2. ASSUME client'.end = "denied"
      PROVE  client'.pipeline[Len(client'.in) + 1].write \in refused'
  <2>1. client.end = "denied" /\ client'.in = client.in
    BY <1>2 DEF CallKept
  <2>2. client.handshake
    BY <2>1, EndedAfterHandshake
  <2>3. Len(client.in) + 1 \in 1..Len(client.pipeline)
    <3> DEFINE inLen == Len(client.in)
               pipeLen == Len(client.pipeline)
    <3>1. inLen \in Nat /\ pipeLen \in Nat /\ inLen < pipeLen
      BY <2>1, <2>2, InIsFront
    <3> HIDE DEF inLen, pipeLen
    <3>2. inLen + 1 \in 1..pipeLen
      BY <3>1
    <3> QED
      BY <3>2 DEF inLen, pipeLen
  <2>4. client'.pipeline[Len(client.in) + 1] = client.pipeline[Len(client.in) + 1]
    BY <2>1, <2>3 DEF CallKept
  <2> QED
    BY <2>1, <2>4 DEF ResultsAreTrue, ServerMoves
<1> QED
  BY <1>1, <1>2 DEF ResultsAreTrue, Logged, IsBatch

LEMMA ResultsWhenForgotten ==
    ASSUME client'.in = <<>>, client'.end = "none"
    PROVE  ResultsAreTrue'
<1>1. \A i \in 1..Len(client'.in) : FALSE
  OBVIOUS
<1> QED
  BY <1>1 DEF ResultsAreTrue

LEMMA ResultsOfHandshake ==
    ASSUME Types, Streams, HandshakeComplete
    PROVE  ResultsAreTrue'
<1>1. client.in # <<>> /\ ~client.handshake /\ client'.in = Tail(client.in) /\ client'.end = client.end
  BY HandshakeFields
<1>2. ShakesHands(client)
  BY <1>1 DEF Streams, Fits, CallFits
<1>3. Len(Tail(client.in)) = 0 /\ Tail(client.in) \in Seq(Request)
  <2> DEFINE inLen == Len(client.in)
             outLen == Len(client.out)
             restLen == Len(Tail(client.in))
  <2>1. inLen \in Nat \ {0} /\ restLen = inLen - 1 /\ outLen \in Nat /\ Tail(client.in) \in Seq(Request)
    BY <1>1, ClientSeqs, TailFacts DEF Types
  <2>2. inLen + outLen <= 1
    BY <1>2 DEF ShakesHands
  <2> HIDE DEF inLen, outLen, restLen
  <2>3. restLen = 0
    BY <2>1, <2>2
  <2> QED
    BY <2>1, <2>3 DEF restLen
<1>4. client'.in = <<>>
  BY <1>1, <1>3, EmptySeq
<1> QED
  BY <1>1, <1>2, <1>4, ResultsWhenForgotten DEF ShakesHands

LEMMA ResultsOfMutationResult ==
    ASSUME Types, Numbers, Streams, ResultsAreTrue, MutationResult
    PROVE  ResultsAreTrue'
<1> DEFINE front == Head(client.pipeline)
<1>1. PICK d \in Client : /\ client.in # <<>> /\ client.handshake /\ client.pipeline # <<>>
                          /\ UNCHANGED <<log, refused>>
                          /\ MutationResultLeaves(d, front)
                          /\ Fills(client', d, disk'[client.user])
  BY MutationResultFields DEF Numbers, Streams, Fits, server
<1>2. PICK new : FilledWith(client', d, new) /\ new \in Seq(Batch)
  BY <1>1 DEF Fills, ComesNext
<1>3. /\ client'.in = Tail(client.in) /\ client'.end = client.end
      /\ client'.pipeline = Tail(client.pipeline) \o new
  BY <1>1, <1>2 DEF FilledWith, MutationResultLeaves
<1>4. /\ Len(client.in) \in Nat \ {0} /\ Len(client'.in) = Len(client.in) - 1
      /\ \A i \in 1..Len(client'.in) : client'.in[i] = client.in[i + 1] /\ i + 1 \in 1..Len(client.in)
  BY <1>1, <1>3, ClientSeqs, TailFacts DEF Types
<1>5. ASSUME NEW i \in 1..Len(client'.in), IsBatch(client'.in[i])
      PROVE  Logged(client.in[i])'
  <2>1. client'.in[i] = client.in[i + 1] /\ i + 1 \in 1..Len(client.in)
    BY <1>4
  <2>2. Logged(client.in[i + 1])
    BY <1>5, <2>1 DEF ResultsAreTrue, IsBatch
  <2> QED
    BY <1>1, <2>1, <2>2 DEF Logged, LogEntry
<1>6. ASSUME client'.end = "denied"
      PROVE  client'.pipeline[Len(client'.in) + 1].write \in refused'
  <2> DEFINE inLen == Len(client.in)
             pipeLen == Len(client.pipeline)
             rest == Tail(client.pipeline)
  <2>1. inLen \in Nat \ {0} /\ pipeLen \in Nat /\ inLen < pipeLen
    BY <1>1, <1>3, <1>4, <1>6, InIsFront
  <2>2. /\ rest \in Seq(Batch) /\ Len(rest) = pipeLen - 1
        /\ \A i \in 1..Len(rest) : rest[i] = client.pipeline[i + 1]
    BY <1>1, ClientSeqs, TailFacts DEF Types
  <2>3. \A i \in 1..Len(rest) : client'.pipeline[i] = rest[i]
    BY <1>2, <1>3, <2>2, ConcatFacts
  <2>4. Len(client'.in) + 1 = inLen
    <3>1. Len(client'.in) = inLen - 1
      BY <1>4
    <3> HIDE DEF inLen
    <3> QED
      BY <2>1, <3>1
  <2>5. inLen \in 1..Len(rest)
    <3> HIDE DEF inLen, pipeLen
    <3> QED
      BY <2>1, <2>2
  <2>6. client'.pipeline[inLen] = client.pipeline[inLen + 1]
    <3> HIDE DEF rest
    <3> QED
      BY <2>2, <2>3, <2>5
  <2>7. client.pipeline[inLen + 1].write \in refused
    BY <1>3, <1>6 DEF ResultsAreTrue
  <2> QED
    BY <1>1, <2>4, <2>6, <2>7
<1> QED
  BY <1>5, <1>6 DEF ResultsAreTrue, Logged, IsBatch

LEMMA ResultsOfServerAnswers ==
    ASSUME Types, Streams, ResultsAreTrue, ServerAnswers
    PROVE  ResultsAreTrue'
<1>1. /\ client.end = "none" /\ client.out[1] \in Request /\ Takes(client.out[1])
      /\ client'.in = Append(client.in, client.out[1]) /\ client'.end = client.end
  BY ServerAnswersFields
<1>2. PICK r : r = client.out[1]
  OBVIOUS
<1>3. LogGrows
  BY <1>1, LogGrowsOf
<1>4. PICK n : n = Len(client.in)
  OBVIOUS
<1>5. /\ n \in Nat /\ Len(client'.in) = n + 1
      /\ \A i \in 1..n : client'.in[i] = client.in[i]
      /\ client'.in[n + 1] = r
  BY <1>1, <1>2, <1>4, ClientSeqs, AppendFacts DEF Types
<1>6. ASSUME NEW i \in 1..Len(client'.in), IsBatch(client'.in[i])
      PROVE  Logged(client.in[i])'
  <2>1. PICK b : b = client'.in[i]
    OBVIOUS
  <2>2. CASE i = n + 1
    <3>1. b = r /\ r # Handshake
      BY <1>5, <1>6, <2>1, <2>2 DEF IsBatch
    <3>2. Logged(r)'
      <4>1. CASE Logged(r)
        BY <1>3, <4>1, LoggedStays
      <4>2. CASE Len(log') = Len(log) + 1 /\ log'[Len(log) + 1] = LogEntry(r)
        <5>1. Len(log) + 1 \in 1..Len(log')
          <6>1. Len(log) \in Nat
            BY DEF Types
          <6> QED
            BY <4>2, <6>1
        <5> QED
          BY <4>2, <5>1 DEF Logged, LogEntry
      <4> QED
        BY <1>1, <1>2, <3>1, <4>1, <4>2 DEF Takes
    <3> QED
      BY <2>1, <3>1, <3>2 DEF Logged, LogEntry
  <2>3. CASE i # n + 1
    <3>1. i \in 1..n /\ i \in 1..Len(client.in) /\ client'.in[i] = client.in[i]
      BY <1>4, <1>5, <2>3
    <3>2. Logged(b)
      BY <1>6, <2>1, <3>1 DEF ResultsAreTrue, IsBatch
    <3>3. Logged(b)'
      BY <1>3, <3>2, LoggedStays
    <3> QED
      BY <2>1, <3>3 DEF Logged, LogEntry
  <2> QED
    BY <2>2, <2>3
<1> QED
  BY <1>1, <1>6 DEF ResultsAreTrue, Logged, IsBatch

LEMMA ResultsOfServerRefuses ==
    ASSUME Types, Streams, ResultsAreTrue, ServerRefuses
    PROVE  ResultsAreTrue'
<1>1. /\ client.out # <<>> /\ client.end = "none"
      /\ client.out[1] \in Batch
      /\ refused' = refused \cup {client.out[1].write}
      /\ SameStream(client', client)
      /\ client'.in = client.in /\ client'.end = "denied"
      /\ UNCHANGED log
  BY ServerRefusesFields
<1>2. 1 \in 1..Len(client.out) /\ IsBatch(client.out[1])
  BY <1>1, ClientSeqs, NotABatch DEF Types, IsBatch
<1>3. client.out[1] = client.pipeline[Len(client.in) + 1]
  BY <1>1, <1>2, OutIsNext
<1>4. client'.pipeline[Len(client'.in) + 1].write \in refused'
  BY <1>1, <1>3 DEF SameStream
<1> QED
  BY <1>1, <1>4 DEF ResultsAreTrue, Logged, IsBatch

(* The batch in front is settled.                                          *)
SettlesFront(outcome) ==
    LET front == disk[client.user][1]
    IN  /\ Taken /\ client.user \in User
        /\ client'.user = client.user
        /\ client'.waits = {x \in client.waits : x.id # front.id}
        /\ NotifyUser(front.id, outcome)
        /\ TriggerPendingWriteCallbacks(front.id)
        /\ UNCHANGED <<log, refused>>
        /\ outcome = "ok" => Logged(front)
        /\ outcome = "rejected" => front.write \in refused

LEMMA SettlesOfResult ==
    ASSUME Types, Numbers, Streams, ResultsAreTrue, MutationResult
    PROVE  SettlesFront("ok") /\ client'.late = client.late
<1> DEFINE front == Head(client.pipeline)
<1>1. /\ QueuesInOrder /\ PipelineFits(client, disk[client.user])
      /\ UNCHANGED server
  BY DEF Numbers, Streams, Fits, MutationResult
<1>2. /\ client.in # <<>> /\ client.handshake /\ client.pipeline # <<>>
      /\ TakesFirst(disk', client.user)
      /\ NotifyUser(front.id, "ok")
      /\ TriggerPendingWriteCallbacks(front.id)
      /\ \E d \in Client : MutationResultLeaves(d, front) /\ Fills(client', d, disk'[client.user])
  BY <1>1, MutationResultFields
<1>3. /\ client.user \in User /\ disk[client.user] # <<>>
      /\ front = disk[client.user][1] /\ front = client.pipeline[1] /\ front \in Batch
  BY <1>1, <1>2, FrontIsFirst
<1>4. 1 \in 1..Len(client.in)
  BY <1>2, ClientSeqs DEF Types
<1>5. client.in[1] = front
  BY <1>2, <1>3, <1>4, InIsFront
<1>6. Logged(front)
  BY <1>3, <1>4, <1>5, NotABatch DEF ResultsAreTrue, IsBatch
<1>7. /\ client'.user = client.user /\ client'.waits = {x \in client.waits : x.id # front.id}
      /\ client'.late = client.late
  BY <1>2 DEF MutationResultLeaves, Settles, Fills, FilledWith, SameEngine
<1> QED
  BY <1>1, <1>2, <1>3, <1>6, <1>7 DEF SettlesFront, Taken, server

LEMMA SettlesOfRejection ==
    ASSUME Types, Numbers, Streams, ResultsAreTrue, CallEnded, Rejects(client.end)
    PROVE  /\ SettlesFront("rejected")
           /\ client'.late = <<>> /\ client'.in = <<>> /\ client'.end = "none"
<1> DEFINE front == Head(client.pipeline)
<1>1. /\ QueuesInOrder /\ PipelineFits(client, disk[client.user])
      /\ client.end # "none" /\ client.in = <<>> /\ CallEnds(client.end)
      /\ UNCHANGED server
  BY DEF Numbers, Streams, Fits, CallEnded
<1>2. /\ TakesFirst(disk', client.user)
      /\ NotifyUser(front.id, "rejected")
      /\ TriggerPendingWriteCallbacks(front.id)
      /\ \E d \in Client : RejectionLeaves(d, front) /\ Fills(client', d, disk'[client.user])
  BY <1>1, RejectionFields
<1>3. client.pipeline # <<>>
  BY DEF Rejects
<1>4. /\ client.user \in User /\ disk[client.user] # <<>>
      /\ front = disk[client.user][1] /\ front = client.pipeline[1]
  BY <1>1, <1>3, FrontIsFirst
<1>5. client.end = "denied"
  BY <1>1 DEF Types, Client
<1>6. Len(client.in) + 1 = 1
  BY <1>1
<1>7. front.write \in refused
  BY <1>4, <1>5, <1>6 DEF ResultsAreTrue
<1>8. /\ client'.user = client.user /\ client'.waits = {x \in client.waits : x.id # front.id}
      /\ client'.late = <<>> /\ client'.in = <<>> /\ client'.end = "none"
  BY <1>1, <1>2 DEF RejectionLeaves, Settles, Forgets, Fills, FilledWith, SameEngine
<1> QED
  BY <1>1, <1>2, <1>4, <1>7, <1>8 DEF SettlesFront, Taken, server

(* Only the callback of the batch in front is told of it.                  *)
LEMMA ToldOfFront ==
    ASSUME Types, Numbers, CallbacksArePending, disk[client.user] # <<>>,
           NEW outcome, NotifyUser(disk[client.user][1].id, outcome), NEW w \in Write
    PROVE  told'[w] = told[w] \/ (told'[w] = outcome /\ w = disk[client.user][1].write)
<1> DEFINE u == client.user
           front == disk[u][1]
<1>1. told'[w] = IF \E e \in client.callbacks[u] : e.id = front.id /\ e.write = w
                 THEN outcome ELSE told[w]
  BY DEF NotifyUser
<1>2. ASSUME NEW e \in client.callbacks[u], e.id = front.id, e.write = w
      PROVE  w = front.write
  <2>1. u \in User /\ disk[u] \in Seq(Batch)
    BY ClientSeqs DEF Types
  <2>2. e \in ToSet(disk[u])
    BY <1>2, <2>1 DEF CallbacksArePending
  <2>3. PICK i \in 1..Len(disk[u]) : disk[u][i] = e
    BY <2>1, <2>2, ToSetFacts
  <2>4. CASE i = 1
    BY <1>2, <2>3, <2>4
  <2>5. CASE i # 1
    <3>1. 1 \in 1..Len(disk[u]) /\ 1 < i
      BY <2>3, <2>5
    <3>2. front.id < e.id
      BY <2>1, <2>3, <3>1 DEF Numbers, QueuesInOrder, Increasing
    <3>3. front.id \in Nat
      BY <2>1, <3>1, StoredBatch
    <3> QED
      BY <1>2, <3>2, <3>3
  <2> QED
    BY <2>4, <2>5
<1> QED
  BY <1>1, <1>2

LEMMA ToldWhenKept ==
    ASSUME Types, Numbers, QueueMoves, QueuesMove, ToldIsGone, UNCHANGED told
    PROVE  ToldIsGone'
<1> SUFFICES ASSUME NEW w \in Write, told[w] # "nothing"
             PROVE  /\ Past(w)'
                    /\ \A u \in User : \A i \in 1..Len(disk'[u]) : disk'[u][i].write # w
  BY DEF ToldIsGone
<1>1. w \in Nat
  BY BoundAssumption DEF Write
<1>2. Past(w) /\ \A u \in User : \A i \in 1..Len(disk[u]) : disk[u][i].write # w
  BY DEF ToldIsGone
<1>3. Past(w)'
  BY <1>1, <1>2, PastKept
<1>4. ASSUME NEW u \in User, NEW i \in 1..Len(disk'[u]) PROVE disk'[u][i].write # w
  <2>1. CASE UNCHANGED disk
    BY <1>2, <2>1
  <2>2. CASE Taken
    <3>1. client.user \in User
      BY ClientSeqs DEF Types
    <3> QED
      BY <1>2, <2>2, <3>1, LeftBehind DEF Taken
  <2>3. ASSUME NEW b, Stored(b) PROVE disk'[u][i].write # w
    <3>1. w < b.write
      BY <1>1, <1>2, <2>3 DEF Stored
    <3>2. b.write # w
      BY <1>1, <3>1
    <3> QED
      BY <1>2, <2>3, <3>2 DEF Stored
  <2> QED
    BY <2>1, <2>2, <2>3 DEF QueuesMove
<1> QED
  BY <1>3, <1>4

LEMMA ToldWhenSettled ==
    ASSUME Types, Numbers, CallbacksArePending, QueueMoves, ToldIsGone,
           NEW outcome, SettlesFront(outcome)
    PROVE  ToldIsGone'
<1> DEFINE me == client.user
           front == disk[me][1]
<1>0. disk[me] # <<>> /\ me \in User /\ TakesFirst(disk', me) /\ NotifyUser(front.id, outcome)
  BY DEF SettlesFront, Taken
<1>1. 1 \in 1..Len(disk[me]) /\ Len(disk[me]) \in Nat \ {0}
  BY <1>0, LeftBehind
<1> SUFFICES ASSUME NEW w \in Write, told'[w] # "nothing"
             PROVE  /\ Past(w)'
                    /\ \A u \in User : \A i \in 1..Len(disk'[u]) : disk'[u][i].write # w
  BY DEF ToldIsGone
<1>2. w \in Nat
  BY BoundAssumption DEF Write
<1>3. CASE told[w] # "nothing"
  <2>1. Past(w) /\ \A u \in User : \A i \in 1..Len(disk[u]) : disk[u][i].write # w
    BY <1>3 DEF ToldIsGone
  <2>2. Past(w)'
    BY <1>2, <2>1, PastKept
  <2>3. ASSUME NEW u \in User, NEW i \in 1..Len(disk'[u]) PROVE disk'[u][i].write # w
    <3>1. PICK j \in 1..Len(disk[u]) : disk'[u][i] = disk[u][j]
      BY <1>0, LeftBehind
    <3> QED
      BY <2>1, <3>1
  <2> QED
    BY <2>2, <2>3
<1>4. CASE w = front.write
  <2>1. Past(w)
    BY <1>0, <1>1, <1>4 DEF Numbers, QueuesInOrder
  <2>2. Past(w)'
    BY <1>2, <2>1, PastKept
  <2>3. ASSUME NEW u \in User, NEW i \in 1..Len(disk'[u]), disk'[u][i].write = w
        PROVE  FALSE
    <3>1. CASE u = me
      <4>1. disk'[u][i] = disk[u][i + 1] /\ i + 1 \in 1..Len(disk[u]) /\ 1 < i + 1
        BY <1>0, <3>1, LeftBehind
      <4>2. front.write < disk[u][i + 1].write
        BY <1>0, <1>1, <3>1, <4>1 DEF Numbers, QueuesInOrder, Increasing
      <4> QED
        BY <1>2, <1>4, <2>3, <4>1, <4>2
    <3>2. CASE u # me
      <4>1. disk'[u] = disk[u]
        BY <1>0, <3>2 DEF TakesFirst
      <4>2. disk[u][i].write = disk[me][1].write
        BY <1>4, <2>3, <4>1
      <4> QED
        BY <1>0, <1>1, <2>3, <3>2, <4>1, <4>2 DEF Numbers, OneOwner
    <3> QED
      BY <3>1, <3>2
  <2> QED
    BY <2>2, <2>3
<1> QED
  BY <1>0, <1>3, <1>4, ToldOfFront

LEMMA InLogFacts ==
    ASSUME log \in Seq(Entry)
    PROVE  \A w : w \in InLog <=> \E i \in 1..Len(log) : log[i].write = w
<1> TAKE w
<1>1. w \in InLog <=> \E e \in ToSet(log) : e.write = w
  BY DEF InLog
<1> QED
  BY <1>1, ToSetFacts

LEMMA LoggedIsSettled ==
    ASSUME log \in Seq(Entry), NEW b, Logged(b)
    PROVE  b.write \in InLog /\ Settled(b.write)
<1>1. b.write \in InLog
  BY InLogFacts DEF Logged, LogEntry
<1> QED
  BY <1>1 DEF Settled

LEMMA InLogStays ==
    ASSUME log \in Seq(Entry), log' \in Seq(Entry), LogGrows, NEW w, w \in InLog
    PROVE  w \in InLog'
<1>1. PICK i \in 1..Len(log) : log[i].write = w
  BY InLogFacts
<1>2. i \in 1..Len(log') /\ log'[i].write = w
  BY <1>1 DEF LogGrows
<1>3. ASSUME log' \in Seq(Entry) PROVE \A v : v \in InLog' <=> \E j \in 1..Len(log') : log'[j].write = v
  <2> TAKE v
  <2>1. v \in InLog' <=> \E e \in ToSet(log') : e.write = v
    BY DEF InLog
  <2> QED
    BY <1>3, <2>1, ToSetFacts
<1> QED
  BY <1>2, <1>3

LEMMA SettledStays ==
    ASSUME log \in Seq(Entry), log' \in Seq(Entry), ServerMoves, NEW w, Settled(w)
    PROVE  Settled(w)'
BY InLogStays DEF Settled, ServerMoves

(* A write that a wait of the client covers.                               *)
Pending(w, id) ==
    \E i \in 1..Len(disk[client.user]) :
        disk[client.user][i].write = w /\ disk[client.user][i].id <= id

LEMMA WaitsCoverWhenKept ==
    ASSUME Types, Numbers, QueuesMove, ServerMoves, log' \in Seq(Entry), FrontSettled, WaitsCover,
           \/ client'.user = client.user /\ client'.waits \subseteq client.waits
           \/ client'.waits = {}
    PROVE  WaitsCover'
<1> SUFFICES ASSUME NEW x \in client'.waits, NEW w \in x.covers
             PROVE  Settled(w)' \/ Pending(w, x.id)'
  BY DEF WaitsCover, Pending
<1>0. log \in Seq(Entry) /\ client.user \in User
  BY ClientSeqs DEF Types
<1>1. client'.user = client.user /\ x \in client.waits
  OBVIOUS
<1>2. CASE Settled(w)
  BY <1>0, <1>2, SettledStays
<1>3. ASSUME NEW i \in 1..Len(disk[client.user]),
             disk[client.user][i].write = w, disk[client.user][i].id <= x.id
      PROVE  Settled(w)' \/ Pending(w, x.id)'
  <2>1. CASE UNCHANGED disk
    BY <1>1, <1>3, <2>1 DEF Pending
  <2>2. ASSUME NEW b, Stored(b) PROVE Pending(w, x.id)'
    BY <1>0, <1>1, <1>3, <2>2 DEF Pending, Stored
  <2>3. CASE Taken /\ i = 1
    <3>1. Settled(w)
      BY <1>0, <1>3, <2>3, LoggedIsSettled DEF FrontSettled, Settled
    <3> QED
      BY <1>0, <3>1, SettledStays
  <2>4. CASE Taken /\ i # 1
    <3> DEFINE u == client.user
    <3>1. /\ Len(disk[u]) \in Nat \ {0} /\ Len(disk'[u]) = Len(disk[u]) - 1
          /\ \A k \in 1..Len(disk'[u]) : disk'[u][k] = disk[u][k + 1]
      BY <1>0, <2>4, LeftBehind DEF Taken
    <3>2. i - 1 \in 1..Len(disk'[u]) /\ (i - 1) + 1 = i
      <4>1. i \in 1..Len(disk[u])
        OBVIOUS
      <4> HIDE DEF u
      <4> QED
        BY <2>4, <3>1, <4>1
    <3>3. disk'[u][i - 1] = disk[u][i]
      <4> HIDE DEF u
      <4> QED
        BY <3>1, <3>2
    <3> QED
      BY <1>1, <1>3, <3>2, <3>3 DEF Pending
  <2> QED
    BY <2>1, <2>2, <2>3, <2>4 DEF QueuesMove
<1> QED
  BY <1>1, <1>2, <1>3 DEF WaitsCover

LEMMA WaitsCoverOfRunWait ==
    ASSUME Types, Numbers, WaitsCover, RunWait
    PROVE  WaitsCover'
<1> DEFINE u == client.user
           queue == disk[u]
<1>1. /\ client'.user = u /\ UNCHANGED <<disk, app, server>>
      /\ \/ client'.waits = client.waits
         \/ queue # <<>> /\ client'.waits = client.waits \cup {WaitOf(queue)}
  BY RunWaitFields
<1>2. UNCHANGED <<log, refused>>
  BY <1>1 DEF server
<1> SUFFICES ASSUME NEW x \in client'.waits, NEW w \in x.covers
             PROVE  Settled(w)' \/ Pending(w, x.id)'
  BY DEF WaitsCover, Pending
<1>3. CASE x \in client.waits
  <2>1. Settled(w) \/ Pending(w, x.id)
    BY <1>3 DEF WaitsCover, Pending
  <2> QED
    BY <1>1, <1>2, <2>1 DEF Pending, Settled, InLog
<1>4. CASE queue # <<>> /\ x = WaitOf(queue)
  <2>1. u \in User /\ queue \in Seq(Batch) /\ Len(queue) \in Nat
    BY ClientSeqs DEF Types
  <2>2. \E b \in ToSet(queue) : b.write = w
    BY <1>4 DEF WaitOf
  <2>3. PICK i \in 1..Len(queue) : queue[i].write = w
    BY <2>1, <2>2, ToSetFacts
  <2>4. x.id = queue[Len(queue)].id /\ Len(queue) \in 1..Len(queue)
    BY <1>4, <2>1, <2>3 DEF WaitOf, Last
  <2>5. /\ queue[i].id \in Nat /\ queue[Len(queue)].id \in Nat
    BY <2>1, <2>3, <2>4, StoredBatch
  <2>6. queue[i].id <= queue[Len(queue)].id
    <3>1. CASE i = Len(queue)
      BY <2>5, <3>1
    <3>2. CASE i # Len(queue)
      <4>1. i < Len(queue)
        BY <2>1, <3>2
      <4>2. queue[i].id < queue[Len(queue)].id
        BY <2>1, <2>4, <4>1 DEF Numbers, QueuesInOrder, Increasing
      <4> QED
        BY <2>5, <4>2
    <3> QED
      BY <3>1, <3>2
  <2> QED
    BY <1>1, <2>3, <2>4, <2>6 DEF Pending
<1> QED
  BY <1>1, <1>3, <1>4

LEMMA AnswersWhenKept ==
    ASSUME Types, AnsweredTruly, UNCHANGED <<told, waited>>, ServerMoves, log' \in Seq(Entry)
    PROVE  AnsweredTruly'
<1>0. log \in Seq(Entry)
  BY DEF Types
<1>1. AckMeansCommitted'
  BY <1>0, InLogStays DEF AnsweredTruly, AckMeansCommitted, ServerMoves
<1>2. RejectedWasRefused'
  BY DEF AnsweredTruly, RejectedWasRefused, ServerMoves
<1>3. WaitCoversEarlier'
  <2> SUFFICES ASSUME NEW covers \in waited, NEW w \in covers PROVE Settled(w)'
    BY DEF WaitCoversEarlier
  <2>1. Settled(w)
    BY DEF AnsweredTruly, WaitCoversEarlier
  <2> QED
    BY <1>0, <2>1, SettledStays
<1> QED
  BY <1>1, <1>2, <1>3 DEF AnsweredTruly

LEMMA AnswersWhenSettled ==
    ASSUME Types, Numbers, CallbacksArePending, WaitsCover, AnsweredTruly,
           NEW outcome \in {"ok", "rejected"}, SettlesFront(outcome)
    PROVE  AnsweredTruly'
<1> DEFINE me == client.user
           front == disk[me][1]
<1>0. /\ disk[me] # <<>> /\ me \in User /\ NotifyUser(front.id, outcome)
      /\ TriggerPendingWriteCallbacks(front.id)
      /\ log' = log /\ refused' = refused
      /\ outcome = "ok" => Logged(front)
      /\ outcome = "rejected" => front.write \in refused
  BY DEF SettlesFront, Taken
<1>1. log \in Seq(Entry) /\ InLog' = InLog
  BY <1>0 DEF Types, InLog
<1>2. outcome = "ok" => front.write \in InLog
  BY <1>0, <1>1, LoggedIsSettled
<1>3. Settled(front.write)
  BY <1>0, <1>2 DEF Settled
<1>4. ASSUME NEW w \in Write
      PROVE  told'[w] = told[w] \/ (told'[w] = outcome /\ w = front.write)
  BY <1>0, ToldOfFront
<1>5. AckMeansCommitted'
  BY <1>1, <1>2, <1>4 DEF AnsweredTruly, AckMeansCommitted
<1>6. RejectedWasRefused'
  BY <1>0, <1>4 DEF AnsweredTruly, RejectedWasRefused
<1>7. WaitCoversEarlier'
  <2> SUFFICES ASSUME NEW covers \in waited', NEW w \in covers PROVE Settled(w)
    BY <1>0, <1>1 DEF WaitCoversEarlier, Settled
  <2>1. CASE covers \in waited
    BY <2>1 DEF AnsweredTruly, WaitCoversEarlier
  <2>2. ASSUME NEW x \in client.waits, x.id = front.id, covers = x.covers PROVE Settled(w)
    <3>1. CASE Pending(w, x.id)
      <4>1. PICK i \in 1..Len(disk[me]) : disk[me][i].write = w /\ disk[me][i].id <= front.id
        BY <2>2, <3>1 DEF Pending
      <4>2. i = 1
        <5>1. 1 \in 1..Len(disk[me]) /\ (i # 1 => 1 < i)
          BY <4>1
        <5>2. i # 1 => front.id < disk[me][i].id
          BY <1>0, <5>1 DEF Numbers, QueuesInOrder, Increasing
        <5>3. front.id \in Nat /\ disk[me][i].id \in Nat
          BY <1>0, <5>1, StoredBatch
        <5> QED
          BY <4>1, <5>2, <5>3
      <4> QED
        BY <1>3, <4>1, <4>2
    <3>2. CASE ~Pending(w, x.id)
      BY <2>2, <3>2 DEF WaitsCover, Pending
    <3> QED
      BY <3>1, <3>2
  <2> QED
    BY <1>0, <2>1, <2>2 DEF TriggerPendingWriteCallbacks
<1> QED
  BY <1>5, <1>6, <1>7 DEF AnsweredTruly

LEMMA NotTaken ==
    ASSUME Types, UNCHANGED disk \/ \E b : Stored(b)
    PROVE  ~Taken
<1> SUFFICES ASSUME Taken PROVE FALSE
  OBVIOUS
<1> DEFINE u == client.user
<1>1. /\ u \in User /\ Len(disk[u]) \in Nat \ {0} /\ Len(disk'[u]) = Len(disk[u]) - 1
  BY ClientSeqs, LeftBehind DEF Types, Taken
<1>2. CASE UNCHANGED disk
  BY <1>1, <1>2
<1>3. ASSUME NEW b, Stored(b) PROVE FALSE
  <2>1. Len(disk[u]) \in 1..Len(disk[u])
    BY <1>1
  <2>2. Len(disk[u]) \in 1..Len(disk'[u])
    BY <1>1, <1>3, <2>1 DEF Stored
  <2> QED
    BY <1>1, <2>2
<1> QED
  BY <1>2, <1>3

LEMMA ServerMovesOf ==
    ASSUME Types, UNCHANGED log \/ (\E r : Takes(r)), refused \subseteq refused'
    PROVE  ServerMoves
BY LogGrowsOf DEF ServerMoves

(* Nothing is stored, settled or told.                                     *)
LEMMA AppWhenKept ==
    ASSUME Types, Numbers, Commits, QueueMoves, log' \in Seq(Entry), ServerMoves,
           UNCHANGED <<disk, told, waited>>, WaitsKept
    PROVE  ToldIsGone' /\ WaitsCover' /\ AnsweredTruly'
<1>1. QueuesMove /\ FrontSettled
  BY NotTaken DEF QueuesMove, FrontSettled
<1>2. ToldIsGone'
  BY <1>1, ToldWhenKept DEF Commits
<1>3. WaitsCover'
  BY <1>1, WaitsCoverWhenKept DEF Commits, WaitsKept
<1>4. AnsweredTruly'
  BY AnswersWhenKept DEF Commits
<1> QED
  BY <1>2, <1>3, <1>4

LEMMA LateWhenSame ==
    ASSUME Types, Numbers, QueueMoves, QueuesMove, ServerMoves, FrontSettled, LateInOrder,
           client'.late = client.late
    PROVE  LateInOrder'
<1>1. PICK d \in {0, 1} : d = 0
  OBVIOUS
<1>2. Len(client'.late) \in Nat
  BY ClientSeqs DEF Types
<1>3. \A i \in 1..Len(client'.late) : client'.late[i] = client.late[i + d]
  BY <1>1
<1>4. \A x : d = 1 /\ x = client.late[1] /\ IsBatch(x) => Logged(x)'
  BY <1>1
<1>5. Len(client'.late) + d = Len(client.late)
  BY <1>1, <1>2
<1> QED
  BY <1>2, <1>3, <1>4, <1>5, LateWhenKept

LEMMA LateWhenNone ==
    ASSUME client'.late = <<>>
    PROVE  LateInOrder'
<1>1. \A i \in 1..Len(client'.late) : FALSE
  OBVIOUS
<1> QED
  BY <1>1 DEF LateInOrder

LEMMA CommitsOfQuiet ==
    ASSUME Types, Numbers, Streams, Commits, QueueMoves, log' \in Seq(Entry), Quiet
    PROVE  Commits'
<1>1. UNCHANGED <<disk, told, waited, log, refused>>
  BY DEF Quiet
<1>2. QueuesMove /\ FrontSettled /\ ServerMoves
  BY <1>1, NotTaken, ServerMovesOf DEF QueuesMove, FrontSettled
<1>3. LogInOrder'
  BY <1>1, <1>2, LogWhenKept DEF Commits
<1>4. LateInOrder' /\ ResultsAreTrue'
  <2>1. CASE CallKept
    BY <1>2, <2>1, LateWhenSame, ResultsWhenKept DEF Commits, CallKept
  <2>2. CASE CallForgotten
    BY <1>1, <2>2, LateWhenForgotten, ResultsWhenForgotten DEF Commits, CallForgotten
  <2> QED
    BY <2>1, <2>2 DEF Quiet
<1>5. ToldIsGone' /\ AnsweredTruly'
  BY <1>1, <1>2, ToldWhenKept, AnswersWhenKept DEF Commits
<1>6. WaitsCover'
  <2>1. CASE WaitsKept
    BY <1>1, <1>2, <2>1, AppWhenKept
  <2>2. CASE RunWait
    BY <2>2, WaitsCoverOfRunWait DEF Commits
  <2> QED
    BY <2>1, <2>2 DEF Quiet
<1> QED
  BY <1>3, <1>4, <1>5, <1>6 DEF Commits

LEMMA CommitsOfRunWrite ==
    ASSUME Types, Numbers, Streams, Commits, QueueMoves, log' \in Seq(Entry), RunWrite
    PROVE  Commits'
<1>0. PICK d \in Client : \E b : Stored(b) /\ WriteLeaves(d, b) /\ Fills(client', d, disk'[client.user])
  BY StoredOfRunWrite DEF Streams, Fits
<1>1. PICK b : Stored(b) /\ WriteLeaves(d, b) /\ Fills(client', d, disk'[client.user]) /\ d \in Client
  BY <1>0
<1>2. UNCHANGED <<told, waited, log, refused>>
  BY DEF RunWrite, app, server
<1>3. QueuesMove /\ FrontSettled /\ ServerMoves
  BY <1>1, <1>2, NotTaken, ServerMovesOf DEF QueuesMove, FrontSettled
<1>4. CallKept
  <2>1. d.late = client.late /\ d.in = client.in /\ d.end = client.end /\ d.pipeline = client.pipeline
    BY <1>1 DEF WriteLeaves, SameCall, SameStream
  <2> QED
    BY <1>1, <2>1, CallWhenFilled
<1>5. client'.user = client.user /\ client'.waits = client.waits
  BY <1>1 DEF WriteLeaves, Fills, FilledWith, SameEngine
<1>6. LogInOrder'
  BY <1>2, <1>3, LogWhenKept DEF Commits
<1>7. LateInOrder' /\ ResultsAreTrue'
  BY <1>3, <1>4, LateWhenSame, ResultsWhenKept DEF Commits, CallKept
<1>8. ToldIsGone' /\ AnsweredTruly'
  BY <1>2, <1>3, ToldWhenKept, AnswersWhenKept DEF Commits
<1>9. WaitsCover'
  BY <1>3, <1>5, WaitsCoverWhenKept DEF Commits
<1> QED
  BY <1>6, <1>7, <1>8, <1>9 DEF Commits

LEMMA CommitsOfSettling ==
    ASSUME Types, Numbers, Streams, Commits, QueueMoves, log' \in Seq(Entry),
           MutationResult \/ (CallEnded /\ Rejects(client.end))
    PROVE  Commits'
<1>1. PICK outcome \in {"ok", "rejected"} : SettlesFront(outcome)
  BY SettlesOfResult, SettlesOfRejection DEF Commits
<1>2. /\ Taken /\ UNCHANGED <<log, refused>>
      /\ client'.user = client.user /\ client'.waits \subseteq client.waits
  BY <1>1 DEF SettlesFront
<1>3. QueuesMove /\ FrontSettled /\ ServerMoves
  BY <1>1, <1>2, ServerMovesOf DEF QueuesMove, FrontSettled, SettlesFront
<1>4. LogInOrder'
  BY <1>2, <1>3, LogWhenKept DEF Commits
<1>5. LateInOrder'
  BY <1>3, LateWhenSame, LateWhenNone, SettlesOfResult, SettlesOfRejection DEF Commits
<1>6. ResultsAreTrue'
  BY ResultsOfMutationResult, SettlesOfRejection, ResultsWhenForgotten DEF Commits
<1>7. ToldIsGone' /\ AnsweredTruly'
  BY <1>1, ToldWhenSettled, AnswersWhenSettled DEF Commits, Streams
<1>8. WaitsCover'
  BY <1>2, <1>3, WaitsCoverWhenKept DEF Commits
<1> QED
  BY <1>4, <1>5, <1>6, <1>7, <1>8 DEF Commits

LEMMA CommitsOfHandshake ==
    ASSUME Types, Numbers, Streams, Commits, QueueMoves, log' \in Seq(Entry), HandshakeComplete
    PROVE  Commits'
<1>1. /\ SameEngine(client', client) /\ client'.late = client.late
      /\ UNCHANGED <<workQueue, disk, app, server>>
  BY HandshakeFields
<1>2. UNCHANGED <<told, waited, log, refused, issued>> /\ WaitsKept
  BY <1>1 DEF app, server, SameEngine, WaitsKept
<1>3. QueuesMove /\ FrontSettled /\ ServerMoves
  BY <1>1, <1>2, NotTaken, ServerMovesOf DEF QueuesMove, FrontSettled
<1>4. LogInOrder' /\ LateInOrder'
  BY <1>1, <1>2, <1>3, LogWhenKept, LateWhenSame DEF Commits
<1>5. ResultsAreTrue'
  BY ResultsOfHandshake
<1>6. ToldIsGone' /\ WaitsCover' /\ AnsweredTruly'
  BY <1>1, <1>2, <1>3, AppWhenKept
<1> QED
  BY <1>4, <1>5, <1>6 DEF Commits

LEMMA CommitsOfServerAnswers ==
    ASSUME Types, Numbers, Streams, Commits, QueueMoves, log' \in Seq(Entry), ServerAnswers
    PROVE  Commits'
<1>1. /\ client.out # <<>> /\ client.end = "none"
      /\ Takes(client.out[1])
      /\ SameEngine(client', client) /\ client'.late = client.late
      /\ UNCHANGED <<workQueue, disk, app, refused>>
  BY ServerAnswersFields
<1>2. UNCHANGED <<told, waited, issued>> /\ WaitsKept
  BY <1>1 DEF app, SameEngine, WaitsKept
<1>3. PICK b : b = client.out[1]
  OBVIOUS
<1>4. QueuesMove /\ FrontSettled /\ ServerMoves
  BY <1>1, NotTaken, ServerMovesOf DEF QueuesMove, FrontSettled
<1>5. ASSUME b # Handshake PROVE Ready(b)
  <2>1. 1 \in 1..Len(client.out) /\ IsBatch(client.out[1])
    BY <1>1, <1>3, <1>5, ClientSeqs DEF Types, IsBatch
  <2>2. \A h \in 1..(1 - 1) : FALSE
    OBVIOUS
  <2>3. /\ b.user \in User /\ b.write \in Nat /\ LateOk(b)
        /\ \A k \in 1..Len(disk[b.user]) : disk[b.user][k].write < b.write =>
              \/ Logged(disk[b.user][k])
              \/ \E h \in 1..(1 - 1) : client.out[h] = disk[b.user][k]
    BY <1>1, <1>3, <2>1, OutIsOk DEF Commits
  <2> QED
    BY <2>2, <2>3 DEF Ready, LateOk
<1>6. LogInOrder'
  BY <1>1, <1>2, <1>3, <1>5, LogWhenTaken DEF Commits
<1>7. LateInOrder'
  BY <1>1, <1>4, LateWhenSame DEF Commits
<1>8. ResultsAreTrue'
  BY ResultsOfServerAnswers DEF Commits
<1>9. ToldIsGone' /\ WaitsCover' /\ AnsweredTruly'
  BY <1>1, <1>2, <1>4, AppWhenKept
<1> QED
  BY <1>6, <1>7, <1>8, <1>9 DEF Commits

LEMMA CommitsOfTakesLate ==
    ASSUME Types, Numbers, Streams, Commits, QueueMoves, log' \in Seq(Entry), ServerTakesLate
    PROVE  Commits'
<1>1. /\ client.late # <<>>
      /\ Takes(client.late[1])
      /\ SameEngine(client', client) /\ SameStream(client', client)
      /\ client'.in = client.in /\ client'.end = client.end
      /\ client'.late = Tail(client.late)
      /\ UNCHANGED <<workQueue, disk, app, refused>>
  BY TakesLateFields
<1>2. UNCHANGED <<told, waited, issued>> /\ WaitsKept
  BY <1>1 DEF app, SameEngine, WaitsKept
<1>3. PICK b : b = client.late[1]
  OBVIOUS
<1>4. QueuesMove /\ FrontSettled /\ ServerMoves
  BY <1>1, NotTaken, ServerMovesOf DEF QueuesMove, FrontSettled
<1>5. ASSUME b # Handshake PROVE Ready(b)
  <2>1. 1 \in 1..Len(client.late)
    BY <1>1, ClientSeqs DEF Types
  <2>2. b.user \in User /\ b.write \in Nat
    BY <1>3, <1>5, <2>1, LateRequests DEF IsBatch
  <2>3. LateAt(b, 1)
    BY <1>3, <1>5, <2>1 DEF LateAt, IsBatch
  <2>4. LateOk(b) /\ \A c : Before(c, b) => Logged(c) \/ LateBefore(c, 1)
    BY <2>3, LateInOrderUse DEF Commits
  <2>5. \A c : ~LateBefore(c, 1)
    BY DEF LateBefore
  <2> QED
    BY <2>2, <2>4, <2>5 DEF Ready, LateOk, Before
<1>6. LogInOrder'
  BY <1>1, <1>2, <1>3, <1>5, LogWhenTaken DEF Commits
<1>7. LateInOrder'
  <2>1. PICK d \in {0, 1} : d = 1
    OBVIOUS
  <2>2. /\ Len(client.late) \in Nat \ {0} /\ Len(client'.late) = Len(client.late) - 1
        /\ \A i \in 1..Len(client'.late) : client'.late[i] = client.late[i + 1]
    BY <1>1, ClientSeqs, TailFacts DEF Types
  <2>3. /\ Len(client'.late) \in Nat /\ Len(client'.late) + d = Len(client.late)
        /\ \A i \in 1..Len(client'.late) : client'.late[i] = client.late[i + d]
    BY <2>1, <2>2
  <2>4. ASSUME NEW x, x = client.late[1], IsBatch(x) PROVE Logged(x)'
    <3>1. CASE Logged(x)
      BY <1>4, <3>1, LoggedStays DEF ServerMoves
    <3>2. CASE Len(log') = Len(log) + 1 /\ log'[Len(log) + 1] = LogEntry(x)
      <4>1. Len(log) + 1 \in 1..Len(log')
        <5>1. Len(log) \in Nat
          BY DEF Types
        <5> QED
          BY <3>2, <5>1
      <4> QED
        BY <3>2, <4>1 DEF Logged, LogEntry
    <3> QED
      BY <1>1, <2>4, <3>1, <3>2 DEF Takes, IsBatch
  <2> QED
    BY <1>4, <2>3, <2>4, LateWhenKept DEF Commits
<1>8. ResultsAreTrue'
  <2>2. ASSUME NEW i \in 1..Len(client'.in), IsBatch(client'.in[i]) PROVE Logged(client.in[i])'
    <3>1. PICK c : c = client.in[i]
      OBVIOUS
    <3>2. Logged(c)
      BY <1>1, <2>2, <3>1 DEF Commits, ResultsAreTrue, IsBatch
    <3>3. Logged(c)'
      BY <1>4, <3>2, LoggedStays DEF ServerMoves
    <3> QED
      BY <1>1, <3>1, <3>3 DEF Logged, LogEntry
  <2>3. client'.end = "denied" => client'.pipeline[Len(client'.in) + 1].write \in refused'
    BY <1>1 DEF Commits, ResultsAreTrue, SameStream
  <2> QED
    BY <2>2, <2>3 DEF ResultsAreTrue, Logged, IsBatch
<1>9. ToldIsGone' /\ WaitsCover' /\ AnsweredTruly'
  BY <1>1, <1>2, <1>4, AppWhenKept
<1> QED
  BY <1>6, <1>7, <1>8, <1>9 DEF Commits

LEMMA CommitsOfOthers ==
    ASSUME Types, Numbers, Streams, Commits, QueueMoves, log' \in Seq(Entry),
           ServerRefuses \/ ServerNeverTakesLate
    PROVE  Commits'
<1>1. /\ SameEngine(client', client) /\ SameStream(client', client) /\ client'.in = client.in
      /\ UNCHANGED <<workQueue, disk, app, log>> /\ refused \subseteq refused'
  BY ServerRefusesFields, NeverTakesLateFields DEF server
<1>2. UNCHANGED <<told, waited, issued>> /\ WaitsKept
  BY <1>1 DEF app, SameEngine, WaitsKept
<1>3. QueuesMove /\ FrontSettled /\ ServerMoves
  BY <1>1, NotTaken, ServerMovesOf DEF QueuesMove, FrontSettled
<1>4. LogInOrder'
  BY <1>1, <1>3, LogWhenKept DEF Commits
<1>5. LateInOrder'
  BY <1>3, ServerRefusesFields, NeverTakesLateFields, LateWhenSame, LateWhenNone DEF Commits
<1>6. ResultsAreTrue'
  <2>1. CASE ServerRefuses
    BY <2>1, ResultsOfServerRefuses DEF Commits
  <2>2. CASE ServerNeverTakesLate
    <3>1. client'.end = client.end /\ refused' = refused
      BY <2>2, NeverTakesLateFields DEF server
    <3> QED
      BY <1>1, <3>1 DEF Commits, ResultsAreTrue, SameStream, Logged, IsBatch
  <2> QED
    BY <2>1, <2>2
<1>7. ToldIsGone' /\ WaitsCover' /\ AnsweredTruly'
  BY <1>1, <1>2, <1>3, AppWhenKept
<1> QED
  BY <1>4, <1>5, <1>6, <1>7 DEF Commits

LEMMA CommitsStep ==
    ASSUME Types, Numbers, Streams, Commits, [Next]_vars
    PROVE  Commits'
<1>1. QueueMoves
  BY QueueMovesStep
<1>2. log' \in Seq(Entry)
  BY TypesStep DEF Streams, Fits, Types
<1> QED
  BY <1>1, <1>2, QuietStep, CommitsOfQuiet, CommitsOfRunWrite, CommitsOfSettling,
     CommitsOfHandshake, CommitsOfServerAnswers, CommitsOfTakesLate, CommitsOfOthers

LEMMA CommitsInit == Init => Commits
<1> SUFFICES ASSUME Init PROVE Commits
  OBVIOUS
<1>1. /\ client.in = <<>> /\ client.end = "none" /\ client.late = <<>> /\ client.waits = {}
  BY InitialClient DEF Fresh
<1>2. /\ log = <<>> /\ refused = {} /\ told = [w \in Write |-> "nothing"] /\ waited = {}
      /\ disk = [u \in User |-> <<>>]
  BY DEF Init
<1>3. LogInOrder
  BY <1>2 DEF LogInOrder, FirstCommitsInOrder
<1>4. LateInOrder /\ ResultsAreTrue
  BY <1>1 DEF LateInOrder, ResultsAreTrue
<1>5. ToldIsGone /\ WaitsCover
  BY <1>1, <1>2 DEF ToldIsGone, WaitsCover
<1>6. AnsweredTruly
  BY <1>2 DEF AnsweredTruly, AckMeansCommitted, RejectedWasRefused, WaitCoversEarlier
<1> QED
  BY <1>3, <1>4, <1>5, <1>6 DEF Commits

-----------------------------------------------------------------------------
(* The invariants, together, and what follows from them.                   *)

IInv == Types /\ Numbers /\ Streams /\ Waits /\ Users /\ Commits

(* What the client, the queues and the server hold fits together at every  *)
(* step, for any users, any number of writes and any room in the pipeline: *)
(* the invariant from which the properties of the model follow.            *)
THEOREM StaysIInv == Spec => []IInv
<1>1. Init => IInv
  BY TypesInit, NumbersInit, StreamsInit, WaitsInit, UsersInit, CommitsInit DEF IInv
<1>2. IInv /\ [Next]_vars => IInv'
  <2> SUFFICES ASSUME IInv, [Next]_vars PROVE IInv'
    OBVIOUS
  <2>1. /\ Types /\ Numbers /\ Streams /\ Waits /\ Users /\ Commits
        /\ PipelineFits(client, disk[client.user]) /\ OnlyStartingWaits
    BY DEF IInv, Streams, Fits, Waits
  <2>2. Types' /\ Numbers'
    BY <2>1, TypesStep, NumbersStep
  <2>3. Streams' /\ Waits' /\ Users' /\ Commits'
    BY <2>1, StreamsStep, WaitsStep, UsersStep, CommitsStep
  <2> QED
    BY <2>2, <2>3 DEF IInv
<1> QED
  BY <1>1, <1>2, PTL DEF Spec

LEMMA FrontIsPrefix ==
    ASSUME NEW S, NEW s \in Seq(S), NEW t \in Seq(S), IsFront(s, t)
    PROVE  IsPrefix(s, t)
<1> DEFINE n == Len(s)
           a == SubSeq(s, 1, n)
           b == SubSeq(t, 1, n)
<1>1. n \in Nat /\ n <= Len(t) /\ Len(t) \in Nat /\ \A i \in 1..n : s[i] = t[i]
  BY DEF IsFront
<1>2. /\ a \in Seq(S) /\ Len(a) = n /\ \A i \in 1..n : a[i] = s[i]
      /\ b \in Seq(S) /\ Len(b) = n /\ \A i \in 1..n : b[i] = t[i]
  <2>1. /\ a \in Seq(S) /\ Len(a) = n - 1 + 1
        /\ \A i \in 1..Len(a) : a[i] = s[1 + i - 1]
    BY <1>1, PartOfSeq
  <2>2. /\ b \in Seq(S) /\ Len(b) = n - 1 + 1
        /\ \A i \in 1..Len(b) : b[i] = t[1 + i - 1]
    BY <1>1, PartOfSeq
  <2>3. n - 1 + 1 = n /\ \A i \in 1..n : 1 + i - 1 = i
    BY <1>1
  <2> HIDE DEF a, b, n
  <2> QED
    BY <2>1, <2>2, <2>3
<1>3. a = b
  <2> HIDE DEF a, b
  <2>1. \A i \in 1..Len(a) : a[i] = b[i]
    BY <1>1, <1>2
  <2> QED
    BY <1>2, <2>1, SeqEqual
<1> QED
  BY <1>1, <1>3 DEF IsPrefix

LEMMA OnTheWay ==
    ASSUME Types, Streams
    PROVE  InFlightIsPipeline
<1>0. /\ client.in \in Seq(Request) /\ client.out \in Seq(Request) /\ client.pipeline \in Seq(Request)
      /\ Len(client.in) \in Nat /\ Len(client.out) \in Nat /\ Len(client.pipeline) \in Nat
  BY ClientSeqs DEF Types
<1> DEFINE onTheWay == client.in \o client.out
           inLen == Len(client.in)
           outLen == Len(client.out)
<1>1. /\ onTheWay \in Seq(Request) /\ Len(onTheWay) = inLen + outLen
      /\ \A i \in 1..Len(onTheWay) :
            \/ i \in 1..inLen /\ onTheWay[i] = client.in[i]
            \/ i - inLen \in 1..outLen /\ onTheWay[i] = client.out[i - inLen]
  <2>1. PICK a \in Seq(Request), b \in Seq(Request) : a = client.in /\ b = client.out
    BY <1>0
  <2>2. /\ a \o b \in Seq(Request) /\ Len(a \o b) = Len(a) + Len(b)
        /\ \A i \in 1..Len(a \o b) :
              \/ i \in 1..Len(a) /\ (a \o b)[i] = a[i]
              \/ i - Len(a) \in 1..Len(b) /\ (a \o b)[i] = b[i - Len(a)]
    BY ConcatFacts
  <2> QED
    BY <2>1, <2>2, Zenon
<1>2. CASE client.handshake /\ client.end = "none"
  <2>1. CarriesPipeline(client)
    BY <1>2 DEF Streams, Fits, CallFits
  <2>2. Len(onTheWay) = Len(client.pipeline)
    BY <1>1, <2>1 DEF CarriesPipeline
  <2>3. ASSUME NEW i \in 1..Len(onTheWay) PROVE onTheWay[i] = client.pipeline[i]
    <3>1. CASE i \in 1..inLen /\ onTheWay[i] = client.in[i]
      BY <2>1, <3>1 DEF CarriesPipeline
    <3>2. CASE i - inLen \in 1..outLen /\ onTheWay[i] = client.out[i - inLen]
      <4>1. client.out[i - inLen] = client.pipeline[inLen + (i - inLen)]
        BY <2>1, <3>2 DEF CarriesPipeline
      <4>2. inLen + (i - inLen) = i
        <5>1. inLen \in Nat /\ i \in Nat
          BY <1>0
        <5> HIDE DEF inLen
        <5> QED
          BY <5>1
      <4> QED
        BY <3>2, <4>1, <4>2
    <3> QED
      BY <1>1, <3>1, <3>2
  <2>4. onTheWay = client.pipeline
    <3> HIDE DEF onTheWay
    <3> QED
      BY <1>0, <1>1, <2>2, <2>3, SeqEqual
  <2> QED
    BY <1>2, <2>4 DEF InFlightIsPipeline
<1>3. CASE client.handshake /\ client.end # "none"
  <2>1. /\ inLen < Len(client.pipeline)
        /\ \A i \in 1..inLen : client.in[i] = client.pipeline[i]
    BY <1>3, InIsFront
  <2>2. IsFront(client.in, client.pipeline)
    BY <1>0, <2>1 DEF IsFront
  <2>3. IsPrefix(client.in, client.pipeline)
    BY <1>0, <2>2, FrontIsPrefix
  <2>4. client.in # client.pipeline
    BY <1>0, <2>1
  <2> QED
    BY <1>3, <2>3, <2>4 DEF InFlightIsPipeline, IsStrictPrefix
<1>4. CASE ~client.handshake
  <2>1. CASE ~IsOpen(client)
    <3>1. client.in = <<>> /\ client.out = <<>>
      BY <2>1 DEF Streams, Fits, CallFits
    <3>2. onTheWay = <<>>
      BY <3>1
    <3> QED
      BY <1>4, <3>2 DEF InFlightIsPipeline
  <2>2. CASE IsOpen(client)
    <3>1. /\ inLen + outLen <= 1
          /\ \A i \in 1..inLen : client.in[i] = Handshake
          /\ \A i \in 1..outLen : client.out[i] = Handshake
      BY <1>4, <2>2 DEF Streams, Fits, CallFits, ShakesHands
    <3>2. Len(onTheWay) \in Nat /\ Len(onTheWay) <= 1
      <4>1. inLen \in Nat /\ outLen \in Nat /\ Len(onTheWay) = inLen + outLen /\ inLen + outLen <= 1
        BY <1>0, <1>1, <3>1
      <4> HIDE DEF onTheWay, inLen, outLen
      <4> QED
        BY <4>1
    <3>3. \A i \in 1..Len(onTheWay) : onTheWay[i] = Handshake
      BY <1>1, <3>1
    <3>4. onTheWay = <<>> \/ onTheWay = <<Handshake>>
      <4> HIDE DEF onTheWay
      <4>1. CASE Len(onTheWay) = 0
        BY <1>1, <4>1, EmptySeq
      <4>2. CASE Len(onTheWay) = 1
        <5>1. onTheWay[1] = Handshake
          BY <3>3, <4>2
        <5>2. <<Handshake>> \in Seq(Request) /\ Len(<<Handshake>>) = 1 /\ <<Handshake>>[1] = Handshake
          BY DEF Request
        <5>3. \A i \in 1..Len(onTheWay) : onTheWay[i] = <<Handshake>>[i]
          BY <4>2, <5>1, <5>2
        <5> QED
          BY <1>1, <4>2, <5>2, <5>3, SeqEqual
      <4>3. PICK n \in Nat : n = Len(onTheWay) /\ n <= 1
        BY <3>2
      <4> QED
        <5>1. n = 0 \/ n = 1
          BY <4>3
        <5> QED
          BY <4>1, <4>2, <4>3, <5>1
    <3> QED
      BY <1>4, <3>4 DEF InFlightIsPipeline
  <2> QED
    BY <2>1, <2>2
<1> QED
  BY <1>2, <1>3, <1>4

LEMMA TypeOKOfIInv ==
    ASSUME Types, Streams
    PROVE  TypeOK
<1>1. authUser \in User /\ provider.user \in User /\ provider.counter \in Nat /\ refused \subseteq Write
  BY DEF Types
<1>2. told \in [Write -> {"nothing", "ok", "rejected"}]
  BY DEF Types, Outcome
<1>3. /\ client.state \in {"initial", "starting", "open", "error", "backoff"}
      /\ client.token \in User \cup {NoToken}
  BY DEF Types, Client, StreamState
<1>4. Len(client.pipeline) <= MaxPending
  BY DEF Streams, Fits, PipelineFits
<1>5. ASSUME NEW u \in User, NEW b \in ToSet(disk[u]) PROVE b \in Batch /\ b.user = u
  <2>1. disk[u] \in Seq(Batch)
    BY DEF Types
  <2>2. PICK i \in 1..Len(disk[u]) : disk[u][i] = b
    BY <2>1, ToSetFacts
  <2> QED
    BY <2>2, StoredBatch
<1> QED
  BY <1>1, <1>2, <1>3, <1>4, <1>5 DEF TypeOK

LEMMA InvOfIInv == IInv => Inv
<1> SUFFICES ASSUME IInv PROVE Inv
  OBVIOUS
<1>1. Types /\ Streams /\ Waits
  BY DEF IInv
<1>2. TypeOK /\ InFlightIsPipeline
  BY <1>1, TypeOKOfIInv, OnTheWay
<1>3. PipelineIsFront
  <2>1. client.pipeline \in Seq(Batch) /\ disk[client.user] \in Seq(Batch)
    BY <1>1, ClientSeqs DEF Types
  <2> QED
    BY <1>1, <2>1, FrontIsPrefix DEF PipelineIsFront, Streams, Fits, PipelineFits
<1>4. CallbacksArePending
  BY <1>1 DEF Streams
<1>5. ResumeFindsStarting
  BY <1>1 DEF Waits, OnlyStartingWaits, ResumeNow, ResumeAt, ResumeFindsStarting
<1>6. IdleHasNothingToSend
  BY <1>1 DEF Streams, Fits, CallFits, IdleHasNothingToSend
<1> QED
  BY <1>2, <1>3, <1>4, <1>5, <1>6 DEF Inv

(* Between any two tasks what the client keeps fits together: the pipeline *)
(* is the front of the user's mutation queue, what is on its way is the    *)
(* pipeline, and the assertions of the stream hold where they stand.       *)
THEOREM ClientFitsTogether == Spec => []Inv
<1>1. IInv => Inv
  BY InvOfIInv
<1> QED
  BY <1>1, StaysIInv, PTL

(* A request carries the token of the user whose write it is.              *)
LEMMA SentAsOwnerOfIInv == IInv => SentAsOwner
<1> SUFFICES ASSUME IInv, NEW i \in 1..Len(client.out), client.out[i] # Handshake
             PROVE  client.out[i].user = client.token
  BY DEF SentAsOwner
<1>1. Types /\ Streams /\ Users /\ client.user \in User
  BY ClientSeqs DEF IInv, Types
<1>2. IsOpen(client) /\ client.out[i].user = client.user
  <2>1. CASE client.end = "none"
    <3>1. PICK j \in 1..Len(disk[client.user]) : client.out[i] = disk[client.user][j]
      BY <1>1, <2>1, OutIsNext DEF IsBatch
    <3>2. client.out # <<>>
      BY <1>1, ClientSeqs DEF Types
    <3> QED
      BY <1>1, <3>1, <3>2, StoredBatch DEF Streams, Fits, CallFits
  <2>2. CASE client.end # "none"
    <3>1. IsOpen(client) /\ client.handshake
      BY <1>1, <2>2, EndedAfterHandshake
    <3>2. EndsInPipeline(client) /\ IsFront(client.pipeline, disk[client.user])
      BY <1>1, <2>2, <3>1 DEF Streams, Fits, CallFits, PipelineFits
    <3>3. PICK j \in (Len(client.in) + 1)..Len(client.pipeline) : client.out[i] = client.pipeline[j]
      BY <3>2 DEF EndsInPipeline
    <3>4. j \in 1..Len(client.pipeline) /\ j \in 1..Len(disk[client.user])
      <4> DEFINE inLen == Len(client.in)
                 pipeLen == Len(client.pipeline)
                 diskLen == Len(disk[client.user])
      <4>1. inLen \in Nat /\ pipeLen \in Nat /\ diskLen \in Nat /\ pipeLen <= diskLen
        BY <1>1, <3>2, ClientSeqs DEF Types, IsFront
      <4>2. j \in (inLen + 1)..pipeLen
        OBVIOUS
      <4> HIDE DEF inLen, pipeLen, diskLen
      <4>3. j \in 1..pipeLen /\ j \in 1..diskLen
        BY <4>1, <4>2
      <4> QED
        BY <4>3 DEF pipeLen, diskLen
    <3> QED
      BY <1>1, <3>1, <3>2, <3>3, <3>4, StoredBatch DEF IsFront
  <2> QED
    BY <2>1, <2>2
<1> QED
  BY <1>1, <1>2 DEF Users

(* A write reaches the server under its own user, whenever the user has    *)
(* changed, and the writes of a user reach it first in the order they were *)
(* made, over broken calls, restarts and late requests.                    *)
THEOREM WritesArriveAsWritten == Spec => []CommittedAsWritten
<1>1. IInv => CommittedAsWritten
  BY SentAsOwnerOfIInv DEF IInv, Commits, LogInOrder, CommittedAsWritten
<1> QED
  BY <1>1, StaysIInv, PTL

(* What a write's callback and a wait for pending writes tell the app is   *)
(* so: committed is on the server, rejected was refused by it, and a wait  *)
(* is over when all that was pending is settled.                           *)
THEOREM AppIsToldTheTruth == Spec => []AnsweredTruly
<1>1. IInv => AnsweredTruly
  BY DEF IInv, Commits
<1> QED
  BY <1>1, StaysIInv, PTL

-----------------------------------------------------------------------------
(* The client implements the outbox.                                       *)

WritesOf(queue) == [i \in 1..Len(queue) |-> queue[i].write]
OutboxOf == [u \in User |-> WritesOf(disk[u])]

LEMMA WritesOfFacts ==
    ASSUME NEW queue \in Seq(Batch)
    PROVE  /\ WritesOf(queue) \in Seq(Write) /\ Len(WritesOf(queue)) = Len(queue)
           /\ \A i \in 1..Len(queue) : WritesOf(queue)[i] = queue[i].write
<1>1. Len(queue) \in Nat /\ \A i \in 1..Len(queue) : queue[i] \in Batch
  OBVIOUS
<1>2. \A i \in 1..Len(queue) : queue[i].write \in Write
  BY <1>1 DEF Batch
<1>3. WritesOf(queue) \in [1..Len(queue) -> Write]
  BY <1>2 DEF WritesOf
<1>4. WritesOf(queue) \in Seq(Write)
  BY <1>1, <1>3, SeqDef
<1>5. DOMAIN WritesOf(queue) = 1..Len(queue)
  BY DEF WritesOf
<1>6. Len(WritesOf(queue)) = Len(queue)
  BY <1>1, <1>4, <1>5, LenProperties
<1>7. \A i \in 1..Len(queue) : WritesOf(queue)[i] = queue[i].write
  BY DEF WritesOf
<1> QED
  BY <1>4, <1>6, <1>7

LEMMA WritesOfTail ==
    ASSUME NEW queue \in Seq(Batch), queue # <<>>
    PROVE  WritesOf(Tail(queue)) = Tail(WritesOf(queue)) /\ WritesOf(queue) # <<>>
           /\ Head(WritesOf(queue)) = queue[1].write
<1> DEFINE s == WritesOf(queue)
           t == WritesOf(Tail(queue))
           rest == Tail(queue)
<1>1. /\ rest \in Seq(Batch) /\ Len(queue) \in Nat \ {0} /\ Len(rest) = Len(queue) - 1
      /\ \A i \in 1..Len(rest) : rest[i] = queue[i + 1] /\ i + 1 \in 1..Len(queue)
  BY TailFacts
<1>2. s \in Seq(Write) /\ Len(s) = Len(queue) /\ \A i \in 1..Len(queue) : s[i] = queue[i].write
  BY WritesOfFacts
<1>3. t \in Seq(Write) /\ Len(t) = Len(rest) /\ \A i \in 1..Len(rest) : t[i] = rest[i].write
  <2>1. \A q \in Seq(Batch) :
            /\ WritesOf(q) \in Seq(Write) /\ Len(WritesOf(q)) = Len(q)
            /\ \A i \in 1..Len(q) : WritesOf(q)[i] = q[i].write
    BY WritesOfFacts
  <2> HIDE DEF rest, t
  <2>2. t = WritesOf(rest)
    BY DEF t, rest
  <2> QED
    BY <1>1, <2>1, <2>2
<1> HIDE DEF s, t, rest
<1>4. s # <<>>
  BY <1>1, <1>2
<1>5. /\ Tail(s) \in Seq(Write) /\ Len(Tail(s)) = Len(s) - 1 /\ Head(s) = s[1]
      /\ \A i \in 1..Len(Tail(s)) : Tail(s)[i] = s[i + 1] /\ i + 1 \in 1..Len(s)
  BY <1>2, <1>4, TailFacts
<1>6. Len(t) = Len(Tail(s)) /\ \A i \in 1..Len(t) : t[i] = Tail(s)[i]
  BY <1>1, <1>2, <1>3, <1>5
<1>7. t = Tail(s)
  BY <1>3, <1>5, <1>6, SeqEqual
<1>8. Head(s) = queue[1].write
  BY <1>1, <1>2, <1>5
<1> QED
  BY <1>4, <1>7, <1>8 DEF s, t, rest

LEMMA WritesOfAppend ==
    ASSUME NEW queue \in Seq(Batch), NEW b \in Batch
    PROVE  WritesOf(Append(queue, b)) = Append(WritesOf(queue), b.write)
<1> DEFINE more == Append(queue, b)
           s == WritesOf(queue)
           t == WritesOf(more)
<1>1. /\ more \in Seq(Batch) /\ Len(queue) \in Nat /\ Len(more) = Len(queue) + 1
      /\ \A i \in 1..Len(queue) : more[i] = queue[i]
      /\ more[Len(queue) + 1] = b
  BY AppendFacts
<1>2. s \in Seq(Write) /\ Len(s) = Len(queue) /\ \A i \in 1..Len(queue) : s[i] = queue[i].write
  BY WritesOfFacts
<1>3. t \in Seq(Write) /\ Len(t) = Len(more) /\ \A i \in 1..Len(more) : t[i] = more[i].write
  BY <1>1, WritesOfFacts
<1>4. b.write \in Write
  BY DEF Batch
<1> HIDE DEF s, t, more
<1>5. /\ Append(s, b.write) \in Seq(Write) /\ Len(Append(s, b.write)) = Len(s) + 1
      /\ \A i \in 1..Len(s) : Append(s, b.write)[i] = s[i]
      /\ Append(s, b.write)[Len(s) + 1] = b.write
  BY <1>2, <1>4, AppendFacts
<1>6. ASSUME NEW i \in 1..Len(t) PROVE t[i] = Append(s, b.write)[i]
  <2>1. i \in 1..Len(queue) \/ i = Len(queue) + 1
    BY <1>1, <1>3
  <2>2. i \in 1..Len(more)
    BY <1>3
  <2>3. CASE i \in 1..Len(queue)
    BY <1>1, <1>2, <1>3, <1>5, <2>2, <2>3
  <2>4. CASE i = Len(queue) + 1
    BY <1>1, <1>2, <1>3, <1>5, <2>2, <2>4
  <2> QED
    BY <2>1, <2>3, <2>4
<1>7. Len(t) = Len(Append(s, b.write))
  BY <1>1, <1>2, <1>3, <1>5
<1>8. t = Append(s, b.write)
  BY <1>3, <1>5, <1>6, <1>7, SeqEqual
<1> QED
  BY <1>8 DEF s, t, more

LEMMA OutboxFacts ==
    ASSUME Types, NEW u \in User
    PROVE  /\ OutboxOf[u] = WritesOf(disk[u]) /\ disk[u] \in Seq(Batch)
           /\ Len(OutboxOf[u]) = Len(disk[u]) /\ Len(disk[u]) \in Nat
           /\ \A i \in 1..Len(disk[u]) : OutboxOf[u][i] = disk[u][i].write
<1>1. disk[u] \in Seq(Batch)
  BY DEF Types
<1>2. OutboxOf[u] = WritesOf(disk[u])
  BY DEF OutboxOf
<1> QED
  BY <1>1, <1>2, WritesOfFacts

(* Only the outbox of u changes.                                           *)
LEMMA OutboxExcept ==
    ASSUME NEW u \in User, \A v \in User \ {u} : disk'[v] = disk[v],
           NEW s, WritesOf(disk'[u]) = s
    PROVE  OutboxOf' = [OutboxOf EXCEPT ![u] = s]
<1>1. ASSUME NEW v \in User PROVE OutboxOf'[v] = [OutboxOf EXCEPT ![u] = s][v]
  <2>1. OutboxOf'[v] = WritesOf(disk'[v])
    BY DEF OutboxOf, WritesOf
  <2>2. CASE v = u
    BY <2>1, <2>2 DEF OutboxOf
  <2>3. CASE v # u
    BY <2>1, <2>3 DEF OutboxOf
  <2> QED
    BY <2>2, <2>3
<1> QED
  BY <1>1 DEF OutboxOf

LEMMA OutboxOfSettling ==
    ASSUME Types, Numbers, CallbacksArePending, ToldIsGone,
           NEW outcome \in {"ok", "rejected"}, SettlesFront(outcome)
    PROVE  \E u \in User : Outbox!Settle(u)
<1>a. PICK me \in User : me = client.user
  BY ClientSeqs DEF Types
<1> DEFINE front == disk[me][1]
<1>0. /\ disk[me] # <<>> /\ me \in User /\ TakesFirst(disk', me) /\ NotifyUser(front.id, outcome)
      /\ log' = log /\ refused' = refused
      /\ outcome = "ok" => Logged(front)
      /\ outcome = "rejected" => front.write \in refused
  BY <1>a DEF SettlesFront, Taken
<1>1. PICK w : w = front.write
  OBVIOUS
<1>2. /\ disk[me] \in Seq(Batch) /\ 1 \in 1..Len(disk[me]) /\ w \in Write
  <2>1. disk[me] \in Seq(Batch) /\ 1 \in 1..Len(disk[me])
    BY <1>0, LeftBehind DEF Types
  <2> QED
    BY <1>0, <1>1, <2>1, StoredBatch
<1>3. /\ OutboxOf[me] # <<>> /\ Head(OutboxOf[me]) = w
      /\ WritesOf(disk'[me]) = Tail(OutboxOf[me])
  BY <1>0, <1>1, <1>2, WritesOfTail, OutboxFacts DEF TakesFirst
<1>4. OutboxOf' = [OutboxOf EXCEPT ![me] = Tail(OutboxOf[me])]
  BY <1>0, <1>3, OutboxExcept DEF TakesFirst
<1>5. told[w] = "nothing"
  BY <1>0, <1>1, <1>2 DEF ToldIsGone
<1>6. /\ outcome = "ok" => w \in InLog
      /\ outcome = "rejected" => w \in refused
      /\ InLog' = InLog
  BY <1>0, <1>1, LoggedIsSettled DEF Types, InLog
<1>7. told' \in [Write -> Outcome] /\ told \in [Write -> Outcome]
  BY <1>0, ToldTypes DEF Types, Outcome, SettlesFront
<1>8. \A v \in Write : told'[v] = told[v] \/ (told'[v] = outcome /\ v = w)
  BY <1>a, <1>0, <1>1, ToldOfFront
<1>9. told' = told \/ told' = [told EXCEPT ![w] = outcome]
  <2>1. CASE told'[w] = told[w]
    <3>1. \A v \in Write : told'[v] = told[v]
      BY <1>8, <2>1
    <3> QED
      BY <1>7, <3>1
  <2>2. CASE told'[w] # told[w]
    <3>1. \A v \in Write : told'[v] = [told EXCEPT ![w] = outcome][v]
      BY <1>2, <1>7, <1>8, <2>2
    <3>2. [told EXCEPT ![w] = outcome] \in [Write -> Outcome]
      BY <1>7 DEF Outcome
    <3> QED
      BY <1>7, <3>1, <3>2
  <2> QED
    BY <2>1, <2>2
<1>10. w \in InLog \cup refused
  BY <1>6
<1>11. \/ told' = told /\ w \in InLog \cup refused
       \/ told' = [told EXCEPT ![w] = "ok"] /\ w \in InLog
       \/ told' = [told EXCEPT ![w] = "rejected"] /\ w \in refused
  BY <1>6, <1>9, <1>10
<1> QED
  BY <1>0, <1>3, <1>4, <1>5, <1>6, <1>11 DEF Outbox!Settle, OutboxOf, WritesOf

LEMMA OutboxOfRunWrite ==
    ASSUME Types, Numbers, PipelineFits(client, disk[client.user]), RunWrite
    PROVE  \E u \in User, w \in Write : Outbox!Store(u, w)
<1>0. PICK u \in User : u = client.user
  BY ClientSeqs DEF Types
<1>1. PICK b : /\ Stored(b) /\ disk'[u] = Append(disk[u], b)
               /\ \A v \in User \ {u} : disk'[v] = disk[v]
  BY <1>0, StoredOfRunWrite
<1>2. UNCHANGED <<log, refused, told>>
  BY DEF RunWrite, app, server
<1>3. u \in User /\ b \in Batch /\ disk[u] \in Seq(Batch)
  BY <1>1 DEF Types, Stored
<1>4. PICK w : w = b.write
  OBVIOUS
<1>5. w \in Write /\ w \in Nat
  BY <1>3, <1>4, BoundAssumption DEF Batch, Write
<1>6. WritesOf(disk'[u]) = Append(OutboxOf[u], w)
  BY <1>1, <1>3, <1>4, WritesOfAppend, OutboxFacts
<1>7. OutboxOf' = [OutboxOf EXCEPT ![u] = Append(OutboxOf[u], w)]
  BY <1>1, <1>3, <1>6, OutboxExcept
<1>8. ASSUME NEW v \in User, NEW i \in 1..Len(OutboxOf[v]) PROVE OutboxOf[v][i] # w
  <2>1. i \in 1..Len(disk[v]) /\ OutboxOf[v][i] = disk[v][i].write
    BY OutboxFacts
  <2>2. Past(disk[v][i].write) /\ disk[v][i].write \in Nat
    BY <2>1, StoredBatch DEF Numbers, QueuesInOrder
  <2>3. disk[v][i].write < w
    BY <1>1, <1>4, <2>2 DEF Stored
  <2> QED
    BY <1>5, <2>1, <2>2, <2>3
<1>9. Outbox!Store(u, w)
  <2>1. InLog' = InLog
    BY <1>2 DEF InLog
  <2> QED
    BY <1>2, <1>7, <1>8, <2>1 DEF Outbox!Store, OutboxOf, WritesOf
<1> QED
  BY <1>5, <1>9

(* What the server takes on a call, or late, is next in its outbox.        *)
LEMMA OutboxOfTakes ==
    ASSUME Types, Numbers, UNCHANGED <<disk, refused, told>>,
           NEW b, Takes(b), b # Handshake => Ready(b) /\ b.write \in Write
    PROVE  \/ UNCHANGED <<OutboxOf, InLog, refused, told>>
           \/ \E u \in User : \E i \in 1..Len(OutboxOf[u]) : Outbox!Commit(u, i)
           \/ \E w \in Write : Outbox!CommitRefused(w)
<1>0. OutboxOf' = OutboxOf
  BY DEF OutboxOf, WritesOf
<1>1. CASE log' = log
  <2>1. InLog' = InLog
    BY <1>1 DEF InLog
  <2> QED
    BY <1>0, <2>1
<1>2. CASE log' # log
  <2>1. /\ b # Handshake /\ ~Logged(b) /\ Ready(b) /\ b.write \in Write
        /\ Len(log') = Len(log) + 1 /\ log'[Len(log) + 1] = LogEntry(b) /\ log' \in Seq(Entry)
        /\ \A i \in 1..Len(log) : log'[i] = log[i]
    BY <1>2 DEF Takes
  <2>2. log \in Seq(Entry) /\ Len(log) \in Nat
    BY DEF Types
  <2>3. ASSUME log' \in Seq(Entry) PROVE \A v : v \in InLog' <=> \E j \in 1..Len(log') : log'[j].write = v
    <3> TAKE v
    <3>1. v \in InLog' <=> \E e \in ToSet(log') : e.write = v
      BY DEF InLog
    <3> QED
      BY <2>3, <3>1, ToSetFacts
  <2>4. InLog' = InLog \cup {b.write}
    <3>1. ASSUME NEW v PROVE v \in InLog' <=> v \in InLog \/ v = b.write
      <4>1. v \in InLog' <=> \E j \in 1..Len(log') : log'[j].write = v
        BY <2>1, <2>3
      <4>2. v \in InLog <=> \E j \in 1..Len(log) : log[j].write = v
        BY <2>2, InLogFacts
      <4>3. log'[Len(log) + 1].write = b.write
        BY <2>1 DEF LogEntry
      <4>4. \A j \in 1..Len(log') : j \in 1..Len(log) \/ j = Len(log) + 1
        BY <2>1, <2>2
      <4>5. Len(log) + 1 \in 1..Len(log') /\ \A j \in 1..Len(log) : j \in 1..Len(log')
        BY <2>1, <2>2
      <4> QED
        BY <2>1, <4>1, <4>2, <4>3, <4>4, <4>5
    <3> QED
      BY <3>1
  <2>5. CASE b.write \in refused
    <3>1. Outbox!CommitRefused(b.write)
      BY <1>0, <2>4, <2>5 DEF Outbox!CommitRefused, OutboxOf, WritesOf
    <3> QED
      BY <2>1, <3>1
  <2>6. CASE InDisk(b)
    <3>1. PICK u \in User : u = b.user
      BY <2>1 DEF Ready
    <3>2. PICK i \in 1..Len(disk[u]) : disk[u][i].write = b.write
      BY <2>6, <3>1 DEF InDisk
    <3>3. i \in 1..Len(OutboxOf[u]) /\ OutboxOf[u][i] = b.write
      BY <3>2, OutboxFacts
    <3>4. ASSUME NEW j \in 1..(i - 1) PROVE OutboxOf[u][j] \in InLog
      <4>1. j \in 1..Len(disk[u]) /\ j < i
        BY <3>2, OutboxFacts
      <4>2. disk[u][j].write < b.write
        BY <3>2, <4>1 DEF Numbers, QueuesInOrder, Increasing
      <4>3. Logged(disk[u][j])
        BY <2>1, <3>1, <4>1, <4>2 DEF Ready
      <4>4. disk[u][j].write \in InLog
        BY <2>2, <4>3, LoggedIsSettled
      <4> QED
        BY <4>1, <4>4, OutboxFacts
    <3>5. Outbox!Commit(u, i)
      BY <1>0, <2>4, <3>3, <3>4 DEF Outbox!Commit, OutboxOf, WritesOf
    <3> QED
      BY <3>3, <3>5
  <2> QED
    BY <2>1, <2>5, <2>6 DEF Ready
<1> QED
  BY <1>1, <1>2

LEMMA OutboxOfRefuses ==
    ASSUME Types, Numbers, Streams, ResultsAreTrue, ServerRefuses
    PROVE  \E u \in User : \E i \in 1..Len(OutboxOf[u]) : Outbox!Refuse(u, i)
<1>1. /\ client.out # <<>> /\ client.end = "none"
      /\ client.out[1] \in Batch /\ client.out[1].write \in Write
      /\ refused' = refused \cup {client.out[1].write}
      /\ UNCHANGED <<disk, app, log>>
  BY ServerRefusesFields
<1>2. 1 \in 1..Len(client.out) /\ IsBatch(client.out[1])
  BY <1>1, ClientSeqs, NotABatch DEF Types, IsBatch
<1>3. PICK b : b = client.out[1]
  OBVIOUS
<1>4. PICK u \in User : u = client.user
  BY ClientSeqs DEF Types
<1>5. /\ b.user = u /\ b.write \in Nat /\ InDisk(b)
      /\ \A k \in 1..Len(disk[u]) : disk[u][k].write < b.write =>
            \/ Logged(disk[u][k])
            \/ \E h \in 1..(1 - 1) : client.out[h] = disk[u][k]
  <2>1. /\ b.user = client.user /\ b.write \in Nat /\ InDisk(b)
        /\ \A k \in 1..Len(disk[b.user]) : disk[b.user][k].write < b.write =>
              \/ Logged(disk[b.user][k])
              \/ \E h \in 1..(1 - 1) : client.out[h] = disk[b.user][k]
    BY <1>1, <1>2, <1>3, OutIsOk
  <2> QED
    BY <1>4, <2>1
<1>6. \A h \in 1..(1 - 1) : FALSE
  OBVIOUS
<1>7. PICK i \in 1..Len(disk[u]) : disk[u][i].write = b.write
  BY <1>5 DEF InDisk
<1>8. i \in 1..Len(OutboxOf[u]) /\ OutboxOf[u][i] = b.write
  BY <1>7, OutboxFacts
<1>9. ASSUME NEW j \in 1..(i - 1) PROVE OutboxOf[u][j] \in InLog
  <2>1. j \in 1..Len(disk[u]) /\ j < i
    BY <1>7, OutboxFacts
  <2>2. disk[u][j].write < b.write
    BY <1>7, <2>1 DEF Numbers, QueuesInOrder, Increasing
  <2>3. Logged(disk[u][j])
    BY <1>5, <1>6, <2>1, <2>2
  <2>4. disk[u][j].write \in InLog
    BY <2>3, LoggedIsSettled DEF Types
  <2> QED
    BY <2>1, <2>4, OutboxFacts
<1>10. OutboxOf' = OutboxOf /\ InLog' = InLog /\ told' = told
  BY <1>1 DEF OutboxOf, WritesOf, InLog, app
<1>11. Outbox!Refuse(u, i)
  BY <1>1, <1>3, <1>8, <1>9, <1>10 DEF Outbox!Refuse, OutboxOf, WritesOf
<1> QED
  BY <1>8, <1>11

LEMMA OutboxStep ==
    ASSUME IInv, [Next]_vars
    PROVE  [Outbox!Next]_<<OutboxOf, InLog, refused, told>>
<1>0. /\ Types /\ Numbers /\ Streams /\ Commits
      /\ PipelineFits(client, disk[client.user]) /\ CallbacksArePending
      /\ ResultsAreTrue /\ ToldIsGone /\ LateInOrder
      /\ client.user \in User
  BY ClientSeqs DEF IInv, Streams, Fits, Commits, Types
<1>1. ASSUME UNCHANGED <<disk, log, refused, told>>
      PROVE  UNCHANGED <<OutboxOf, InLog, refused, told>>
  BY <1>1 DEF OutboxOf, WritesOf, InLog
<1>2. CASE Quiet
  BY <1>1, <1>2 DEF Quiet
<1>3. CASE HandshakeComplete \/ ServerNeverTakesLate
  BY <1>1, <1>3 DEF HandshakeComplete, ServerNeverTakesLate, app, server
<1>4. CASE RunWrite
  <2>1. PICK u \in User, w \in Write : Outbox!Store(u, w)
    BY <1>0, <1>4, OutboxOfRunWrite
  <2> QED
    BY <2>1 DEF Outbox!Next
<1>5. CASE MutationResult \/ (CallEnded /\ Rejects(client.end))
  <2>1. PICK outcome \in {"ok", "rejected"} : SettlesFront(outcome)
    BY <1>0, <1>5, SettlesOfResult, SettlesOfRejection
  <2>2. PICK u \in User : Outbox!Settle(u)
    BY <1>0, <2>1, OutboxOfSettling
  <2> QED
    BY <2>2 DEF Outbox!Next
<1>6. CASE ServerRefuses
  <2>1. PICK u \in User : \E i \in 1..Len(OutboxOf[u]) : Outbox!Refuse(u, i)
    BY <1>0, <1>6, OutboxOfRefuses
  <2> QED
    BY <2>1 DEF Outbox!Next, OutboxOf, WritesOf
<1>7. ASSUME UNCHANGED <<disk, refused, told>>, NEW b, Takes(b), b # Handshake => Ready(b) /\ b.write \in Write
      PROVE  [Outbox!Next]_<<OutboxOf, InLog, refused, told>>
  <2>1. \/ UNCHANGED <<OutboxOf, InLog, refused, told>>
        \/ \E u \in User : \E i \in 1..Len(OutboxOf[u]) : Outbox!Commit(u, i)
        \/ \E w \in Write : Outbox!CommitRefused(w)
    BY <1>0, <1>7, OutboxOfTakes
  <2> QED
    BY <2>1 DEF Outbox!Next, OutboxOf, WritesOf
<1>8. CASE ServerAnswers
  <2>1. /\ client.out # <<>> /\ client.end = "none" /\ Takes(client.out[1])
        /\ UNCHANGED <<disk, app, refused>>
    BY <1>0, <1>8, ServerAnswersFields
  <2>2. PICK b : b = client.out[1]
    OBVIOUS
  <2>3. ASSUME b # Handshake PROVE Ready(b) /\ b.write \in Write
    <3>1. 1 \in 1..Len(client.out) /\ IsBatch(client.out[1])
      BY <1>0, <2>1, <2>2, <2>3, ClientSeqs DEF Types, IsBatch
    <3>2. \A h \in 1..(1 - 1) : FALSE
      OBVIOUS
    <3>3. /\ b \in Batch /\ b.user \in User /\ b.write \in Nat /\ LateOk(b)
          /\ \A k \in 1..Len(disk[b.user]) : disk[b.user][k].write < b.write =>
                \/ Logged(disk[b.user][k])
                \/ \E h \in 1..(1 - 1) : client.out[h] = disk[b.user][k]
      BY <1>0, <2>1, <2>2, <3>1, OutIsOk
    <3> QED
      BY <3>2, <3>3 DEF Ready, LateOk, Batch
  <2> QED
    BY <1>7, <2>1, <2>2, <2>3 DEF app
<1>9. CASE ServerTakesLate
  <2>1. client.late # <<>> /\ Takes(client.late[1]) /\ UNCHANGED <<disk, app, refused>>
    BY <1>0, <1>9, TakesLateFields
  <2>2. PICK b : b = client.late[1]
    OBVIOUS
  <2>3. ASSUME b # Handshake PROVE Ready(b) /\ b.write \in Write
    <3>1. 1 \in 1..Len(client.late)
      BY <1>0, <2>1, ClientSeqs DEF Types
    <3>2. b \in Batch /\ b.user \in User /\ b.write \in Nat
      BY <1>0, <2>2, <2>3, <3>1, LateRequests DEF IsBatch
    <3>3. LateAt(b, 1)
      BY <2>2, <2>3, <3>1 DEF LateAt, IsBatch
    <3>4. LateOk(b) /\ \A c : Before(c, b) => Logged(c) \/ LateBefore(c, 1)
      BY <1>0, <3>3, LateInOrderUse
    <3>5. \A c : ~LateBefore(c, 1)
      BY DEF LateBefore
    <3> QED
      BY <3>2, <3>4, <3>5 DEF Ready, LateOk, Before, Batch
  <2> QED
    BY <1>7, <2>1, <2>2, <2>3 DEF app
<1> QED
  BY <1>0, <1>2, <1>3, <1>4, <1>5, <1>6, <1>8, <1>9, QuietStep

(* Through broken calls, restarts and changes of the user, the client does *)
(* nothing that an outbox does not do: every write is stored once, taken   *)
(* by the server in its turn, and leaves the queue from its front, once it *)
(* is settled and not before.                                              *)
THEOREM ClientIsAnOutbox == Spec => ImplementsOutbox
<1>1. Init => Outbox!Init
  <2> SUFFICES ASSUME Init PROVE Outbox!Init
    OBVIOUS
  <2>1. /\ disk = [u \in User |-> <<>>] /\ log = <<>> /\ refused = {}
        /\ told = [w \in Write |-> "nothing"]
    BY DEF Init
  <2>2. InLog = {}
    <3>1. log \in Seq(Entry) /\ \A i \in 1..Len(log) : FALSE
      BY <2>1
    <3> QED
      BY <3>1, InLogFacts
  <2>3. \A u \in User : [i \in 1..Len(disk[u]) |-> disk[u][i].write] = <<>>
    BY <2>1
  <2> QED
    BY <2>1, <2>2, <2>3 DEF Outbox!Init
<1>2. IInv /\ [Next]_vars => [Outbox!Next]_(Outbox!vars)
  BY OutboxStep DEF Outbox!vars, OutboxOf, WritesOf
<1> QED
  BY <1>1, <1>2, StaysIInv, PTL DEF Spec, ImplementsOutbox, Outbox!Spec

=============================================================================
