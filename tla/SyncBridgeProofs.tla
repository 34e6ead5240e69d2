-------------------------- MODULE SyncBridgeProofs --------------------------
(***************************************************************************)
(* Proofs about the synchronous bridge, for any number of calls and any    *)
(* batch.  A healthy bridge carries one message at a time: the command in  *)
(* the channel, the operation the worker runs, the reply it is about to    *)
(* post, the reply in the channel or the one the parent decodes.  Nothing  *)
(* in the code says so in one place; it is what makes the ids of replies,  *)
(* the worker's busy flag and the outcome of a close trustworthy.          *)
(***************************************************************************)
EXTENDS SyncBridge, QueueLemmas, TLAPS

Messages == [id : Nat, op : Commands]
Packets == [id : Nat, kind : {"value", "error", "sessionError", "fatal"}]
Acts == [do : {"post", "add", "notify", "stop", "close", "free", "ready"}, packet : Seq(Packets)]
Runs == Messages \cup {NoRun}

Parents ==
  [pc : {"idle", "load", "poll", "decode", "check", "wait", "asleep"}, id : Nat,
   op : Commands \cup {"start"}, gen : Nat, due : BOOLEAN, packet : Seq(Packets)]
Clients ==
  [closing : BOOLEAN, closed : BOOLEAN, complete : BOOLEAN,
   failure : {"none", "error", LocalError, UncertainError}]
Workers ==
  [life : {"boot", "up", "gone"}, todo : Seq(Acts), stopped : BOOLEAN, busy : BOOLEAN, active : Nat,
   run : Runs, abort : BOOLEAN, port : BOOLEAN, seen : BOOLEAN]

Typed ==
  /\ parent \in Parents
  /\ client \in Clients
  /\ signal \in [gen : Nat, state : 0..2]
  /\ toWorker \in Seq(Messages)
  /\ toParent \in Seq(Packets)
  /\ worker \in Workers
  /\ session \in [handle : {"none", "open", "closing", "closed"}, remote : {"none", "live", "deleted"}]
  /\ dispatched \subseteq Ids
  /\ report \in [Ids -> {"pending", "value", "error", LocalError, UncertainError}]
  /\ parent.id \in 0..MaxCalls

(***************************************************************************)
(* Turns of the worker.                                                    *)
(***************************************************************************)

(* The turn s still makes an access of the kind a.                          *)
Does(s, a) == \E i \in 1..Len(s) : s[i].do = a

(* In s, an access of the kind a is followed by one of the kind b.          *)
Followed(s, a, b) ==
  \A i \in 1..Len(s) : s[i].do = a => \E j \in 1..Len(s) : i < j /\ s[j].do = b

Once(s) == \A i, j \in 1..Len(s) : s[i].do = "post" /\ s[j].do = "post" => i = j
Carries(s) == \A i \in 1..Len(s) : s[i].do = "post" => s[i].packet # <<>>

(* A turn posts at most once, advances the generation after whatever the    *)
(* parent looks for, and notifies after it advanced the generation.         *)
Turn(s) ==
  /\ Followed(s, "post", "add")
  /\ Followed(s, "stop", "add")
  /\ Followed(s, "add", "notify")
  /\ Once(s)
  /\ Carries(s)

Posts(s) == {s[i].packet[1] : i \in {j \in 1..Len(s) : s[j].do = "post"}}

(* The worker has stopped, will before its turn ends, or is gone: it takes  *)
(* no command any more.                                                     *)
Doomed == worker.life = "gone" \/ worker.stopped \/ Does(worker.todo, "stop")

(* The replies on their way to the parent.                                  *)
Sent ==
  Elems(toParent) \cup Posts(worker.todo)
    \cup (IF parent.pc = "decode" THEN {parent.packet[1]} ELSE {})

One(b) == IF b THEN 1 ELSE 0

(* What is under way between the parent and the worker.                     *)
UnderWay ==
  Len(toWorker) + Len(toParent) + One(worker.run # NoRun) + One(Does(worker.todo, "post"))
    + One(parent.pc = "decode") + One(worker.life = "boot")

(***************************************************************************)
(* The inductive invariant.                                                *)
(***************************************************************************)
ParentOK ==
  /\ parent.pc # "idle" => ~client.closed
  /\ parent.id = 0 <=> parent.op = "start"
  /\ parent.pc = "decode" => parent.packet # <<>>
  /\ client.failure \notin {"none", UncertainError} => client.closed
  /\ \A i \in Ids : parent.id < i => report[i] = "pending"

WorkerOK ==
  /\ Turn(worker.todo)
  /\ worker.life = "boot" =>
       worker.todo = <<>> /\ dispatched = {} /\ worker.run = NoRun /\ worker.active = 0 /\ ~worker.busy
  /\ worker.life = "up" /\ worker.busy /\ ~worker.stopped
       => worker.run # NoRun \/ Does(worker.todo, "free") \/ Does(worker.todo, "stop")
  /\ worker.active <= parent.id

(* The call may run in the worker: the flags that were set before it was    *)
(* posted.                                                                  *)
Prepared(c) ==
  /\ c.op = "createSession" => session.handle = "none"
  /\ c.op = "sessionClose" => session.handle \in {"closing", "closed"}
  /\ c.op = "close" => client.closing

(* A healthy bridge carries nothing between two calls and one thing during  *)
(* a call; what a failed call left behind is never followed by another one. *)
OneUnderWay == ~Doomed => UnderWay <= One(parent.pc # "idle" \/ client.closed)

CommandsOK ==
  ~Doomed => \A c \in Elems(toWorker) : c.id = parent.id /\ c.op = parent.op /\ Prepared(c)

RunOK ==
  worker.run # NoRun =>
    /\ worker.run.id = worker.active
    /\ worker.run.id \in dispatched
    /\ worker.run.id = parent.id => worker.run.op = parent.op
    /\ Prepared(worker.run)

IdsOK ==
  /\ \A c \in Elems(toWorker) : c.id \in 1..parent.id
  /\ \A i \in dispatched : i \in 1..parent.id
  /\ \A q \in Sent : q.id <= parent.id
  /\ \A q \in Sent : q.kind = "value" /\ q.id # 0 => q.id \in dispatched
  /\ parent.id \in dispatched => worker.active = parent.id /\ \A q \in Sent : q.id = parent.id

ReportOK ==
  /\ \A i \in Ids : report[i] = LocalError
       => i \notin dispatched /\ (Doomed \/ \A c \in Elems(toWorker) : c.id # i)
  /\ \A i \in Ids : report[i] = "value" => i \in dispatched

(* A result on its way to the parent tells what became of the context.      *)
Answer(q) ==
  /\ worker.run = NoRun
  /\ parent.op = "createSession" => q.kind = "value" /\ session.remote = "live"
  /\ parent.op = "sessionClose" /\ q.kind = "value" => session.remote = "deleted"
  /\ parent.op = "close" => Doomed /\ session.remote # "live"

SessionOK ==
  /\ \A q \in Sent : q.id = parent.id /\ q.id # 0 /\ q.kind \in {"value", "sessionError"} => Answer(q)
  /\ session.handle # "none" => session.remote # "none"
  /\ client.complete => Doomed /\ worker.run = NoRun /\ session.remote # "live"
  /\ session.handle = "closed" => session.remote = "deleted"
  /\ session.handle = "open" /\ ~client.closed /\ ~client.closing => session.remote = "live"

WakeOK ==
  /\ parent.pc \in {"poll", "check", "wait", "asleep"} => parent.gen <= signal.gen
  /\ worker.life # "gone" /\ parent.gen = signal.gen =>
       /\ parent.pc \in {"check", "wait", "asleep"} /\ toParent # <<>> => Does(worker.todo, "add")
       /\ parent.pc \in {"wait", "asleep"} /\ signal.state = 2 => Does(worker.todo, "add")
  /\ worker.life # "gone" /\ parent.gen # signal.gen /\ parent.pc = "asleep" => Does(worker.todo, "notify")

IInv ==
  /\ Typed
  /\ ParentOK
  /\ WorkerOK
  /\ OneUnderWay
  /\ CommandsOK
  /\ RunOK
  /\ IdsOK
  /\ ReportOK
  /\ SessionOK
  /\ WakeOK

(***************************************************************************)
(* Lemmas about turns.                                                     *)
(***************************************************************************)

(* Between two turns the worker has no access to make.                      *)
LEMMA NoTurn ==
  /\ <<>> \in Seq(Acts)
  /\ Turn(<<>>)
  /\ Posts(<<>>) = {}
  /\ \A a : ~Does(<<>>, a)
BY DEF Turn, Followed, Once, Carries, Posts, Does

(* An access of a turn: what is left is a turn, and what the access was for *)
(* is still ahead: the generation after a message or a stop, the            *)
(* notification after the generation (reply(), fatal()).                    *)
LEMMA TurnTail ==
  ASSUME NEW s \in Seq(Acts), s # <<>>, Turn(s)
  PROVE  /\ Head(s) \in Acts
         /\ Tail(s) \in Seq(Acts)
         /\ Turn(Tail(s))
         /\ Posts(Tail(s)) \subseteq Posts(s)
         /\ \A a : Does(s, a) <=> Head(s).do = a \/ Does(Tail(s), a)
         /\ Head(s).do = "post" => /\ Head(s).packet # <<>>
                                   /\ Head(s).packet[1] \in Posts(s)
                                   /\ ~Does(Tail(s), "post")
                                   /\ Does(Tail(s), "add")
         /\ Head(s).do = "stop" => Does(Tail(s), "add")
         /\ Head(s).do = "add" => Does(Tail(s), "notify")
<1> DEFINE t == Tail(s)
<1>1. /\ t \in Seq(Acts) /\ Len(s) \in Nat /\ Len(s) >= 1 /\ Len(t) = Len(s) - 1
      /\ Head(s) = s[1] /\ s[1] \in Acts
      /\ \A i \in 1..Len(t) : t[i] = s[i + 1]
  OBVIOUS
<1> HIDE DEF t
<1>2. \A i \in 1..Len(s) : i = 1 \/ (i - 1 \in 1..Len(t) /\ t[i - 1] = s[i])
  BY <1>1
<1>3. \A i \in 1..Len(t) : i + 1 \in 1..Len(s) /\ t[i] = s[i + 1]
  BY <1>1
<1>4. ASSUME NEW a, NEW b, Followed(s, a, b)
      PROVE  Followed(t, a, b) /\ (s[1].do = a => Does(t, b))
  <2>1. ASSUME NEW i \in 1..Len(t), t[i].do = a PROVE \E j \in 1..Len(t) : i < j /\ t[j].do = b
    <3>1. PICK j \in 1..Len(s) : i + 1 < j /\ s[j].do = b
      BY <1>1, <1>3, <1>4, <2>1 DEF Followed
    <3>2. j - 1 \in 1..Len(t) /\ i < j - 1 /\ t[j - 1].do = b
      BY <1>1, <1>2, <3>1
    <3>3. QED
      BY <3>2
  <2>2. ASSUME s[1].do = a PROVE Does(t, b)
    <3>1. PICK j \in 1..Len(s) : 1 < j /\ s[j].do = b
      BY <1>1, <1>4, <2>2 DEF Followed
    <3>2. j - 1 \in 1..Len(t) /\ t[j - 1].do = b
      BY <1>1, <1>2, <3>1
    <3>3. QED
      BY <3>2 DEF Does
  <2>3. QED
    BY <2>1, <2>2 DEF Followed
<1>5. ASSUME NEW a PROVE Does(s, a) <=> s[1].do = a \/ Does(t, a)
  BY <1>1, <1>2, <1>3 DEF Does
<1>6. Once(t) /\ Carries(t) /\ (s[1].do = "post" => ~Does(t, "post") /\ s[1].packet # <<>>)
  <2>1. Once(s) /\ Carries(s) /\ 1 \in 1..Len(s)
    BY <1>1 DEF Turn
  <2>2. Once(t)
    <3>1. ASSUME NEW i \in 1..Len(t), NEW j \in 1..Len(t), t[i].do = "post", t[j].do = "post" PROVE i = j
      <4>1. i + 1 \in 1..Len(s) /\ j + 1 \in 1..Len(s) /\ s[i + 1].do = "post" /\ s[j + 1].do = "post"
        BY <1>3, <3>1
      <4>2. i + 1 = j + 1
        BY <2>1, <4>1 DEF Once
      <4>3. QED
        BY <4>2
    <3>2. QED
      BY <3>1 DEF Once
  <2>3. Carries(t) /\ (s[1].do = "post" => s[1].packet # <<>>)
    BY <1>3, <2>1 DEF Carries
  <2>4. ASSUME s[1].do = "post", NEW i \in 1..Len(t), t[i].do = "post" PROVE FALSE
    <3>1. i + 1 \in 1..Len(s) /\ s[i + 1].do = "post" /\ i + 1 # 1
      BY <1>1, <1>3, <2>4
    <3>2. QED
      BY <2>1, <2>4, <3>1 DEF Once
  <2>5. QED
    BY <2>2, <2>3, <2>4 DEF Does
<1>7. Posts(t) \subseteq Posts(s) /\ (s[1].do = "post" => s[1].packet[1] \in Posts(s))
  <2>1. \A i \in 1..Len(s) : s[i].do = "post" => s[i].packet[1] \in Posts(s)
    BY DEF Posts
  <2>2. \A q \in Posts(t) : \E i \in 1..Len(t) : t[i].do = "post" /\ q = t[i].packet[1]
    BY DEF Posts
  <2>3. QED
    BY <1>1, <1>3, <2>1, <2>2
<1>8. QED
  BY <1>1, <1>4, <1>5, <1>6, <1>7 DEF Turn, t

(* Two pieces of a turn, of which one posts nothing, make a turn.           *)
LEMMA TurnConcat ==
  ASSUME NEW s \in Seq(Acts), NEW t \in Seq(Acts), Turn(s), Turn(t), ~Does(s, "post") \/ ~Does(t, "post")
  PROVE  /\ s \o t \in Seq(Acts)
         /\ Turn(s \o t)
         /\ Posts(s \o t) = Posts(s) \cup Posts(t)
         /\ \A a : Does(s \o t, a) <=> Does(s, a) \/ Does(t, a)
<1> DEFINE u == s \o t
<1>1. /\ u \in Seq(Acts) /\ Len(s) \in Nat /\ Len(t) \in Nat /\ Len(u) = Len(s) + Len(t)
      /\ \A i \in 1..Len(s) : u[i] = s[i]
      /\ \A i \in 1..Len(t) : u[Len(s) + i] = t[i]
  OBVIOUS
<1> HIDE DEF u
<1>2. \A i \in 1..Len(u) : \/ i \in 1..Len(s) /\ u[i] = s[i]
                           \/ /\ i - Len(s) \in 1..Len(t) /\ u[i] = t[i - Len(s)]
  <2> TAKE i \in 1..Len(u)
  <2>1. CASE i <= Len(s)
    BY <1>1, <2>1
  <2>2. CASE i > Len(s)
    <3>1. i - Len(s) \in 1..Len(t) /\ Len(s) + (i - Len(s)) = i
      BY <1>1, <2>2
    <3>2. QED
      BY <1>1, <3>1
  <2>3. QED
    BY <1>1, <2>1, <2>2
<1>3. /\ \A i \in 1..Len(s) : i \in 1..Len(u) /\ u[i] = s[i]
      /\ \A i \in 1..Len(t) : Len(s) + i \in 1..Len(u) /\ u[Len(s) + i] = t[i]
  BY <1>1
<1>4. ASSUME NEW a PROVE Does(u, a) <=> Does(s, a) \/ Does(t, a)
  <2>1. Does(u, a) => Does(s, a) \/ Does(t, a)
    BY <1>2 DEF Does
  <2>2. Does(s, a) => Does(u, a)
    BY <1>3 DEF Does
  <2>3. Does(t, a) => Does(u, a)
    BY <1>3 DEF Does
  <2>4. QED
    BY <2>1, <2>2, <2>3
<1>5. ASSUME NEW a, NEW b, Followed(s, a, b), Followed(t, a, b) PROVE Followed(u, a, b)
  <2> SUFFICES ASSUME NEW i \in 1..Len(u), u[i].do = a
               PROVE  \E j \in 1..Len(u) : i < j /\ u[j].do = b
    BY DEF Followed
  <2>1. CASE i \in 1..Len(s) /\ u[i] = s[i]
    <3>1. PICK j \in 1..Len(s) : i < j /\ s[j].do = b
      BY <1>5, <2>1 DEF Followed
    <3>2. QED
      BY <1>3, <3>1
  <2>2. CASE i - Len(s) \in 1..Len(t) /\ u[i] = t[i - Len(s)]
    <3>1. PICK j \in 1..Len(t) : i - Len(s) < j /\ t[j].do = b
      BY <1>5, <2>2 DEF Followed
    <3>2. Len(s) + j \in 1..Len(u) /\ i < Len(s) + j /\ u[Len(s) + j].do = b
      BY <1>1, <1>3, <3>1
    <3>3. QED
      BY <3>2
  <2>3. QED
    BY <1>2, <2>1, <2>2
<1>6. Once(u) /\ Carries(u)
  <2>1. Once(s) /\ Carries(s) /\ Once(t) /\ Carries(t)
    BY DEF Turn
  <2>2. Carries(u)
    BY <1>2, <2>1 DEF Carries
  <2>3. ASSUME NEW i \in 1..Len(u), NEW j \in 1..Len(u), u[i].do = "post", u[j].do = "post"
        PROVE  i = j
    <3>1. CASE ~Does(t, "post")
      <4>1. i \in 1..Len(s) /\ s[i].do = "post" /\ j \in 1..Len(s) /\ s[j].do = "post"
        BY <1>2, <2>3, <3>1 DEF Does
      <4>2. QED
        BY <2>1, <4>1 DEF Once
    <3>2. CASE ~Does(s, "post")
      <4>1. /\ i - Len(s) \in 1..Len(t) /\ t[i - Len(s)].do = "post"
            /\ j - Len(s) \in 1..Len(t) /\ t[j - Len(s)].do = "post"
        BY <1>2, <2>3, <3>2 DEF Does
      <4>2. i - Len(s) = j - Len(s)
        BY <2>1, <4>1 DEF Once
      <4>3. QED
        BY <1>1, <4>2
    <3>3. QED
      BY <3>1, <3>2
  <2>4. QED
    BY <2>2, <2>3 DEF Once
<1>7. Posts(u) = Posts(s) \cup Posts(t)
  <2>1. \A r \in {s, t, u} : \A i \in 1..Len(r) : r[i].do = "post" => r[i].packet[1] \in Posts(r)
    BY DEF Posts
  <2>2. \A r \in {s, t, u} : \A q \in Posts(r) : \E i \in 1..Len(r) : r[i].do = "post" /\ q = r[i].packet[1]
    BY DEF Posts
  <2>3. Posts(u) \subseteq Posts(s) \cup Posts(t)
    BY <1>2, <2>1, <2>2
  <2>4. Posts(s) \subseteq Posts(u)
    BY <1>3, <2>1, <2>2
  <2>5. ASSUME NEW q \in Posts(t) PROVE q \in Posts(u)
    <3>1. PICK i \in 1..Len(t) : t[i].do = "post" /\ q = t[i].packet[1]
      BY <2>2, <2>5
    <3>2. Len(s) + i \in 1..Len(u) /\ u[Len(s) + i] = t[i]
      BY <1>3
    <3>3. QED
      BY <2>1, <3>1, <3>2
  <2>6. QED
    BY <2>3, <2>4, <2>5
<1>8. Turn(u)
  BY <1>5, <1>6 DEF Turn
<1>9. QED
  BY <1>1, <1>4, <1>7, <1>8 DEF u

(* The pieces turns are made of: a reply, a stop, a single access.          *)
LEMMA ReplyTurn ==
  ASSUME NEW id \in Nat, NEW kind \in {"value", "error", "sessionError", "fatal"}
  PROVE  /\ Reply(id, kind) \in Seq(Acts)
         /\ Turn(Reply(id, kind))
         /\ Posts(Reply(id, kind)) = {[id |-> id, kind |-> kind]}
         /\ Does(Reply(id, kind), "post")
         /\ ~Does(Reply(id, kind), "stop")
         /\ ~Does(Reply(id, kind), "free")
<1> DEFINE s == Reply(id, kind)
           q == [id |-> id, kind |-> kind]
<1>1. q \in Packets /\ <<q>> \in Seq(Packets) /\ <<q>> # <<>> /\ <<q>>[1] = q
  BY DEF Packets
<1>2. /\ s \in Seq(Acts) /\ Len(s) = 3 /\ s[1].do = "post" /\ s[2].do = "add" /\ s[3].do = "notify"
      /\ s[1].packet = <<q>>
  BY <1>1 DEF Reply, Act, Acts
<1> HIDE DEF s, q
<1>3. \A i \in 1..Len(s) : i = 1 \/ i = 2 \/ i = 3
  BY <1>2
<1>4. 1 \in 1..Len(s) /\ 2 \in 1..Len(s) /\ 3 \in 1..Len(s)
  BY <1>2
<1>5. Turn(s)
  <2>1. Followed(s, "post", "add") /\ Followed(s, "stop", "add") /\ Followed(s, "add", "notify")
    BY <1>2, <1>3, <1>4 DEF Followed
  <2>2. Once(s) /\ Carries(s)
    BY <1>1, <1>2, <1>3, <1>4 DEF Once, Carries
  <2>3. QED
    BY <2>1, <2>2 DEF Turn
<1>6. Posts(s) = {q}
  BY <1>1, <1>2, <1>3, <1>4 DEF Posts
<1>7. Does(s, "post") /\ ~Does(s, "stop") /\ ~Does(s, "free")
  BY <1>2, <1>3, <1>4 DEF Does
<1>8. QED
  BY <1>2, <1>5, <1>6, <1>7 DEF s, q

(* stop(): the state word, the generation, the notification, the port.      *)
LEMMA StopTurn ==
  /\ Stop \in Seq(Acts)
  /\ Turn(Stop)
  /\ Posts(Stop) = {}
  /\ Does(Stop, "stop")
  /\ ~Does(Stop, "post")
<1>1. /\ Stop \in Seq(Acts) /\ Len(Stop) = 4
      /\ Stop[1].do = "stop" /\ Stop[2].do = "add" /\ Stop[3].do = "notify" /\ Stop[4].do = "close"
  BY DEF Stop, Act, Acts
<1>2. \A i \in 1..Len(Stop) : i = 1 \/ i = 2 \/ i = 3 \/ i = 4
  BY <1>1
<1>3. 1 \in 1..Len(Stop) /\ 2 \in 1..Len(Stop) /\ 3 \in 1..Len(Stop)
  BY <1>1
<1>4. Turn(Stop)
  BY <1>1, <1>2, <1>3 DEF Turn, Followed, Once, Carries
<1>5. Posts(Stop) = {} /\ Does(Stop, "stop") /\ ~Does(Stop, "post")
  BY <1>1, <1>2, <1>3 DEF Posts, Does
<1>6. QED
  BY <1>1, <1>4, <1>5

(* An access on its own: the ready state, the end of a finally block.       *)
LEMMA ActTurn ==
  ASSUME NEW what \in {"free", "ready"}
  PROVE  /\ <<Act(what)>> \in Seq(Acts)
         /\ Turn(<<Act(what)>>)
         /\ Posts(<<Act(what)>>) = {}
         /\ Does(<<Act(what)>>, what)
         /\ ~Does(<<Act(what)>>, "post")
         /\ ~Does(<<Act(what)>>, "stop")
BY DEF Act, Acts, Turn, Followed, Once, Carries, Posts, Does

(* fatal(): one packet, and the worker is doomed from here on.              *)
LEMMA FatalTurn ==
  ASSUME NEW id \in Nat, NEW kind \in {"value", "error", "sessionError", "fatal"},
         NEW s, s = Reply(id, kind) \o Stop
  PROVE  /\ s \in Seq(Acts)
         /\ Turn(s)
         /\ Posts(s) = {[id |-> id, kind |-> kind]}
         /\ Does(s, "stop")
<1> DEFINE r == Reply(id, kind)
<1>1. /\ r \in Seq(Acts) /\ Turn(r) /\ Posts(r) = {[id |-> id, kind |-> kind]}
  BY ReplyTurn
<1>2. s = r \o Stop
  OBVIOUS
<1> HIDE DEF r
<1>3. /\ s \in Seq(Acts) /\ Turn(s) /\ Posts(s) = Posts(r) \cup Posts(Stop)
      /\ \A a : Does(s, a) <=> Does(r, a) \/ Does(Stop, a)
  BY <1>1, <1>2, StopTurn, TurnConcat
<1>4. QED
  BY <1>1, <1>3, StopTurn

(* The turn that settles dispatch(): one packet, the worker freed at its    *)
(* end and, after a close that succeeded, doomed.                           *)
LEMMA SettlementTurn ==
  ASSUME NEW run \in Messages, NEW kind \in {"value", "error", "sessionError", "fatal"},
         NEW s, s = Settlement(run, kind)
  PROVE  /\ s \in Seq(Acts)
         /\ Turn(s)
         /\ Posts(s) = {[id |-> run.id, kind |-> kind]}
         /\ Does(s, "free")
         /\ run.op = "close" /\ kind = "value" /\ ~worker.stopped => Does(s, "stop")
<1> DEFINE m == IF run.op = "close" /\ kind = "value" /\ ~worker.stopped THEN Stop ELSE <<>>
           r == Reply(run.id, kind)
           f == <<Act("free")>>
           u == r \o m
<1>1. run.id \in Nat
  BY DEF Messages
<1>2. m \in Seq(Acts) /\ Turn(m) /\ Posts(m) = {} /\ ~Does(m, "post")
  BY StopTurn, NoTurn
<1>3. run.op = "close" /\ kind = "value" /\ ~worker.stopped => Does(m, "stop")
  BY StopTurn
<1>4. r \in Seq(Acts) /\ Turn(r) /\ Posts(r) = {[id |-> run.id, kind |-> kind]}
  BY <1>1, ReplyTurn
<1>5. f \in Seq(Acts) /\ Turn(f) /\ Posts(f) = {} /\ Does(f, "free") /\ ~Does(f, "post")
  BY ActTurn
<1>6. s = u \o f
  BY DEF Settlement
<1> HIDE DEF m, r, f
<1>7. /\ u \in Seq(Acts) /\ Turn(u) /\ Posts(u) = Posts(r) \cup Posts(m)
      /\ \A a : Does(u, a) <=> Does(r, a) \/ Does(m, a)
  BY <1>2, <1>4, TurnConcat
<1> HIDE DEF u
<1>8. /\ s \in Seq(Acts) /\ Turn(s) /\ Posts(s) = Posts(u) \cup Posts(f)
      /\ \A a : Does(s, a) <=> Does(u, a) \/ Does(f, a)
  BY <1>5, <1>6, <1>7, TurnConcat
<1>9. QED
  BY <1>2, <1>3, <1>4, <1>5, <1>7, <1>8

(* The turn of the module body, when the client could be built.             *)
LEMMA BootTurn ==
  ASSUME NEW s, s = <<Act("ready")>> \o Reply(0, "value")
  PROVE  /\ s \in Seq(Acts)
         /\ Turn(s)
         /\ Posts(s) = {[id |-> 0, kind |-> "value"]}
<1> DEFINE r == Reply(0, "value")
           f == <<Act("ready")>>
<1>1. r \in Seq(Acts) /\ Turn(r) /\ Posts(r) = {[id |-> 0, kind |-> "value"]}
  BY ReplyTurn
<1>2. f \in Seq(Acts) /\ Turn(f) /\ Posts(f) = {} /\ ~Does(f, "post")
  BY ActTurn
<1>3. s = f \o r
  OBVIOUS
<1> HIDE DEF r, f
<1>4. /\ f \o r \in Seq(Acts) /\ Turn(f \o r) /\ Posts(f \o r) = Posts(f) \cup Posts(r)
      /\ \A a : Does(f \o r, a) <=> Does(f, a) \/ Does(r, a)
  BY <1>1, <1>2, TurnConcat
<1>5. QED
  BY <1>1, <1>2, <1>3, <1>4

(***************************************************************************)
(* Lemmas about steps.                                                     *)
(***************************************************************************)

(* A step that hands no command over, answers nothing and moves no session  *)
(* keeps what the invariant says of commands, runs, ids and sessions.       *)
LEMMA Frame ==
  ASSUME IInv,
         parent'.id = parent.id, parent'.op = parent.op,
         Elems(toWorker') \subseteq Elems(toWorker), session' = session, dispatched' = dispatched,
         client'.closing = client.closing, client'.complete = client.complete, client.closed => client'.closed,
         worker'.active = worker.active, worker'.run \in {worker.run, NoRun},
         Doomed => Doomed', Sent' \subseteq Sent
  PROVE  /\ CommandsOK' /\ RunOK' /\ IdsOK' /\ SessionOK'
         /\ report' = report => ReportOK'
<1>1. CommandsOK'
  BY DEF IInv, CommandsOK, Prepared
<1>2. RunOK'
  BY DEF IInv, RunOK, Prepared
<1>3. IdsOK'
  BY DEF IInv, IdsOK
<1>4. SessionOK'
  <2>1. ASSUME NEW q \in Sent', q.id = parent'.id, q.id # 0, q.kind \in {"value", "sessionError"} PROVE Answer(q)'
    <3>1. Answer(q)
      BY <2>1 DEF IInv, SessionOK
    <3>2. QED
      BY <3>1 DEF Answer
  <2>2. QED
    BY <2>1 DEF IInv, SessionOK
<1>5. report' = report => ReportOK'
  BY DEF IInv, ReportOK
<1>6. QED
  BY <1>1, <1>2, <1>3, <1>4, <1>5

(* What the invariant says of the worker's turn while the worker is silent. *)
LEMMA WorkerFrame ==
  ASSUME IInv, worker' = worker, dispatched' = dispatched, parent'.id \in Nat, parent'.id >= parent.id
  PROVE  WorkerOK' /\ (Doomed' <=> Doomed)
<1>1. worker.active \in Nat /\ parent.id \in Nat
  BY DEF IInv, Typed, Workers, Parents
<1>2. QED
  BY <1>1 DEF IInv, WorkerOK, Doomed

(* LoadGeneration, CheckWaits, Wait and Expire move the parent inside       *)
(* #receive: nothing else changes.                                          *)
LEMMA WithinReceive ==
  ASSUME IInv, UNCHANGED <<client, signal, toWorker, toParent, worker, session, dispatched, report>>,
         parent' \in Parents, parent'.id = parent.id, parent'.op = parent.op, parent'.packet = parent.packet,
         parent.pc # "idle", parent'.pc # "idle", parent'.pc = "decode" <=> parent.pc = "decode", WakeOK'
  PROVE  IInv'
<1>1. Typed'
  BY DEF IInv, Typed
<1>2. ParentOK'
  BY DEF IInv, ParentOK
<1>3. WorkerOK' /\ (Doomed' <=> Doomed)
  BY WorkerFrame DEF IInv, Typed
<1>4. Sent' = Sent
  BY DEF Sent
<1>5. OneUnderWay'
  BY <1>3 DEF IInv, OneUnderWay, UnderWay, One
<1>6. CommandsOK' /\ RunOK' /\ IdsOK' /\ SessionOK' /\ ReportOK'
  BY <1>3, <1>4, Frame
<1>7. QED
  BY <1>1, <1>2, <1>3, <1>5, <1>6 DEF IInv

(* The generation is read before the port is polled, so the parent's copy   *)
(* is never newer than what it then finds.                                  *)
LEMMA LoadGenerationStep == IInv /\ LoadGeneration => IInv'
<1> SUFFICES ASSUME IInv, LoadGeneration PROVE IInv'
  OBVIOUS
<1>1. /\ parent' \in Parents /\ parent'.id = parent.id /\ parent'.op = parent.op /\ parent'.packet = parent.packet
      /\ parent.pc = "load" /\ parent'.pc = "poll" /\ parent'.gen = signal.gen /\ signal.gen \in Nat
  BY DEF IInv, Typed, Parents, LoadGeneration
<1>2. WakeOK'
  BY <1>1 DEF WakeOK, LoadGeneration
<1>3. QED
  BY <1>1, <1>2, WithinReceive DEF LoadGeneration

(* The parent goes to wait only after it saw the worker not stopped.        *)
LEMMA CheckWaitsStep == IInv /\ CheckWaits => IInv'
<1> SUFFICES ASSUME IInv, CheckWaits PROVE IInv'
  OBVIOUS
<1>1. /\ parent' \in Parents /\ parent'.id = parent.id /\ parent'.op = parent.op /\ parent'.packet = parent.packet
      /\ parent.pc = "check" /\ parent'.pc = "wait" /\ parent'.gen = parent.gen
  BY DEF IInv, Typed, Parents, CheckWaits
<1>2. WakeOK'
  BY <1>1 DEF IInv, WakeOK, CheckWaits
<1>3. QED
  BY <1>1, <1>2, WithinReceive DEF CheckWaits

(* Atomics.wait sleeps only while the generation is the one that was read.  *)
LEMMA WaitStep == IInv /\ Wait => IInv'
<1> SUFFICES ASSUME IInv, Wait PROVE IInv'
  OBVIOUS
<1>1. /\ parent' \in Parents /\ parent'.id = parent.id /\ parent'.op = parent.op /\ parent'.packet = parent.packet
      /\ parent.pc = "wait" /\ parent'.pc \in {"asleep", "load"} /\ parent'.gen = parent.gen
      /\ parent'.pc = "asleep" => parent.gen = signal.gen
  BY DEF IInv, Typed, Parents, Wait
<1>2. WakeOK'
  BY <1>1 DEF IInv, WakeOK, Wait
<1>3. QED
  BY <1>1, <1>2, WithinReceive DEF Wait

(* The deadline passes; a sleeping parent wakes up.                         *)
LEMMA ExpireStep == IInv /\ Expire => IInv'
<1> SUFFICES ASSUME IInv, Expire PROVE IInv'
  OBVIOUS
<1>1. /\ parent' \in Parents /\ parent'.id = parent.id /\ parent'.op = parent.op /\ parent'.packet = parent.packet
      /\ parent.pc # "idle" /\ parent'.gen = parent.gen
      /\ parent'.pc = IF parent.pc = "asleep" THEN "load" ELSE parent.pc
  BY DEF IInv, Typed, Parents, Expire
<1>2. WakeOK'
  BY <1>1 DEF IInv, WakeOK, Expire
<1>3. QED
  BY <1>1, <1>2, WithinReceive DEF Expire

(* Taking the first message out of a channel.                               *)
LEMMA ChannelTail ==
  ASSUME NEW S, NEW s \in Seq(S), s # <<>>
  PROVE  /\ Tail(s) \in Seq(S)
         /\ Len(s) \in Nat /\ Len(Tail(s)) = Len(s) - 1
         /\ Head(s) \in S /\ Head(s) \in Elems(s)
         /\ Elems(Tail(s)) \subseteq Elems(s)
<1>1. /\ Tail(s) \in Seq(S) /\ Len(s) \in Nat /\ Len(s) >= 1 /\ Len(Tail(s)) = Len(s) - 1
      /\ Head(s) = s[1] /\ s[1] \in S
      /\ \A i \in 1..Len(Tail(s)) : i + 1 \in 1..Len(s) /\ Tail(s)[i] = s[i + 1]
  OBVIOUS
<1>2. QED
  BY <1>1 DEF Elems

(* receiveMessageOnPort: the parent finds nothing, or holds the first reply.*)
LEMMA PollStep == IInv /\ Poll => IInv'
<1> SUFFICES ASSUME IInv, Poll PROVE IInv'
  OBVIOUS
<1>1. CASE toParent = <<>>
  <2>1. /\ parent' \in Parents /\ parent'.id = parent.id /\ parent'.op = parent.op /\ parent'.packet = parent.packet
        /\ parent.pc = "poll" /\ parent'.pc = "check" /\ parent'.gen = parent.gen
    BY <1>1 DEF IInv, Typed, Parents, Poll
  <2>2. UNCHANGED <<client, signal, toWorker, toParent, worker, session, dispatched, report>>
    BY <1>1 DEF Poll
  <2>3. WakeOK'
    BY <1>1, <2>1, <2>2 DEF IInv, WakeOK
  <2>4. QED
    BY <2>1, <2>2, <2>3, WithinReceive
<1>2. CASE toParent # <<>>
  <2> DEFINE q == Head(toParent)
  <2>1. /\ toParent \in Seq(Packets) /\ toParent' = Tail(toParent)
        /\ UNCHANGED <<client, signal, toWorker, worker, session, dispatched, report>>
    BY <1>2 DEF IInv, Typed, Poll
  <2>2. /\ toParent' \in Seq(Packets) /\ Len(toParent) \in Nat /\ Len(toParent') = Len(toParent) - 1
        /\ q \in Packets /\ q \in Elems(toParent) /\ Elems(toParent') \subseteq Elems(toParent)
    BY <1>2, <2>1, ChannelTail
  <2>3. parent' = [parent EXCEPT !.pc = "decode", !.packet = <<q>>]
    BY <1>2 DEF Poll
  <2> HIDE DEF q
  <2>4. <<q>> \in Seq(Packets) /\ <<q>> # <<>> /\ <<q>>[1] = q
    BY <2>2
  <2>5. /\ parent' \in Parents /\ parent'.id = parent.id /\ parent'.op = parent.op /\ parent'.packet = <<q>>
        /\ parent.pc = "poll" /\ parent'.pc = "decode" /\ parent'.gen = parent.gen
    BY <2>3, <2>4 DEF IInv, Typed, Parents, Poll
  <2>6. Typed'
    BY <2>1, <2>2, <2>5 DEF IInv, Typed
  <2>7. ParentOK'
    BY <2>1, <2>4, <2>5 DEF IInv, ParentOK
  <2>8. WorkerOK' /\ (Doomed' <=> Doomed)
    BY <2>1, <2>5, <2>6, WorkerFrame DEF Typed
  <2>9. Sent' \subseteq Sent
    BY <2>1, <2>2, <2>4, <2>5 DEF Sent
  <2>10. UnderWay' = UnderWay
    <3>1. Len(toWorker) \in Nat
      BY DEF IInv, Typed
    <3>2. QED
      BY <3>1, <2>1, <2>2, <2>5 DEF UnderWay, One
  <2>11. OneUnderWay'
    BY <2>1, <2>5, <2>8, <2>10 DEF IInv, OneUnderWay, One
  <2>12. CommandsOK' /\ RunOK' /\ IdsOK' /\ SessionOK' /\ ReportOK'
    BY <2>1, <2>5, <2>8, <2>9, Frame
  <2>13. WakeOK'
    BY <2>1, <2>5 DEF IInv, WakeOK
  <2>14. QED
    BY <2>6, <2>7, <2>8, <2>11, <2>12, <2>13 DEF IInv
<1>3. QED
  BY <1>1, <1>2

(* What a call that returns leaves: the parent idle, the reply it held      *)
(* consumed, its report written.                                            *)
LEMMA Returned ==
  ASSUME IInv, parent.pc # "idle",
         NEW what, what \in {"value", "error", LocalError, UncertainError}, Return(what),
         UNCHANGED <<signal, toWorker, toParent, worker, dispatched>>
  PROVE  /\ parent' \in Parents /\ parent'.id = parent.id /\ parent'.op = parent.op /\ parent'.pc = "idle"
         /\ report' \in [Ids -> {"pending", "value", "error", LocalError, UncertainError}]
         /\ \A i \in Ids : report'[i] = IF i = parent.id THEN what ELSE report[i]
         /\ \A i \in Ids : parent.id < i => report'[i] = "pending"
         /\ WorkerOK' /\ WakeOK' /\ (Doomed' <=> Doomed) /\ Sent' \subseteq Sent
         /\ UnderWay \in Nat /\ UnderWay' = UnderWay - One(parent.pc = "decode")
<1>1. parent' \in Parents /\ parent'.id = parent.id /\ parent'.op = parent.op /\ parent'.pc = "idle"
  <2>1. <<>> \in Seq(Packets)
    OBVIOUS
  <2>2. QED
    BY <2>1 DEF IInv, Typed, Parents, Return
<1>2. parent.id \in 0..MaxCalls /\ parent.id \in Nat /\ (parent.id # 0 => parent.id \in Ids)
  BY BridgeAssumption DEF IInv, Typed, Parents, Ids
<1>3. \A i \in Ids : i # 0
  BY DEF Ids
<1>4. /\ report' \in [Ids -> {"pending", "value", "error", LocalError, UncertainError}]
      /\ \A i \in Ids : report'[i] = IF i = parent.id THEN what ELSE report[i]
  BY <1>2, <1>3 DEF IInv, Typed, Return
<1>5. \A i \in Ids : parent.id < i => report'[i] = "pending"
  <2>1. \A i \in Ids : parent.id < i => i # parent.id
    BY <1>2
  <2>2. QED
    BY <1>4, <2>1 DEF IInv, ParentOK
<1>6. WorkerOK' /\ (Doomed' <=> Doomed)
  BY <1>1, <1>2, WorkerFrame
<1>7. WakeOK'
  BY <1>1 DEF WakeOK
<1>8. Sent' \subseteq Sent
  BY <1>1 DEF Sent
<1>9. UnderWay \in Nat /\ UnderWay' = UnderWay - One(parent.pc = "decode")
  <2>1. Len(toWorker) \in Nat /\ Len(toParent) \in Nat
    BY DEF IInv, Typed
  <2>2. QED
    BY <1>1, <2>1 DEF UnderWay, One
<1>10. QED
  BY <1>1, <1>4, <1>5, <1>6, <1>7, <1>8, <1>9

(* #fail(): the client is closed, and not_started is reported only when the *)
(* worker cannot take the command any more.                                 *)
LEMMA Failed ==
  ASSUME IInv, parent.pc # "idle",
         NEW f, f \in {"error", LocalError, UncertainError}, Fail(f),
         UNCHANGED <<signal, toWorker, toParent, worker, session, dispatched>>,
         f = LocalError => \/ parent.id = 0
                           \/ /\ parent.id \notin dispatched
                              /\ Doomed \/ \A c \in Elems(toWorker) : c.id # parent.id
  PROVE  IInv'
<1>1. /\ client' \in Clients /\ client'.closing = client.closing /\ client'.complete = client.complete
      /\ client'.closed /\ client'.failure = f
  BY DEF IInv, Typed, Clients, Fail
<1>2. Return(f)
  BY DEF Fail
<1>3. /\ parent' \in Parents /\ parent'.id = parent.id /\ parent'.op = parent.op /\ parent'.pc = "idle"
      /\ report' \in [Ids -> {"pending", "value", "error", LocalError, UncertainError}]
      /\ \A i \in Ids : report'[i] = IF i = parent.id THEN f ELSE report[i]
      /\ \A i \in Ids : parent.id < i => report'[i] = "pending"
      /\ WorkerOK' /\ WakeOK' /\ (Doomed' <=> Doomed) /\ Sent' \subseteq Sent
      /\ UnderWay \in Nat /\ UnderWay' = UnderWay - One(parent.pc = "decode")
  BY <1>2, Returned
<1>4. Typed'
  BY <1>1, <1>3 DEF IInv, Typed
<1>5. ParentOK'
  BY <1>1, <1>3 DEF IInv, ParentOK
<1>6. OneUnderWay'
  BY <1>1, <1>3 DEF IInv, OneUnderWay, One
<1>7. CommandsOK' /\ RunOK' /\ IdsOK' /\ SessionOK'
  BY <1>1, <1>3, Frame
<1>8. ReportOK'
  <2>1. \A i \in Ids : i # 0
    BY DEF Ids
  <2>2. f # "value"
    BY DEF LocalError, UncertainError
  <2>3. ASSUME NEW i \in Ids, report'[i] = LocalError
        PROVE  i \notin dispatched' /\ (Doomed' \/ \A c \in Elems(toWorker') : c.id # i)
    BY <1>3, <2>1, <2>3 DEF IInv, ReportOK
  <2>4. ASSUME NEW i \in Ids, report'[i] = "value" PROVE i \in dispatched'
    BY <1>3, <2>2, <2>4 DEF IInv, ReportOK
  <2>5. QED
    BY <2>3, <2>4 DEF ReportOK
<1>9. QED
  BY <1>3, <1>4, <1>5, <1>6, <1>7, <1>8 DEF IInv

(* While the parent holds a reply, no command waits for a healthy worker.   *)
LEMMA DecodeAlone ==
  ASSUME IInv, parent.pc = "decode"
  PROVE  /\ Doomed \/ Elems(toWorker) = {}
         /\ parent.packet[1] \in Sent
         /\ parent.packet[1] \in Packets
<1>1. /\ toWorker \in Seq(Messages) /\ Len(toWorker) \in Nat /\ Len(toParent) \in Nat
      /\ parent.packet \in Seq(Packets) /\ parent.packet # <<>>
  BY DEF IInv, Typed, Parents, ParentOK
<1>2. ASSUME ~Doomed PROVE Len(toWorker) = 0
  BY <1>1, <1>2 DEF IInv, OneUnderWay, UnderWay, One
<1>3. Len(toWorker) = 0 => Elems(toWorker) = {}
  BY <1>1 DEF Elems
<1>4. parent.packet[1] \in Packets
  BY <1>1
<1>5. QED
  BY <1>2, <1>3, <1>4 DEF Sent

(* A reply with a foreign id: the worker answered an earlier call, so it    *)
(* never took the present one and, being doomed, never will.                *)
LEMMA DecodeForeignStep == IInv /\ DecodeForeign => IInv'
<1> SUFFICES ASSUME IInv, DecodeForeign PROVE IInv'
  OBVIOUS
<1>1. parent.pc = "decode" /\ parent.packet[1].id # parent.id
  BY DEF DecodeForeign
<1>2. parent.id \notin dispatched
  BY <1>1, DecodeAlone DEF IInv, IdsOK
<1>3. Doomed \/ \A c \in Elems(toWorker) : c.id # parent.id
  BY <1>1, DecodeAlone
<1>4. /\ parent.pc # "idle" /\ Fail(LocalError)
      /\ UNCHANGED <<signal, toWorker, toParent, worker, session, dispatched>>
  BY <1>1 DEF DecodeForeign
<1>5. QED
  BY <1>2, <1>3, <1>4, Failed

(* A recorded failure or a stopped worker ends the call; not_started is     *)
(* left to the constructor.                                                 *)
LEMMA CheckFailedStep == IInv /\ CheckFailed => IInv'
<1> SUFFICES ASSUME IInv, CheckFailed PROVE IInv'
  OBVIOUS
<1> DEFINE f == IF client.failure # "none" THEN client.failure
                ELSE IF parent.op = "start" THEN LocalError ELSE UncertainError
<1>1. /\ parent.pc # "idle" /\ Fail(f)
      /\ UNCHANGED <<signal, toWorker, toParent, worker, session, dispatched>>
  BY DEF CheckFailed
<1>2. client.failure \in {"none", UncertainError} /\ (parent.op = "start" => parent.id = 0)
  BY <1>1 DEF IInv, ParentOK
<1>3. f \in {"error", LocalError, UncertainError} /\ (f = LocalError => parent.id = 0)
  BY <1>2 DEF LocalError, UncertainError
<1> HIDE DEF f
<1>4. QED
  BY <1>1, <1>3, Failed

(* So does the deadline.                                                    *)
LEMMA CheckDeadlineStep == IInv /\ CheckDeadline => IInv'
<1> SUFFICES ASSUME IInv, CheckDeadline PROVE IInv'
  OBVIOUS
<1> DEFINE f == IF parent.op = "start" THEN LocalError ELSE UncertainError
<1>1. /\ parent.pc # "idle" /\ Fail(f)
      /\ UNCHANGED <<signal, toWorker, toParent, worker, session, dispatched>>
  BY DEF CheckDeadline
<1>2. f \in {"error", LocalError, UncertainError} /\ (f = LocalError => parent.id = 0)
  BY DEF IInv, ParentOK, LocalError, UncertainError
<1> HIDE DEF f
<1>3. QED
  BY <1>1, <1>2, Failed

(* An error reply: the bridge may go on, with nothing under way.            *)
LEMMA DecodeErrorStep == IInv /\ DecodeError => IInv'
<1> SUFFICES ASSUME IInv, DecodeError PROVE IInv'
  OBVIOUS
<1> DEFINE f == IF parent.packet[1].kind = "fatal" THEN UncertainError ELSE "error"
<1>1. /\ parent.pc = "decode" /\ Return(f)
      /\ UNCHANGED <<signal, toWorker, toParent, worker, session, dispatched>>
      /\ client' = IF signal.state = 2 \/ parent.op = "start"
                   THEN [client EXCEPT !.closed = TRUE, !.failure = f] ELSE client
  BY DEF DecodeError
<1>2. f \in {"error", UncertainError} /\ f # LocalError /\ f # "value"
  BY DEF LocalError, UncertainError
<1> HIDE DEF f
<1>3. /\ parent' \in Parents /\ parent'.id = parent.id /\ parent'.op = parent.op /\ parent'.pc = "idle"
      /\ report' \in [Ids -> {"pending", "value", "error", LocalError, UncertainError}]
      /\ \A i \in Ids : report'[i] = IF i = parent.id THEN f ELSE report[i]
      /\ \A i \in Ids : parent.id < i => report'[i] = "pending"
      /\ WorkerOK' /\ WakeOK' /\ (Doomed' <=> Doomed) /\ Sent' \subseteq Sent
      /\ UnderWay \in Nat /\ UnderWay' = UnderWay - One(parent.pc = "decode")
  BY <1>1, <1>2, Returned
<1>4. /\ client' \in Clients /\ client'.closing = client.closing /\ client'.complete = client.complete
      /\ client.closed => client'.closed
      /\ client'.failure \notin {"none", UncertainError} => client'.closed
  BY <1>1, <1>2 DEF IInv, Typed, Clients, ParentOK
<1>5. Typed'
  BY <1>1, <1>3, <1>4 DEF IInv, Typed
<1>6. ParentOK'
  BY <1>3, <1>4 DEF IInv, ParentOK
<1>7. OneUnderWay'
  BY <1>1, <1>3 DEF IInv, OneUnderWay, One
<1>8. CommandsOK' /\ RunOK' /\ IdsOK' /\ SessionOK'
  BY <1>1, <1>3, <1>4, Frame
<1>9. ReportOK'
  BY <1>1, <1>2, <1>3 DEF IInv, ReportOK
<1>10. QED
  BY <1>3, <1>5, <1>6, <1>7, <1>8, <1>9 DEF IInv

(* A value, with what createSession, sessionClose and close make of it: the *)
(* answer that the parent holds vouches for the remote context.             *)
LEMMA DecodeValueStep == IInv /\ DecodeValue => IInv'
<1> SUFFICES ASSUME IInv, DecodeValue PROVE IInv'
  OBVIOUS
<1> DEFINE q == parent.packet[1]
           what == IF q.kind = "value" THEN "value" ELSE "error"
<1>1. /\ parent.pc = "decode" /\ q.id = parent.id /\ q.kind \in {"value", "sessionError"}
      /\ Return(what)
      /\ UNCHANGED <<signal, toWorker, toParent, worker, dispatched>>
      /\ client' = IF parent.op = "close" THEN [client EXCEPT !.complete = TRUE, !.closed = TRUE] ELSE client
      /\ session' = [session EXCEPT !.handle = HandleAfter(parent.op, q.kind)]
  BY DEF DecodeValue
<1>2. (Doomed \/ Elems(toWorker) = {}) /\ q \in Sent /\ q \in Packets
  BY <1>1, DecodeAlone
<1>3. what \in {"value", "error"} /\ what # LocalError /\ (what = "value" => q.kind = "value")
  BY DEF LocalError
<1> HIDE DEF q, what
<1>4. /\ parent' \in Parents /\ parent'.id = parent.id /\ parent'.op = parent.op /\ parent'.pc = "idle"
      /\ report' \in [Ids -> {"pending", "value", "error", LocalError, UncertainError}]
      /\ \A i \in Ids : report'[i] = IF i = parent.id THEN what ELSE report[i]
      /\ \A i \in Ids : parent.id < i => report'[i] = "pending"
      /\ WorkerOK' /\ WakeOK' /\ (Doomed' <=> Doomed) /\ Sent' \subseteq Sent
      /\ UnderWay \in Nat /\ UnderWay' = UnderWay - One(parent.pc = "decode")
  BY <1>1, <1>3, Returned
<1>5. /\ client' \in Clients /\ client'.closing = client.closing
      /\ client'.complete <=> client.complete \/ parent.op = "close"
      /\ client'.closed <=> client.closed \/ parent.op = "close"
      /\ client'.failure = client.failure
  BY <1>1 DEF IInv, Typed, Clients
<1>6. /\ session'.remote = session.remote
      /\ session'.handle = IF parent.op = "createSession" THEN "open"
                           ELSE IF parent.op = "sessionClose" /\ q.kind = "value" THEN "closed"
                           ELSE session.handle
      /\ session' \in [handle : {"none", "open", "closing", "closed"}, remote : {"none", "live", "deleted"}]
  BY <1>1 DEF IInv, Typed, HandleAfter
<1>7. parent.op # "start" => Answer(q)
  BY <1>1, <1>2 DEF IInv, SessionOK, ParentOK
<1>8. Typed'
  BY <1>1, <1>4, <1>5, <1>6 DEF IInv, Typed
<1>9. ParentOK'
  BY <1>4, <1>5 DEF IInv, ParentOK
<1>10. OneUnderWay'
  BY <1>1, <1>4 DEF IInv, OneUnderWay, One
<1>11. CommandsOK'
  BY <1>1, <1>2, <1>4 DEF CommandsOK
<1>12. RunOK'
  <2>1. CASE parent.op = "start"
    BY <1>1, <1>4, <1>5, <1>6, <2>1 DEF IInv, RunOK, Prepared
  <2>2. CASE parent.op # "start"
    BY <1>1, <1>7, <2>2 DEF Answer, RunOK
  <2>3. QED
    BY <2>1, <2>2
<1>13. IdsOK'
  BY <1>1, <1>4 DEF IInv, IdsOK
<1>14. ReportOK'
  <2>1. \A i \in Ids : i # 0
    BY DEF Ids
  <2>2. what = "value" /\ parent.id # 0 => parent.id \in dispatched
    BY <1>1, <1>2, <1>3 DEF IInv, IdsOK
  <2>3. QED
    BY <1>1, <1>3, <1>4, <2>1, <2>2 DEF IInv, ReportOK
<1>15. SessionOK'
  <2>1. ASSUME NEW p \in Sent', p.id = parent'.id, p.id # 0, p.kind \in {"value", "sessionError"} PROVE Answer(p)'
    <3>1. Answer(p)
      BY <1>4, <2>1 DEF IInv, SessionOK
    <3>2. QED
      BY <1>1, <1>4, <1>6, <3>1 DEF Answer
  <2>2. client'.complete => Doomed' /\ worker'.run = NoRun /\ session'.remote # "live"
    BY <1>1, <1>4, <1>5, <1>6, <1>7 DEF IInv, SessionOK, Answer
  <2>3. session'.handle # "none" => session'.remote # "none"
    BY <1>6, <1>7 DEF IInv, SessionOK, Answer
  <2>4. session'.handle = "closed" => session'.remote = "deleted"
    BY <1>6, <1>7 DEF IInv, SessionOK, Answer
  <2>5. session'.handle = "open" /\ ~client'.closed /\ ~client'.closing => session'.remote = "live"
    BY <1>5, <1>6, <1>7 DEF IInv, SessionOK, Answer
  <2>6. QED
    BY <2>1, <2>2, <2>3, <2>4, <2>5 DEF SessionOK
<1>16. QED
  BY <1>4, <1>8, <1>9, <1>10, <1>11, <1>12, <1>13, <1>14, <1>15 DEF IInv

(* Between two calls nothing is under way in a healthy bridge.              *)
LEMMA IdleEmpty ==
  ASSUME IInv, parent.pc = "idle", ~client.closed, ~Doomed
  PROVE  /\ UnderWay = 0
         /\ Len(toWorker) = 0 /\ Elems(toWorker) = {}
<1>1. toWorker \in Seq(Messages) /\ Len(toWorker) \in Nat /\ Len(toParent) \in Nat
  BY DEF IInv, Typed
<1>2. UnderWay = 0 /\ Len(toWorker) = 0
  BY <1>1 DEF IInv, OneUnderWay, UnderWay, One
<1>3. QED
  BY <1>1, <1>2 DEF Elems

(* A new call gets an id that nothing in the bridge carries yet.            *)
LEMMA Numbered ==
  ASSUME IInv, parent.pc = "idle", parent.id < MaxCalls, ~client.closed,
         parent'.id = parent.id + 1, parent'.pc # "decode",
         UNCHANGED <<toParent, worker, dispatched>>,
         client.closing => client'.closing, client'.complete = client.complete,
         session'.remote = session.remote,
         \/ session'.handle = session.handle
         \/ session.handle \in {"open", "closing"} /\ session'.handle = "closing"
  PROVE  /\ parent.id \in Nat /\ parent'.id \in Ids /\ parent'.id \in 0..MaxCalls /\ parent'.id \notin dispatched
         /\ \A c \in Elems(toWorker) : c.id # parent'.id
         /\ Sent' = Sent
         /\ WorkerOK' /\ RunOK' /\ SessionOK' /\ (Doomed' <=> Doomed)
         /\ (\A c \in Elems(toWorker') : c.id \in 1..parent'.id) => IdsOK'
<1>1. parent.id \in Nat /\ parent'.id \in Nat /\ parent'.id \in Ids /\ parent'.id \in 0..MaxCalls
  BY BridgeAssumption DEF IInv, Typed, Parents, Ids
<1>2. parent'.id \notin dispatched /\ \A c \in Elems(toWorker) : c.id # parent'.id
  BY <1>1 DEF IInv, IdsOK
<1>3. Sent' = Sent
  BY DEF Sent
<1>4. WorkerOK' /\ (Doomed' <=> Doomed)
  BY <1>1, WorkerFrame
<1>5. \A q \in Sent : q.id \in Nat
  <2>1. \A q \in Elems(toParent) : q \in Packets
    BY DEF IInv, Typed, Elems
  <2>2. \A q \in Posts(worker.todo) : q \in Packets
    <3>1. worker.todo \in Seq(Acts) /\ Carries(worker.todo)
      BY DEF IInv, Typed, Workers, WorkerOK, Turn
    <3>2. \A i \in 1..Len(worker.todo) : worker.todo[i] \in Acts
      BY <3>1
    <3>3. ASSUME NEW a \in Acts, a.packet # <<>> PROVE a.packet[1] \in Packets
      BY <3>3 DEF Acts
    <3>4. QED
      BY <3>1, <3>2, <3>3 DEF Posts, Carries
  <2>3. QED
    BY <2>1, <2>2 DEF Sent, Packets
<1>6. \A q \in Sent : q.id <= parent'.id /\ q.id # parent'.id
  BY <1>1, <1>5 DEF IInv, IdsOK
<1>7. RunOK'
  BY <1>2 DEF IInv, RunOK, Prepared
<1>8. SessionOK'
  BY <1>3, <1>4, <1>6 DEF IInv, SessionOK
<1>9. ASSUME \A c \in Elems(toWorker') : c.id \in 1..parent'.id PROVE IdsOK'
  <2>1. \A i \in dispatched : i \in 1..parent'.id
    BY <1>1 DEF IInv, IdsOK
  <2>2. QED
    BY <1>2, <1>3, <1>6, <1>9, <2>1 DEF IInv, IdsOK
<1>10. QED
  BY <1>1, <1>2, <1>3, <1>4, <1>7, <1>8, <1>9

(* #call(): the command is the one thing under way.                         *)
LEMMA CallStep == ASSUME IInv, NEW op \in Operations, Call(op) PROVE IInv'
<1>0. PICK c : c = [id |-> parent.id + 1, op |-> op]
  OBVIOUS
<1>1. /\ parent.pc = "idle" /\ parent.id < MaxCalls /\ ~client.closed
      /\ UNCHANGED <<signal, toParent, worker, dispatched, report>>
      /\ op = "createSession" => session.handle = "none"
      /\ op = "sessionClose" => session.handle \in {"open", "closing"}
      /\ parent' = [parent EXCEPT !.pc = "load", !.id = @ + 1, !.op = op, !.due = FALSE]
      /\ client' = [client EXCEPT !.closing = @ \/ op = "close"]
      /\ session' = IF op = "sessionClose" THEN [session EXCEPT !.handle = "closing"] ELSE session
      /\ toWorker' = toWorker \/ toWorker' = Append(toWorker, c)
  BY <1>0 DEF Call, WithinBounds, CallAllowed, SessionAllowed, Send
<1>2. op \in Commands /\ op # "start" /\ parent.id \in Nat
  BY BridgeAssumption DEF Commands, IInv, Typed, Parents
<1>3. c \in Messages /\ c.id = parent.id + 1 /\ c.op = op
  BY <1>0, <1>2 DEF Messages
<1>4. /\ parent' \in Parents /\ parent'.id = parent.id + 1 /\ parent'.op = op /\ parent'.pc = "load"
  <2>1. parent.id + 1 \in Nat /\ op \in Commands \cup {"start"}
    BY <1>2
  <2> HIDE DEF Commands
  <2>2. QED
    BY <1>1, <2>1 DEF IInv, Typed, Parents
<1>5. /\ client' \in Clients /\ client'.complete = client.complete /\ client'.closed = client.closed
      /\ client'.failure = client.failure /\ (client'.closing <=> client.closing \/ op = "close")
  BY <1>1 DEF IInv, Typed, Clients
<1>6. /\ session' \in [handle : {"none", "open", "closing", "closed"}, remote : {"none", "live", "deleted"}]
      /\ session'.remote = session.remote
      /\ session'.handle = IF op = "sessionClose" THEN "closing" ELSE session.handle
  BY <1>1 DEF IInv, Typed
<1>7. /\ toWorker \in Seq(Messages) /\ Len(toWorker) \in Nat /\ Len(toParent) \in Nat
      /\ Append(toWorker, c) \in Seq(Messages) /\ Len(Append(toWorker, c)) = Len(toWorker) + 1
      /\ Elems(Append(toWorker, c)) = Elems(toWorker) \cup {c}
  BY <1>3, AppendLemma DEF IInv, Typed
<1>8. /\ toWorker' \in Seq(Messages) /\ Len(toWorker') \in Nat /\ Len(toWorker') <= Len(toWorker) + 1
      /\ Elems(toWorker') \subseteq Elems(toWorker) \cup {c}
  <2>1. CASE toWorker' = toWorker
    BY <1>7, <2>1
  <2>2. CASE toWorker' = Append(toWorker, c)
    BY <1>7, <2>2
  <2>3. QED
    BY <1>1, <2>1, <2>2
<1>9. /\ parent'.id \in Ids /\ parent'.id \in 0..MaxCalls /\ parent'.id \notin dispatched
      /\ \A d \in Elems(toWorker) : d.id # parent'.id
      /\ Sent' = Sent
      /\ WorkerOK' /\ RunOK' /\ SessionOK' /\ (Doomed' <=> Doomed)
      /\ (\A d \in Elems(toWorker') : d.id \in 1..parent'.id) => IdsOK'
  BY <1>1, <1>4, <1>5, <1>6, Numbered
<1>10. Typed'
  BY <1>1, <1>4, <1>5, <1>6, <1>8, <1>9 DEF IInv, Typed
<1>11. ParentOK'
  <2>1. \A i \in Ids : parent'.id < i => parent.id < i
    BY <1>2, <1>4 DEF Ids
  <2>2. QED
    BY <1>1, <1>2, <1>4, <1>5, <2>1 DEF IInv, ParentOK
<1>12. OneUnderWay'
  <2>1. ASSUME ~Doomed' PROVE UnderWay' <= 1
    <3>1. UnderWay = 0
      BY <1>1, <1>9, <2>1, IdleEmpty
    <3>2. QED
      BY <1>1, <1>4, <1>7, <1>8, <3>1 DEF UnderWay, One
  <2>2. QED
    BY <1>4, <2>1 DEF OneUnderWay, One
<1>13. CommandsOK'
  <2>1. ASSUME ~Doomed', NEW d \in Elems(toWorker') PROVE d = c
    BY <1>1, <1>8, <1>9, <2>1, IdleEmpty
  <2>2. Prepared(c)'
    BY <1>1, <1>3, <1>5, <1>6 DEF Prepared
  <2>3. QED
    BY <1>3, <1>4, <2>1, <2>2 DEF CommandsOK
<1>14. IdsOK'
  <2>1. \A d \in Elems(toWorker) : d.id \in 1..parent'.id
    BY <1>2, <1>4 DEF IInv, IdsOK
  <2>2. c.id \in 1..parent'.id
    BY <1>2, <1>3, <1>4
  <2>3. QED
    BY <1>8, <1>9, <2>1, <2>2
<1>15. ReportOK'
  <2>1. report[parent'.id] = "pending"
    BY <1>2, <1>4, <1>9 DEF IInv, ParentOK
  <2>2. \A i \in Ids : report[i] = LocalError => i # parent'.id
    BY <2>1 DEF LocalError
  <2>3. QED
    BY <1>1, <1>3, <1>4, <1>8, <1>9, <2>2 DEF IInv, ReportOK
<1>16. WakeOK'
  BY <1>4 DEF WakeOK
<1>17. QED
  BY <1>9, <1>10, <1>11, <1>12, <1>13, <1>14, <1>15, <1>16 DEF IInv

(* A command that could not be cloned was never posted.                     *)
LEMMA CallNotClonedStep == ASSUME IInv, NEW op \in Operations, CallNotCloned(op) PROVE IInv'
<1>1. /\ parent.pc = "idle" /\ parent.id < MaxCalls /\ ~client.closed
      /\ UNCHANGED <<signal, toWorker, toParent, worker, session, dispatched>>
      /\ parent' = [parent EXCEPT !.id = @ + 1, !.op = op]
      /\ client' = [client EXCEPT !.closed = TRUE, !.failure = LocalError]
      /\ report' = [report EXCEPT ![parent.id + 1] = LocalError]
  BY DEF CallNotCloned, WithinBounds, CallAllowed
<1>2. op \in Commands /\ op # "start" /\ parent.id \in Nat
  BY BridgeAssumption DEF Commands, IInv, Typed, Parents
<1>3. /\ parent' \in Parents /\ parent'.id = parent.id + 1 /\ parent'.op = op /\ parent'.pc = "idle"
  <2>1. parent.id + 1 \in Nat /\ op \in Commands \cup {"start"}
    BY <1>2
  <2> HIDE DEF Commands
  <2>2. QED
    BY <1>1, <2>1 DEF IInv, Typed, Parents
<1>4. /\ client' \in Clients /\ client'.complete = client.complete /\ client'.closed
      /\ client'.failure = LocalError /\ client'.closing = client.closing
  BY <1>1 DEF IInv, Typed, Clients
<1>5. /\ parent'.id \in Ids /\ parent'.id \in 0..MaxCalls /\ parent'.id \notin dispatched
      /\ \A d \in Elems(toWorker) : d.id # parent'.id
      /\ Sent' = Sent
      /\ WorkerOK' /\ RunOK' /\ SessionOK' /\ (Doomed' <=> Doomed)
      /\ (\A d \in Elems(toWorker') : d.id \in 1..parent'.id) => IdsOK'
  BY <1>1, <1>3, <1>4, Numbered
<1>6. /\ report' \in [Ids -> {"pending", "value", "error", LocalError, UncertainError}]
      /\ \A i \in Ids : report'[i] = IF i = parent'.id THEN LocalError ELSE report[i]
  BY <1>1, <1>3, <1>5 DEF IInv, Typed
<1>7. Typed'
  BY <1>1, <1>3, <1>4, <1>5, <1>6 DEF IInv, Typed
<1>8. ParentOK'
  <2>1. \A i \in Ids : parent'.id < i => parent.id < i /\ i # parent'.id
    BY <1>2, <1>3 DEF Ids
  <2>2. QED
    BY <1>2, <1>3, <1>4, <1>6, <2>1 DEF IInv, ParentOK
<1>9. OneUnderWay' /\ CommandsOK'
  <2>1. ASSUME ~Doomed' PROVE UnderWay' = 0 /\ Elems(toWorker') = {}
    <3>1. UnderWay = 0 /\ Elems(toWorker) = {}
      BY <1>1, <1>5, <2>1, IdleEmpty
    <3>2. QED
      BY <1>1, <1>3, <3>1 DEF UnderWay
  <2>2. QED
    BY <1>4, <2>1 DEF OneUnderWay, CommandsOK, One
<1>10. IdsOK'
  <2>1. \A d \in Elems(toWorker) : d.id \in 1..parent'.id
    BY <1>2, <1>3 DEF IInv, IdsOK
  <2>2. QED
    BY <1>1, <1>5, <2>1
<1>11. ReportOK'
  <2>1. LocalError # "value"
    BY DEF LocalError
  <2>2. QED
    BY <1>1, <1>5, <1>6, <2>1 DEF IInv, ReportOK
<1>12. WakeOK'
  BY <1>3 DEF WakeOK
<1>13. QED
  BY <1>5, <1>7, <1>8, <1>9, <1>10, <1>11, <1>12 DEF IInv

(* A session closed without a call.                                         *)
LEMMA CloseSessionLocallyStep == IInv /\ CloseSessionLocally => IInv'
<1> SUFFICES ASSUME IInv, CloseSessionLocally PROVE IInv'
  OBVIOUS
<1>1. /\ client.closed /\ session.handle \in {"open", "closing"}
      /\ UNCHANGED <<parent, client, signal, toWorker, toParent, worker, dispatched, report>>
      /\ session' = [session EXCEPT !.handle = IF client.complete THEN "closed" ELSE "closing"]
  BY DEF CloseSessionLocally
<1>2. /\ session' \in [handle : {"none", "open", "closing", "closed"}, remote : {"none", "live", "deleted"}]
      /\ session'.remote = session.remote
      /\ session'.handle = IF client.complete THEN "closed" ELSE "closing"
  BY <1>1 DEF IInv, Typed
<1>3. Typed' /\ ParentOK'
  BY <1>1, <1>2 DEF IInv, Typed, ParentOK
<1>4. WorkerOK' /\ (Doomed' <=> Doomed) /\ Sent' = Sent /\ UnderWay' = UnderWay
  BY <1>1 DEF IInv, WorkerOK, Doomed, Sent, UnderWay
<1>5. OneUnderWay' /\ IdsOK' /\ WakeOK' /\ ReportOK'
  BY <1>1, <1>4 DEF IInv, OneUnderWay, IdsOK, WakeOK, ReportOK
<1>6. CommandsOK' /\ RunOK'
  BY <1>1, <1>2, <1>4 DEF IInv, CommandsOK, RunOK, Prepared
<1>7. SessionOK'
  <2>1. ASSUME NEW q \in Sent', q.id = parent'.id, q.id # 0, q.kind \in {"value", "sessionError"} PROVE Answer(q)'
    <3>1. Answer(q)
      BY <1>1, <1>4, <2>1 DEF IInv, SessionOK
    <3>2. QED
      BY <1>1, <1>2, <1>4, <3>1 DEF Answer
  <2>2. session.remote \in {"live", "deleted"}
    BY <1>1 DEF IInv, SessionOK, Typed
  <2>3. QED
    BY <1>1, <1>2, <1>4, <2>1, <2>2 DEF IInv, SessionOK
<1>8. QED
  BY <1>3, <1>4, <1>5, <1>6, <1>7 DEF IInv

(* The 'exit' event, between two calls.                                     *)
LEMMA WorkerGoneStep == ASSUME IInv, NEW errored \in BOOLEAN, WorkerGone(errored) PROVE IInv'
<1>1. /\ parent.pc = "idle" /\ worker.life = "gone" /\ worker' = [worker EXCEPT !.seen = TRUE]
      /\ UNCHANGED <<parent, toWorker, toParent, session, dispatched, report>>
      /\ client' = client \/ client' = [client EXCEPT !.failure = UncertainError]
      /\ signal' = [gen |-> signal.gen + 1, state |-> 2] /\ signal.gen \in Nat
  BY DEF WorkerGone, IInv, Typed
<1>2. /\ worker' \in Workers /\ worker'.life = "gone" /\ worker'.todo = worker.todo /\ worker'.run = worker.run
      /\ worker'.active = worker.active
  BY <1>1 DEF IInv, Typed, Workers
<1>3. /\ client' \in Clients /\ client'.closing = client.closing /\ client'.complete = client.complete
      /\ client'.closed = client.closed /\ client'.failure \in {client.failure, UncertainError}
  BY <1>1 DEF IInv, Typed, Clients
<1>4. Typed'
  BY <1>1, <1>2, <1>3 DEF IInv, Typed
<1>5. ParentOK'
  BY <1>1, <1>3 DEF IInv, ParentOK
<1>6. Doomed /\ Doomed' /\ Sent' = Sent
  BY <1>1, <1>2 DEF Doomed, Sent
<1>7. WorkerOK' /\ OneUnderWay' /\ WakeOK'
  BY <1>1, <1>2, <1>6 DEF IInv, WorkerOK, OneUnderWay, WakeOK
<1>8. CommandsOK' /\ RunOK' /\ IdsOK' /\ SessionOK' /\ ReportOK'
  BY <1>1, <1>2, <1>3, <1>6, Frame
<1>9. QED
  BY <1>4, <1>5, <1>7, <1>8 DEF IInv

(* The thread ends between any two accesses, with whatever it had to do.    *)
LEMMA WorkerEndsStep == IInv /\ WorkerEnds => IInv'
<1> SUFFICES ASSUME IInv, WorkerEnds PROVE IInv'
  OBVIOUS
<1>1. /\ worker' = [worker EXCEPT !.life = "gone", !.todo = <<>>, !.run = NoRun]
      /\ UNCHANGED <<parent, client, signal, toWorker, toParent, session, dispatched, report>>
  BY DEF WorkerEnds
<1>2. /\ worker' \in Workers /\ worker'.life = "gone" /\ worker'.todo = <<>> /\ worker'.run = NoRun
      /\ worker'.active = worker.active
  BY <1>1, NoTurn DEF IInv, Typed, Workers, Runs
<1>3. Typed' /\ ParentOK'
  BY <1>1, <1>2 DEF IInv, Typed, ParentOK
<1>4. Doomed' /\ Sent' \subseteq Sent
  BY <1>1, <1>2, NoTurn DEF Doomed, Sent
<1>5. WorkerOK' /\ OneUnderWay' /\ WakeOK'
  BY <1>1, <1>2, <1>4, NoTurn DEF IInv, WorkerOK, OneUnderWay, WakeOK
<1>6. CommandsOK' /\ RunOK' /\ IdsOK' /\ SessionOK' /\ ReportOK'
  BY <1>1, <1>2, <1>4, Frame
<1>7. QED
  BY <1>3, <1>5, <1>6 DEF IInv

(* AbortTimer and BatchTurn touch nothing the invariant is about.           *)
LEMMA SilentStep ==
  ASSUME IInv, UNCHANGED <<parent, client, signal, toWorker, toParent, session, dispatched, report>>,
         worker' = worker \/ worker' = [worker EXCEPT !.abort = TRUE]
  PROVE  IInv'
<1>1. /\ worker' \in Workers /\ worker'.life = worker.life /\ worker'.todo = worker.todo /\ worker'.run = worker.run
      /\ worker'.active = worker.active /\ worker'.stopped = worker.stopped /\ worker'.busy = worker.busy
  BY DEF IInv, Typed, Workers
<1>2. Typed' /\ ParentOK'
  BY <1>1 DEF IInv, Typed, ParentOK
<1>3. (Doomed' <=> Doomed) /\ Sent' = Sent /\ UnderWay' = UnderWay
  BY <1>1 DEF Doomed, Sent, UnderWay
<1>4. WorkerOK' /\ OneUnderWay' /\ WakeOK'
  BY <1>1, <1>3 DEF IInv, WorkerOK, OneUnderWay, WakeOK
<1>5. CommandsOK' /\ RunOK' /\ IdsOK' /\ SessionOK' /\ ReportOK'
  BY <1>1, <1>3, Frame
<1>6. QED
  BY <1>2, <1>4, <1>5 DEF IInv

(* A new turn of the worker: it answers the call that the worker last took, *)
(* at most once.                                                            *)
LEMMA NewTurn ==
  ASSUME IInv, worker.life # "gone", worker.todo = <<>>,
         NEW s \in Seq(Acts), Turn(s), NEW q, Posts(s) = {q},
         worker' \in Workers, worker'.todo = s, worker'.life = "up", worker'.active = worker.active,
         worker'.stopped = worker.stopped, worker'.busy = worker.busy,
         worker'.run \in {worker.run, NoRun},
         worker'.busy /\ ~worker'.stopped => worker'.run # NoRun \/ Does(s, "free") \/ Does(s, "stop"),
         q.id = worker.active, q.kind = "value" /\ q.id # 0 => q.id \in dispatched,
         Does(s, "stop") \/ worker.life = "boot" \/ (worker.run # NoRun /\ worker'.run = NoRun),
         UNCHANGED <<parent, client, signal, toWorker, toParent, dispatched, report>>,
         session' \in [handle : {"none", "open", "closing", "closed"}, remote : {"none", "live", "deleted"}],
         session'.handle = session.handle
  PROVE  /\ Typed' /\ ParentOK' /\ WorkerOK' /\ OneUnderWay' /\ CommandsOK' /\ RunOK' /\ IdsOK' /\ ReportOK' /\ WakeOK'
         /\ Sent' = Sent \cup {q}
         /\ Doomed => Doomed'
<1>1. Posts(worker.todo) = {} /\ \A a : ~Does(worker.todo, a)
  BY NoTurn
<1>2. Doomed => Doomed'
  BY <1>1 DEF Doomed
<1>3. Sent' = Sent \cup {q}
  BY <1>1 DEF Sent
<1>4. Typed' /\ ParentOK'
  BY DEF IInv, Typed, ParentOK
<1>5. WorkerOK'
  <2>1. worker'.active <= parent'.id
    BY DEF IInv, WorkerOK
  <2>2. Turn(worker'.todo) /\ worker'.life # "boot"
    OBVIOUS
  <2>3. worker'.busy /\ ~worker'.stopped
          => worker'.run # NoRun \/ Does(worker'.todo, "free") \/ Does(worker'.todo, "stop")
    OBVIOUS
  <2>4. QED
    BY ONLY <2>1, <2>2, <2>3 DEF WorkerOK
<1>6. OneUnderWay'
  <2>1. Len(toWorker) \in Nat /\ Len(toParent) \in Nat
    BY DEF IInv, Typed
  <2>2. ASSUME ~Doomed' PROVE UnderWay' <= UnderWay /\ UnderWay' \in Nat /\ UnderWay \in Nat
    <3>1. ~Does(s, "stop")
      BY <2>2 DEF Doomed
    <3>2. PICK d \in Nat : d = One(parent.pc = "decode")
      BY DEF One
    <3>3. PICK p \in Nat : p = One(Does(s, "post")) /\ p <= 1
      BY DEF One
    <3>4. PICK l \in Nat : l = One(worker.life = "boot")
      BY DEF One
    <3>5. PICK r \in Nat : r = One(worker.run # NoRun)
      BY DEF One
    <3>6. One(Does(worker.todo, "post")) = 0 /\ One(worker'.life = "boot") = 0
      BY <1>1 DEF One
    <3>7. UnderWay = Len(toWorker) + Len(toParent) + r + 0 + d + l
      BY <3>2, <3>4, <3>5, <3>6 DEF UnderWay
    <3>8. worker'.run = NoRun /\ r + l >= 1
      <4>1. CASE worker.life = "boot"
        <5>1. worker.run = NoRun
          BY <4>1 DEF IInv, WorkerOK
        <5>2. QED
          BY <3>4, <4>1, <5>1 DEF One
      <4>2. CASE worker.run # NoRun /\ worker'.run = NoRun
        BY <3>5, <4>2 DEF One
      <4>3. QED
        BY <3>1, <4>1, <4>2
    <3>9. One(worker'.run # NoRun) = 0
      BY <3>8 DEF One
    <3>10. UnderWay' = Len(toWorker) + Len(toParent) + 0 + p + d + 0
      BY <3>2, <3>3, <3>6, <3>9 DEF UnderWay
    <3>11. QED
      BY <2>1, <3>3, <3>7, <3>8, <3>10
  <2>3. ASSUME ~Doomed' PROVE UnderWay' <= One(parent'.pc # "idle" \/ client'.closed)
    <3>1. One(parent'.pc # "idle" \/ client'.closed) = One(parent.pc # "idle" \/ client.closed)
      OBVIOUS
    <3>2. PICK n \in Nat : n = One(parent.pc # "idle" \/ client.closed)
      BY DEF One
    <3>3. UnderWay <= n
      BY <1>2, <2>3, <3>2 DEF IInv, OneUnderWay
    <3>4. UnderWay' <= n
      BY <2>2, <2>3, <3>3
    <3>5. QED
      BY <3>1, <3>2, <3>4
  <2>4. QED
    BY <2>3 DEF OneUnderWay
<1>7. CommandsOK' /\ RunOK'
  BY <1>2 DEF IInv, CommandsOK, RunOK, Prepared
<1>8. IdsOK'
  BY <1>3 DEF IInv, IdsOK, WorkerOK
<1>9. ReportOK'
  BY <1>2 DEF IInv, ReportOK
<1>10. WakeOK'
  BY <1>1 DEF IInv, WakeOK
<1>11. QED
  BY <1>2, <1>3, <1>4, <1>5, <1>6, <1>7, <1>8, <1>9, <1>10

(* The module body: the first turn answers the constructor.                 *)
LEMMA BootStep == ASSUME IInv, NEW ok \in BOOLEAN, Boot(ok) PROVE IInv'
<1>1. PICK s : s = IF ok THEN <<Act("ready")>> \o Reply(0, "value") ELSE Reply(0, "error") \o Stop
  OBVIOUS
<1>2. PICK q : q = [id |-> 0, kind |-> IF ok THEN "value" ELSE "error"]
  OBVIOUS
<1>3. /\ worker.life = "boot" /\ worker' = [worker EXCEPT !.life = "up", !.todo = s]
      /\ UNCHANGED <<parent, client, signal, toWorker, toParent, session, dispatched, report>>
  BY <1>1 DEF Boot
<1>4. s \in Seq(Acts) /\ Turn(s) /\ Posts(s) = {q}
  <2>1. CASE ok
    BY <1>1, <1>2, <2>1, BootTurn
  <2>2. CASE ~ok
    <3>1. s = Reply(0, "error") \o Stop /\ q = [id |-> 0, kind |-> "error"]
      BY <1>1, <1>2, <2>2
    <3>2. QED
      BY <3>1, FatalTurn
  <2>3. QED
    BY <2>1, <2>2
<1>5. q.id = 0
  BY <1>2
<1>6. worker.todo = <<>> /\ worker.active = 0 /\ worker.run = NoRun
  BY <1>3 DEF IInv, WorkerOK
<1>7. /\ worker' \in Workers /\ worker'.todo = s /\ worker'.life = "up" /\ worker'.active = worker.active
      /\ worker'.stopped = worker.stopped /\ worker'.busy = worker.busy /\ worker'.run = worker.run
  BY <1>3, <1>4 DEF IInv, Typed, Workers
<1>8. ~worker.busy
  BY <1>3 DEF IInv, WorkerOK
<1>9. /\ Typed' /\ ParentOK' /\ WorkerOK' /\ OneUnderWay' /\ CommandsOK' /\ RunOK' /\ IdsOK' /\ ReportOK' /\ WakeOK'
      /\ Sent' = Sent \cup {q}
      /\ Doomed => Doomed'
  BY <1>3, <1>4, <1>5, <1>6, <1>7, <1>8, NewTurn DEF IInv, Typed
<1>10. SessionOK'
  <2>1. ASSUME NEW p \in Sent', p.id = parent'.id, p.id # 0, p.kind \in {"value", "sessionError"} PROVE Answer(p)'
    <3>1. Answer(p)
      BY <1>3, <1>5, <1>9, <2>1 DEF IInv, SessionOK
    <3>2. QED
      BY <1>3, <1>7, <1>9, <3>1 DEF Answer
  <2>2. QED
    BY <1>3, <1>7, <1>9, <2>1 DEF IInv, SessionOK
<1>11. QED
  BY <1>9, <1>10 DEF IInv

(* fatal(), from an uncaught error: the worker is doomed.                   *)
LEMMA UncaughtStep == IInv /\ Uncaught => IInv'
<1> SUFFICES ASSUME IInv, Uncaught PROVE IInv'
  OBVIOUS
<1>1. PICK s : s = Reply(worker.active, "fatal") \o Stop
  OBVIOUS
<1>2. PICK q : q = [id |-> worker.active, kind |-> "fatal"]
  OBVIOUS
<1>3. /\ worker.life = "up" /\ worker.todo = <<>> /\ worker' = [worker EXCEPT !.todo = s]
      /\ UNCHANGED <<parent, client, signal, toWorker, toParent, session, dispatched, report>>
  BY <1>1 DEF Uncaught, WorkerIdle, Fatal
<1>4. s \in Seq(Acts) /\ Turn(s) /\ Posts(s) = {q} /\ Does(s, "stop")
  <2>1. worker.active \in Nat
    BY DEF IInv, Typed, Workers
  <2>2. QED
    BY <1>1, <1>2, <2>1, FatalTurn
<1>5. q.id = worker.active /\ q.kind = "fatal"
  BY <1>2
<1>6. /\ worker' \in Workers /\ worker'.todo = s /\ worker'.life = "up" /\ worker'.active = worker.active
      /\ worker'.stopped = worker.stopped /\ worker'.busy = worker.busy /\ worker'.run = worker.run
  BY <1>3, <1>4 DEF IInv, Typed, Workers
<1>7. /\ Typed' /\ ParentOK' /\ WorkerOK' /\ OneUnderWay' /\ CommandsOK' /\ RunOK' /\ IdsOK' /\ ReportOK' /\ WakeOK'
      /\ Sent' = Sent \cup {q}
      /\ Doomed => Doomed'
  BY <1>3, <1>4, <1>5, <1>6, NewTurn DEF IInv, Typed
<1>8. SessionOK'
  <2>1. ASSUME NEW p \in Sent', p.id = parent'.id, p.id # 0, p.kind \in {"value", "sessionError"} PROVE Answer(p)'
    <3>1. Answer(p)
      BY <1>3, <1>5, <1>7, <2>1 DEF IInv, SessionOK
    <3>2. QED
      BY <1>3, <1>6, <1>7, <3>1 DEF Answer
  <2>2. QED
    BY <1>3, <1>6, <1>7, <2>1 DEF IInv, SessionOK
<1>9. QED
  BY <1>7, <1>8 DEF IInv

(* dispatch() settles: the reply tells what became of the context.          *)
LEMMA FinishStep == IInv /\ Finish => IInv'
<1> SUFFICES ASSUME IInv, Finish PROVE IInv'
  OBVIOUS
<1>1. PICK run : run = worker.run
  OBVIOUS
<1>2. PICK kind \in Outcomes(run.op) :
        /\ worker' = [worker EXCEPT !.run = NoRun, !.todo = Settlement(worker.run, kind)]
        /\ session' = IF kind # "value" THEN session
                      ELSE [session EXCEPT !.remote =
                              CASE run.op = "createSession" -> "live"
                                [] run.op \in {"sessionClose", "close"} /\ @ = "live" -> "deleted"
                                [] OTHER -> @]
  BY <1>1 DEF Finish
<1>3. /\ worker.life = "up" /\ worker.todo = <<>> /\ worker.run # NoRun
      /\ UNCHANGED <<parent, client, signal, toWorker, toParent, dispatched, report>>
  BY DEF Finish, WorkerIdle
<1>4. run \in Messages /\ run # NoRun
  BY <1>1, <1>3 DEF IInv, Typed, Workers, Runs
<1>5. /\ kind \in {"value", "error", "sessionError"}
      /\ run.op \in {"createSession", "close"} => kind # "sessionError"
  BY <1>2 DEF Outcomes
<1>6. PICK s : s = Settlement(run, kind)
  OBVIOUS
<1>7. PICK q : q = [id |-> run.id, kind |-> kind]
  OBVIOUS
<1>8. /\ s \in Seq(Acts) /\ Turn(s) /\ Posts(s) = {q} /\ Does(s, "free")
      /\ run.op = "close" /\ kind = "value" /\ ~worker.stopped => Does(s, "stop")
  BY <1>4, <1>5, <1>6, <1>7, SettlementTurn
<1>9. q.id = run.id /\ q.kind = kind
  BY <1>7
<1>10. run.id = worker.active /\ run.id \in dispatched /\ (run.id = parent.id => run.op = parent.op) /\ Prepared(run)
  BY <1>1, <1>3 DEF IInv, RunOK
<1>11. /\ worker' \in Workers /\ worker'.todo = s /\ worker'.life = "up" /\ worker'.active = worker.active
       /\ worker'.stopped = worker.stopped /\ worker'.busy = worker.busy /\ worker'.run = NoRun
  BY <1>1, <1>2, <1>3, <1>6, <1>8 DEF IInv, Typed, Workers, Runs
<1>12. /\ session' \in [handle : {"none", "open", "closing", "closed"}, remote : {"none", "live", "deleted"}]
       /\ session'.handle = session.handle
       /\ session'.remote = IF kind # "value" THEN session.remote
                            ELSE IF run.op = "createSession" THEN "live"
                            ELSE IF run.op \in {"sessionClose", "close"} /\ session.remote = "live" THEN "deleted"
                            ELSE session.remote
  <2>1. session \in [handle : {"none", "open", "closing", "closed"}, remote : {"none", "live", "deleted"}]
    BY DEF IInv, Typed
  <2>2. CASE kind # "value"
    BY <1>2, <2>1, <2>2
  <2>3. CASE kind = "value"
    BY <1>2, <2>1, <2>3
  <2>4. QED
    BY <2>2, <2>3
<1>13. /\ Typed' /\ ParentOK' /\ WorkerOK' /\ OneUnderWay' /\ CommandsOK' /\ RunOK' /\ IdsOK' /\ ReportOK' /\ WakeOK'
       /\ Sent' = Sent \cup {q}
       /\ Doomed => Doomed'
  BY <1>3, <1>8, <1>9, <1>10, <1>11, <1>12, NewTurn
<1>14. SessionOK'
  <2>1. ASSUME NEW p \in Sent', p.id = parent'.id, p.id # 0, p.kind \in {"value", "sessionError"} PROVE Answer(p)'
    <3>1. p = q
      BY <1>3, <1>13, <2>1 DEF IInv, SessionOK, Answer
    <3>2. parent.op = run.op
      BY <1>3, <1>9, <1>10, <2>1, <3>1
    <3>3. run.op = "sessionClose" => session.remote \in {"live", "deleted"}
      BY <1>10 DEF IInv, SessionOK, Prepared, Typed
    <3>4. run.op = "createSession" => kind = "value" /\ session'.remote = "live"
      BY <1>5, <1>9, <1>12, <2>1, <3>1
    <3>5. run.op = "sessionClose" /\ kind = "value" => session'.remote = "deleted"
      BY <1>12, <3>3
    <3>6. run.op = "close" => Doomed' /\ session'.remote # "live"
      BY <1>5, <1>8, <1>9, <1>11, <1>12, <2>1, <3>1 DEF Doomed
    <3>7. QED
      BY <1>3, <1>9, <1>11, <3>1, <3>2, <3>4, <3>5, <3>6 DEF Answer
  <2>2. session'.handle # "none" => session'.remote # "none"
    BY <1>12 DEF IInv, SessionOK
  <2>3. client'.complete => Doomed' /\ worker'.run = NoRun /\ session'.remote # "live"
    BY <1>3 DEF IInv, SessionOK
  <2>4. session'.handle = "closed" => session'.remote = "deleted"
    BY <1>10, <1>12 DEF IInv, SessionOK, Prepared
  <2>5. session'.handle = "open" /\ ~client'.closed /\ ~client'.closing => session'.remote = "live"
    BY <1>3, <1>10, <1>12 DEF IInv, SessionOK, Prepared
  <2>6. QED
    BY <2>1, <2>2, <2>3, <2>4, <2>5 DEF SessionOK
<1>15. QED
  BY <1>13, <1>14 DEF IInv

(* A command never meets a busy worker: what occupies the worker would be   *)
(* a second thing under way.                                                *)
LEMMA NoOverlap ==
  ASSUME IInv
  PROVE  WorkerIdle /\ ~worker.stopped /\ toWorker # <<>> => ~worker.busy
<1> SUFFICES ASSUME WorkerIdle, ~worker.stopped, toWorker # <<>>, worker.busy PROVE FALSE
  OBVIOUS
<1>1. worker.life = "up" /\ \A a : ~Does(worker.todo, a)
  BY NoTurn DEF WorkerIdle
<1>2. worker.run # NoRun /\ ~Doomed
  BY <1>1 DEF IInv, WorkerOK, Doomed
<1>3. Len(toWorker) \in Nat /\ Len(toWorker) >= 1 /\ Len(toParent) \in Nat
  BY DEF IInv, Typed
<1>4. UnderWay <= One(parent.pc # "idle" \/ client.closed)
  BY <1>2 DEF IInv, OneUnderWay
<1>5. QED
  BY <1>2, <1>3, <1>4 DEF UnderWay, One

(* port.on('message'): a healthy worker takes the only thing under way.     *)
LEMMA ReceiveStep == IInv /\ Receive => IInv'
<1> SUFFICES ASSUME IInv, Receive PROVE IInv'
  OBVIOUS
<1>1. PICK c : c = Head(toWorker)
  OBVIOUS
<1>2. /\ worker.life = "up" /\ worker.todo = <<>> /\ toWorker # <<>> /\ toWorker' = Tail(toWorker)
      /\ UNCHANGED <<parent, client, signal, toParent, session, report>>
      /\ toWorker \in Seq(Messages)
  BY DEF Receive, WorkerIdle, IInv, Typed
<1>3. /\ toWorker' \in Seq(Messages) /\ Len(toWorker) \in Nat /\ Len(toWorker') = Len(toWorker) - 1
      /\ c \in Messages /\ c \in Elems(toWorker) /\ Elems(toWorker') \subseteq Elems(toWorker)
  BY <1>1, <1>2, ChannelTail
<1>4. \A a : ~Does(worker.todo, a)
  BY <1>2, NoTurn
<1>5. CASE worker.stopped
  <2>1. UNCHANGED <<worker, dispatched>>
    BY <1>5 DEF Receive
  <2>2. Doomed /\ Doomed' /\ Sent' = Sent
    BY <1>2, <1>5, <2>1 DEF Doomed, Sent
  <2>3. Typed' /\ ParentOK'
    BY <1>2, <1>3, <2>1 DEF IInv, Typed, ParentOK
  <2>4. WorkerOK' /\ OneUnderWay' /\ WakeOK'
    BY <1>2, <2>1, <2>2 DEF IInv, WorkerOK, OneUnderWay, WakeOK
  <2>5. CommandsOK' /\ RunOK' /\ IdsOK' /\ SessionOK' /\ ReportOK'
    BY <1>2, <1>3, <2>1, <2>2, Frame
  <2>6. QED
    BY <2>3, <2>4, <2>5 DEF IInv
<1>6. CASE ~worker.stopped
  <2>1. ~worker.busy
    BY <1>2, <1>6, NoOverlap DEF WorkerIdle
  <2>2. /\ worker' = [worker EXCEPT !.busy = TRUE, !.active = c.id, !.run = c]
        /\ dispatched' = dispatched \cup {c.id}
    BY <1>1, <1>6, <2>1 DEF Receive
  <2>3. ~Doomed
    BY <1>2, <1>4, <1>6 DEF Doomed
  <2>4. c.id = parent.id /\ c.op = parent.op /\ Prepared(c) /\ c.id \in 1..parent.id
    BY <1>3, <2>3 DEF IInv, CommandsOK, IdsOK
  <2>5. c.id \in Nat /\ c \in Runs /\ c # NoRun /\ c.id # 0
    BY <1>3, <2>4 DEF Messages, Runs, NoRun
  <2>6. /\ worker' \in Workers /\ worker'.life = "up" /\ worker'.todo = <<>> /\ worker'.stopped = worker.stopped
        /\ worker'.busy /\ worker'.active = c.id /\ worker'.run = c
    BY <1>2, <2>2, <2>5 DEF IInv, Typed, Workers
  <2>7. parent.id \in Nat /\ parent.id \in 0..MaxCalls /\ parent.id \in Ids
    BY <2>4, BridgeAssumption DEF IInv, Typed, Parents, Ids
  <2>8. Len(toWorker) = 1 /\ Len(toParent) = 0 /\ worker.run = NoRun /\ parent.pc # "decode" /\ UnderWay = 1
        /\ (parent.pc # "idle" \/ client.closed)
    <3>1. Len(toWorker) >= 1 /\ Len(toParent) \in Nat
      BY <1>2 DEF IInv, Typed
    <3>2. UnderWay <= One(parent.pc # "idle" \/ client.closed)
      BY <2>3 DEF IInv, OneUnderWay
    <3>3. QED
      BY <1>3, <3>1, <3>2 DEF UnderWay, One
  <2>9. toParent = <<>> /\ Elems(toParent) = {} /\ toWorker' = <<>> /\ Elems(toWorker') = {}
    <3>1. toParent \in Seq(Packets) /\ Len(toWorker') = 0
      BY <1>3, <2>8 DEF IInv, Typed
    <3>2. toParent = <<>> /\ toWorker' = <<>>
      BY <1>3, <2>8, <3>1
    <3>3. QED
      BY <3>2 DEF Elems
  <2>10. Sent' = {}
    BY <1>2, <2>6, <2>8, <2>9, NoTurn DEF Sent
  <2>11. Typed'
    BY <1>2, <1>3, <2>2, <2>4, <2>6, <2>7 DEF IInv, Typed
  <2>12. ParentOK'
    BY <1>2 DEF IInv, ParentOK
  <2>13. WorkerOK'
    BY <1>2, <2>4, <2>5, <2>6, <2>7, NoTurn DEF WorkerOK
  <2>14. OneUnderWay'
    <3>1. UnderWay' = 1
      <4>1. Len(toWorker') = 0 /\ Len(toParent') = 0
        BY <1>2, <1>3, <2>8
      <4>2. ~Does(worker'.todo, "post")
        BY <2>6, NoTurn
      <4>3. One(worker'.run # NoRun) = 1 /\ One(Does(worker'.todo, "post")) = 0
        BY <2>5, <2>6, <4>2 DEF One
      <4>4. One(parent'.pc = "decode") = 0 /\ One(worker'.life = "boot") = 0
        BY <1>2, <2>6, <2>8 DEF One
      <4>5. QED
        BY ONLY <4>1, <4>3, <4>4 DEF UnderWay
    <3>2. QED
      BY <1>2, <2>8, <3>1 DEF OneUnderWay, One
  <2>15. CommandsOK'
    BY <2>9 DEF CommandsOK
  <2>16. RunOK'
    BY <1>2, <2>2, <2>4, <2>6 DEF RunOK, Prepared
  <2>17. IdsOK'
    BY <1>2, <2>2, <2>4, <2>6, <2>9, <2>10 DEF IInv, IdsOK
  <2>18. ReportOK'
    <3>1. \A i \in Ids : report[i] = LocalError => i # c.id
      BY <1>3, <2>3 DEF IInv, ReportOK
    <3>2. QED
      BY <1>2, <2>2, <2>9, <3>1 DEF IInv, ReportOK
  <2>19. SessionOK'
    BY <1>2, <2>3, <2>10 DEF IInv, SessionOK
  <2>20. WakeOK'
    BY <1>2, <1>4, <2>6 DEF IInv, WakeOK
  <2>21. QED
    BY <2>11, <2>12, <2>13, <2>14, <2>15, <2>16, <2>17, <2>18, <2>19, <2>20 DEF IInv
<1>7. QED
  BY <1>5, <1>6

(* One access of a turn.                                                    *)
LEMMA StepStep == IInv /\ Step => IInv'
<1> SUFFICES ASSUME IInv, Step PROVE IInv'
  OBVIOUS
<1>1. PICK a : a = Head(worker.todo)
  OBVIOUS
<1>2. PICK t : t = Tail(worker.todo)
  OBVIOUS
<1>3. /\ worker.todo # <<>> /\ worker.todo \in Seq(Acts) /\ Turn(worker.todo) /\ worker \in Workers
      /\ UNCHANGED <<client, toWorker, session, dispatched, report>>
  BY DEF Step, IInv, Typed, Workers, WorkerOK
<1>4. /\ a \in Acts /\ t \in Seq(Acts) /\ Turn(t) /\ Posts(t) \subseteq Posts(worker.todo)
      /\ \A b : Does(worker.todo, b) <=> a.do = b \/ Does(t, b)
      /\ a.do = "post" => /\ a.packet # <<>> /\ a.packet[1] \in Posts(worker.todo)
                          /\ ~Does(t, "post") /\ Does(t, "add")
      /\ a.do = "stop" => Does(t, "add")
      /\ a.do = "add" => Does(t, "notify")
  BY <1>1, <1>2, <1>3, TurnTail
<1>5. /\ worker' \in Workers /\ worker'.todo = t /\ worker'.life = worker.life /\ worker'.run = worker.run
      /\ worker'.active = worker.active
      /\ worker'.stopped = (IF a.do = "stop" THEN TRUE ELSE worker.stopped)
      /\ worker'.busy = (IF a.do = "free" THEN FALSE ELSE worker.busy)
  <2>1. PICK w : w = [worker EXCEPT !.todo = Tail(@)]
    OBVIOUS
  <2>2. /\ w \in Workers /\ w.todo = t /\ w.life = worker.life /\ w.run = worker.run
        /\ w.active = worker.active /\ w.stopped = worker.stopped /\ w.busy = worker.busy
    BY <1>2, <1>3, <1>4, <2>1 DEF Workers
  <2>3. worker' = CASE a.do = "stop" -> [w EXCEPT !.stopped = TRUE]
                    [] a.do = "close" -> [w EXCEPT !.port = FALSE]
                    [] a.do = "free" -> [w EXCEPT !.busy = FALSE, !.abort = FALSE]
                    [] OTHER -> w
    BY <1>1, <2>1 DEF Step
  <2>4. CASE a.do = "stop"
    BY <2>2, <2>3, <2>4 DEF Workers
  <2>5. CASE a.do = "close"
    BY <2>2, <2>3, <2>5 DEF Workers
  <2>6. CASE a.do = "free"
    BY <2>2, <2>3, <2>6 DEF Workers
  <2>7. CASE a.do \notin {"stop", "close", "free"}
    BY <2>2, <2>3, <2>7
  <2>8. QED
    BY <2>4, <2>5, <2>6, <2>7
<1>6. /\ signal' \in [gen : Nat, state : 0..2]
      /\ signal.gen \in Nat /\ signal'.gen = IF a.do = "add" THEN signal.gen + 1 ELSE signal.gen
      /\ signal'.state = IF a.do = "ready" THEN 1 ELSE IF a.do = "stop" THEN 2 ELSE signal.state
  <2>1. signal \in [gen : Nat, state : 0..2]
    BY DEF IInv, Typed
  <2>2. signal' = CASE a.do = "ready" -> [signal EXCEPT !.state = 1]
                    [] a.do = "stop" -> [signal EXCEPT !.state = 2]
                    [] a.do = "add" -> [signal EXCEPT !.gen = @ + 1]
                    [] OTHER -> signal
    BY <1>1 DEF Step
  <2>3. CASE a.do = "ready"
    BY <2>1, <2>2, <2>3
  <2>4. CASE a.do = "stop"
    BY <2>1, <2>2, <2>4
  <2>5. CASE a.do = "add"
    BY <2>1, <2>2, <2>5
  <2>6. CASE a.do \notin {"ready", "stop", "add"}
    BY <2>1, <2>2, <2>6
  <2>7. QED
    BY <2>3, <2>4, <2>5, <2>6
<1>7. /\ parent' \in Parents /\ parent'.id = parent.id /\ parent'.op = parent.op /\ parent'.packet = parent.packet
      /\ parent'.gen = parent.gen /\ parent.gen \in Nat
      /\ parent'.pc = IF a.do = "notify" /\ parent.pc = "asleep" THEN "load" ELSE parent.pc
  BY <1>1 DEF Step, IInv, Typed, Parents
<1>8. /\ toParent' \in Seq(Packets) /\ Len(toParent) \in Nat /\ Len(toParent') \in Nat
      /\ a.do # "post" => toParent' = toParent
      /\ Len(toParent') <= Len(toParent) + (IF a.do = "post" THEN 1 ELSE 0)
      /\ Elems(toParent') \subseteq Elems(toParent) \cup Posts(worker.todo)
  <2>1. toParent \in Seq(Packets)
    BY DEF IInv, Typed
  <2>2. CASE toParent' = toParent
    BY <2>1, <2>2
  <2>3. CASE a.do = "post" /\ toParent' = Append(toParent, a.packet[1])
    <3>1. a.packet[1] \in Packets
      BY <1>4, <2>3 DEF Acts
    <3>2. QED
      BY <1>4, <2>1, <2>3, <3>1, AppendLemma
  <2>4. toParent' = toParent \/ (a.do = "post" /\ toParent' = Append(toParent, a.packet[1]))
    BY <1>1 DEF Step
  <2>5. QED
    BY <2>2, <2>3, <2>4
<1>9. Sent' \subseteq Sent
  BY <1>4, <1>5, <1>7, <1>8 DEF Sent
<1>10. Doomed' <=> Doomed
  BY <1>4, <1>5 DEF Doomed
<1>11. Typed'
  BY <1>3, <1>5, <1>6, <1>7, <1>8 DEF IInv, Typed
<1>12. ParentOK'
  BY <1>3, <1>7 DEF IInv, ParentOK
<1>13. WorkerOK'
  BY <1>3, <1>4, <1>5, <1>7 DEF IInv, WorkerOK
<1>14. OneUnderWay'
  <2>1. Len(toWorker) \in Nat
    BY DEF IInv, Typed
  <2>2. UnderWay' \in Nat /\ UnderWay \in Nat /\ UnderWay' <= UnderWay
    <3>1. /\ Len(toWorker') = Len(toWorker)
          /\ One(worker'.run # NoRun) = One(worker.run # NoRun)
          /\ One(worker'.life = "boot") = One(worker.life = "boot")
      BY <1>3, <1>5
    <3>2. One(parent'.pc = "decode") = One(parent.pc = "decode")
      BY <1>7 DEF One
    <3>3. /\ Len(toParent') + One(Does(t, "post")) <= Len(toParent) + One(Does(worker.todo, "post"))
          /\ One(Does(t, "post")) \in Nat /\ One(Does(worker.todo, "post")) \in Nat
      <4>1. CASE a.do = "post"
        <5>1. ~Does(t, "post") /\ Does(worker.todo, "post")
          BY <1>4, <4>1
        <5>2. One(Does(t, "post")) = 0 /\ One(Does(worker.todo, "post")) = 1
          BY <5>1 DEF One
        <5>3. QED
          BY <1>8, <4>1, <5>2
      <4>2. CASE a.do # "post"
        <5>1. Does(t, "post") <=> Does(worker.todo, "post")
          BY <1>4, <4>2
        <5>2. /\ One(Does(t, "post")) \in Nat /\ One(Does(worker.todo, "post")) \in Nat
              /\ One(Does(t, "post")) = One(Does(worker.todo, "post"))
          BY <5>1 DEF One
        <5>3. Len(toParent') = Len(toParent)
          BY <1>8, <4>2
        <5>4. QED
          BY <1>8, <5>2, <5>3
      <4>3. QED
        BY <4>1, <4>2
    <3>4. /\ One(worker.run # NoRun) \in Nat /\ One(worker.life = "boot") \in Nat
          /\ One(parent.pc = "decode") \in Nat
      BY DEF One
    <3>5. QED
      <4>1. PICK r \in Nat : r = One(worker.run # NoRun)
        BY <3>4
      <4>2. PICK l \in Nat : l = One(worker.life = "boot")
        BY <3>4
      <4>3. PICK d \in Nat : d = One(parent.pc = "decode")
        BY <3>4
      <4>4. PICK p \in Nat : p = One(Does(worker.todo, "post"))
        BY <3>3
      <4>5. PICK q \in Nat : q = One(Does(t, "post"))
        BY <3>3
      <4>6. UnderWay = Len(toWorker) + Len(toParent) + r + p + d + l
        BY <4>1, <4>2, <4>3, <4>4 DEF UnderWay
      <4>7. UnderWay' = Len(toWorker) + Len(toParent') + r + q + d + l
        BY <1>5, <3>1, <3>2, <4>1, <4>2, <4>3, <4>5 DEF UnderWay
      <4>8. Len(toParent') + q <= Len(toParent) + p
        BY <3>3, <4>4, <4>5
      <4>9. QED
        BY <1>8, <2>1, <4>6, <4>7, <4>8
  <2>3. One(parent'.pc # "idle" \/ client'.closed) = One(parent.pc # "idle" \/ client.closed)
    BY <1>3, <1>7 DEF One
  <2>4. One(parent.pc # "idle" \/ client.closed) \in Nat
    BY DEF One
  <2>5. QED
    BY <1>10, <2>2, <2>3, <2>4 DEF IInv, OneUnderWay
<1>15. CommandsOK' /\ RunOK' /\ IdsOK' /\ SessionOK' /\ ReportOK'
  BY <1>3, <1>5, <1>7, <1>9, <1>10, Frame
<1>16. WakeOK'
  <2>1. parent'.pc \in {"poll", "check", "wait", "asleep"} => parent'.gen <= signal'.gen
    BY <1>6, <1>7 DEF IInv, WakeOK
  <2>2. ASSUME worker'.life # "gone", parent'.gen = signal'.gen, parent'.pc \in {"check", "wait", "asleep"},
               toParent' # <<>> \/ (signal'.state = 2 /\ parent'.pc \in {"wait", "asleep"})
        PROVE  Does(t, "add")
    <3>1. a.do # "add" /\ parent.gen = signal.gen /\ parent'.pc = parent.pc
      <4>1. parent.pc \in {"check", "wait", "asleep"} /\ parent'.pc = parent.pc
        BY <1>7, <2>2
      <4>2. parent.gen <= signal.gen
        BY <4>1 DEF IInv, WakeOK
      <4>3. a.do # "add"
        BY <1>6, <1>7, <2>2, <4>2
      <4>4. QED
        BY <1>6, <1>7, <2>2, <4>1, <4>3
    <3>2. CASE a.do \in {"post", "stop"}
      BY <1>4, <3>2
    <3>3. CASE a.do \notin {"post", "stop"}
      <4>1. toParent' = toParent /\ (signal'.state = 2 => signal.state = 2)
        BY <1>6, <1>8, <3>3
      <4>2. Does(worker.todo, "add")
        BY <1>5, <2>2, <3>1, <4>1 DEF IInv, WakeOK
      <4>3. QED
        BY <1>4, <3>1, <4>2
    <3>4. QED
      BY <3>2, <3>3
  <2>3. ASSUME worker'.life # "gone", parent'.gen # signal'.gen, parent'.pc = "asleep" PROVE Does(t, "notify")
    <3>1. a.do # "notify" /\ parent.pc = "asleep"
      BY <1>7, <2>3
    <3>2. CASE a.do = "add"
      BY <1>4, <3>2
    <3>3. CASE a.do # "add"
      BY <1>4, <1>5, <1>6, <1>7, <2>3, <3>1, <3>3 DEF IInv, WakeOK
    <3>4. QED
      BY <3>2, <3>3
  <2>4. QED
    BY <1>5, <2>1, <2>2, <2>3 DEF WakeOK
<1>17. QED
  BY <1>11, <1>12, <1>13, <1>14, <1>15, <1>16 DEF IInv

(***************************************************************************)
(* Theorems.                                                               *)
(***************************************************************************)

(* The bridge starts with one thing under way: the boot of the worker.      *)
LEMMA Initially == Init => IInv
<1> SUFFICES ASSUME Init PROVE IInv
  OBVIOUS
<1>1. /\ parent \in Parents /\ parent.pc = "load" /\ parent.id = 0 /\ parent.op = "start"
  <2>1. <<>> \in Seq(Packets)
    OBVIOUS
  <2>2. QED
    BY <2>1 DEF Init, Parents
<1>2. /\ client \in Clients /\ ~client.closed /\ ~client.complete /\ client.failure = "none"
  BY DEF Init, Clients
<1>3. /\ worker \in Workers /\ worker.life = "boot" /\ worker.todo = <<>> /\ ~worker.stopped /\ ~worker.busy
      /\ worker.active = 0 /\ worker.run = NoRun
  BY NoTurn DEF Init, Workers, Runs
<1>4. /\ session \in [handle : {"none", "open", "closing", "closed"}, remote : {"none", "live", "deleted"}]
      /\ session.handle = "none"
  BY DEF Init
<1>5. /\ signal \in [gen : Nat, state : 0..2] /\ toWorker = <<>> /\ toParent = <<>> /\ dispatched = {}
      /\ toWorker \in Seq(Messages) /\ toParent \in Seq(Packets)
      /\ report \in [Ids -> {"pending"}]
  <2>1. signal = [gen |-> 0, state |-> 0]
    BY DEF Init
  <2>2. toWorker = <<>> /\ toParent = <<>> /\ dispatched = {}
    BY DEF Init
  <2>3. toWorker \in Seq(Messages) /\ toParent \in Seq(Packets)
    BY <2>2
  <2>4. report \in [Ids -> {"pending"}]
    BY DEF Init
  <2>5. QED
    BY <2>1, <2>2, <2>3, <2>4
<1>6. Typed
  BY <1>1, <1>2, <1>3, <1>4, <1>5, BridgeAssumption DEF Typed
<1>7. ParentOK
  BY <1>1, <1>2, <1>5 DEF ParentOK
<1>8. WorkerOK
  <2>1. Turn(worker.todo)
    BY <1>3, NoTurn
  <2>2. worker.active <= parent.id
    BY <1>1, <1>3
  <2>3. QED
    BY ONLY <1>3, <1>5, <2>1, <2>2 DEF WorkerOK
<1>9. Elems(toWorker) = {} /\ Elems(toParent) = {} /\ Len(toWorker) = 0 /\ Len(toParent) = 0
  BY <1>5 DEF Elems
<1>10. Sent = {}
  BY <1>1, <1>3, <1>9, NoTurn DEF Sent
<1>11. OneUnderWay
  <2>1. ~Does(worker.todo, "post")
    BY <1>3, NoTurn
  <2>2. QED
    BY <1>1, <1>3, <1>9, <2>1 DEF OneUnderWay, UnderWay, One
<1>12. CommandsOK /\ RunOK /\ IdsOK
  BY <1>1, <1>3, <1>5, <1>9, <1>10 DEF CommandsOK, RunOK, IdsOK
<1>13. ReportOK
  BY <1>5 DEF ReportOK, LocalError
<1>14. SessionOK
  BY <1>2, <1>4, <1>10 DEF SessionOK
<1>15. WakeOK
  BY <1>1 DEF WakeOK
<1>16. QED
  BY <1>6, <1>7, <1>8, <1>11, <1>12, <1>13, <1>14, <1>15 DEF IInv

(* Every step of the parent and of the worker keeps the invariant.          *)
LEMMA Preserved == IInv /\ [Next]_vars => IInv'
<1> SUFFICES ASSUME IInv, [Next]_vars PROVE IInv'
  OBVIOUS
<1>1. ASSUME NEW op \in Operations, Call(op) \/ CallNotCloned(op) PROVE IInv'
  BY <1>1, CallStep, CallNotClonedStep
<1>2. CASE CloseSessionLocally
  BY <1>2, CloseSessionLocallyStep
<1>3. CASE Receiving
  BY <1>3, LoadGenerationStep, PollStep, DecodeForeignStep, DecodeValueStep, DecodeErrorStep,
     CheckFailedStep, CheckDeadlineStep, CheckWaitsStep, WaitStep DEF Receiving
<1>4. CASE Expire
  BY <1>4, ExpireStep
<1>5. ASSUME NEW errored \in BOOLEAN, WorkerGone(errored) PROVE IInv'
  BY <1>5, WorkerGoneStep
<1>6. CASE Step
  BY <1>6, StepStep
<1>7. ASSUME NEW ok \in BOOLEAN, Boot(ok) PROVE IInv'
  BY <1>7, BootStep
<1>8. CASE Receive
  BY <1>8, ReceiveStep
<1>9. CASE AbortTimer
  BY <1>9, SilentStep DEF AbortTimer
<1>10. CASE BatchTurn
  BY <1>10, SilentStep DEF BatchTurn
<1>11. CASE Finish
  BY <1>11, FinishStep
<1>12. CASE Uncaught
  BY <1>12, UncaughtStep
<1>13. CASE WorkerEnds
  BY <1>13, WorkerEndsStep
<1>14. CASE UNCHANGED vars
  BY <1>14, SilentStep DEF vars
<1>15. QED
  BY <1>1, <1>2, <1>3, <1>4, <1>5, <1>6, <1>7, <1>8, <1>9, <1>10, <1>11, <1>12, <1>13, <1>14 DEF Next

(* The invariant holds of the bridge, whatever the worker does and however  *)
(* many calls are made (#call and #receive, sync/index.ts; port.on,         *)
(* sync/worker.ts).                                                         *)
THEOREM Invariance == Spec => []IInv
<1>1. Init => IInv
  BY Initially
<1>2. IInv /\ [Next]_vars => IInv'
  BY Preserved
<1>3. QED
  BY <1>1, <1>2, PTL DEF Spec

(* not_started is reported only of a call that the core never saw and will  *)
(* never see, a value only of one it saw (localError and uncertainError,    *)
(* sync/index.ts).                                                          *)
THEOREM DeliveryHolds == Spec => []DeliveryHonest
<1>1. IInv => DeliveryHonest
  BY DEF IInv, ReportOK, DeliveryHonest
<1>2. QED
  BY <1>1, Invariance, PTL

(* The parent never sleeps through a reply or a stop: whoever made them     *)
(* still has a notification to send (Atomics.wait in #receive, Atomics.add  *)
(* and Atomics.notify in the worker).                                       *)
THEOREM WakeupHolds == Spec => []NoLostWakeup
<1>1. IInv => NoLostWakeup
  <2> SUFFICES ASSUME IInv, parent.pc = "asleep", worker.life # "gone", toParent # <<>> \/ signal.state = 2
               PROVE  \E k \in DOMAIN worker.todo : worker.todo[k].do = "notify"
    BY DEF NoLostWakeup
  <2>1. worker.todo \in Seq(Acts) /\ Followed(worker.todo, "add", "notify")
    BY DEF IInv, Typed, Workers, WorkerOK, Turn
  <2>2. Does(worker.todo, "add") \/ Does(worker.todo, "notify")
    BY DEF IInv, WakeOK
  <2>3. Does(worker.todo, "notify")
    BY <2>1, <2>2 DEF Does, Followed
  <2>4. QED
    BY <2>1, <2>3 DEF Does
<1>2. QED
  BY <1>1, Invariance, PTL

(* A close that returned to the application left no context behind at the   *)
(* service, and an open session has one (close() and RemoteSession.close,   *)
(* sync/index.ts).                                                          *)
THEOREM CleanHolds == Spec => []CloseMeansClean
<1>1. IInv => CloseMeansClean
  BY DEF IInv, SessionOK, CloseMeansClean
<1>2. QED
  BY <1>1, Invariance, PTL

(* The overlap check of the worker never ends a healthy bridge: no command  *)
(* is there to be taken while the worker is busy with another one           *)
(* (port.on('message'), sync/worker.ts).                                    *)
THEOREM OverlapNever == Spec => [](WorkerIdle /\ ~worker.stopped /\ toWorker # <<>> => ~worker.busy)
<1>1. IInv => (WorkerIdle /\ ~worker.stopped /\ toWorker # <<>> => ~worker.busy)
  BY NoOverlap
<1>2. QED
  BY <1>1, Invariance, PTL

=============================================================================
