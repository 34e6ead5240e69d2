-------------------------- MODULE SdkSessionProofs --------------------------
(***************************************************************************)
(* A managed session of the SDK and its contexts, for any number of        *)
(* contexts, operations, bodies and abandoned requests: what it owns, what *)
(* it was told, and when it may call itself lost.                          *)
(***************************************************************************)
EXTENDS SdkSession, TLAPS

-----------------------------------------------------------------------------
(* Types.                                                                   *)

Verbs == {"none", "create", "select", "set", "import", "exchange", "delete"}
Codes == {"none", "ok", "not_found", "conflict", "other"}
Kinds == {"none", "open", "get", "set", "import", "stream", "rebind"}
Contents == SUBSET Nat

Requests == [verb : Verbs, ctx : 0..MaxContexts, expected : Nat, content : Contents]
Answers == [code : Codes, revision : Nat, jar : Contents, ctx : 0..MaxContexts]
Operations == [kind : Kinds, request : Requests, answer : Answers, next : 0..MaxContexts, error : Codes]
Sessions == [state : {"opening", "open", "failed", "closed"}, ctx : 0..MaxContexts, revision : Nat,
             cleanup : SUBSET Contexts, lost : BOOLEAN]
Closes == [stage : {"none", "stopping", "removing", "failed", "done"}, drain : BOOLEAN,
           expired : BOOLEAN, pending : SUBSET Contexts, failed : BOOLEAN, tries : Nat]
Histories == [acked : Contents, known : SUBSET Contexts, started : Nat, alarm : BOOLEAN, misjudged : BOOLEAN]
Records == [state : {"none", "alive", "gone"}, revision : Nat, jar : Contents]

Typed ==
  /\ op \in Operations /\ sess \in Sessions /\ closing \in Closes /\ ghost \in Histories
  /\ bodies \in [Contexts -> 0..MaxBodies]
  /\ late \subseteq Requests
  /\ service \in [Contexts -> Records]

-----------------------------------------------------------------------------
(* The invariant.                                                           *)

(* Which call each operation makes, and about which context.                *)
CallOK ==
  /\ op.kind = "none" => op = Free
  /\ op.kind = "open" => op.request.verb = "create"
  /\ op.kind = "get" => op.request.verb = "select"
  /\ op.kind = "set" => op.request.verb = "set"
  /\ op.kind = "import" => op.request.verb = "import"
  /\ op.kind = "stream" => op.request.verb = "exchange"
  /\ op.kind = "rebind" => op.request.verb \in {"select", "create", "import", "delete"}
  /\ op.kind \notin {"none", "open"} => sess.ctx \in ghost.known
  /\ op.kind \in {"get", "set", "import", "stream"} \/ op.request.verb = "select" => op.request.ctx = sess.ctx
  /\ op.kind = "rebind" /\ op.request.verb \in {"import", "delete"} =>
       op.request.ctx \in ghost.known /\ op.request.ctx # sess.ctx
  /\ op.kind = "rebind" /\ op.request.verb = "import" => op.next = op.request.ctx

(* What an answer says of the service, also when it is taken later.         *)
AnswerOK ==
  LET r == op.request
      a == op.answer
  IN /\ a.code = "ok" =>
          /\ a.ctx \in Contexts /\ a.revision <= service[a.ctx].revision
          /\ r.verb # "create" => a.ctx = r.ctx
          /\ r.verb = "create" => a.ctx \notin ghost.known /\ service[a.ctx].state # "none"
          /\ r.verb \in {"set", "import"} => a.revision = r.expected + 1 /\ r.content \subseteq a.jar
          /\ r.verb = "delete" => ~ Alive(r.ctx)
          /\ r.verb # "create" /\ r.ctx = sess.ctx => sess.revision <= a.revision
     /\ a.code = "not_found" => r.verb # "create" /\ ~ Alive(r.ctx)

(* The jar that a change of identity carries over, and the staged context   *)
(* that nobody else writes to.                                              *)
RebindOK ==
  op.kind = "rebind" =>
    /\ op.request.verb = "select" /\ op.answer.code = "ok" => ghost.acked \subseteq op.answer.jar
    /\ op.request.verb \in {"create", "import"} => ghost.acked \subseteq op.request.content
    /\ op.request.verb = "import" /\ op.answer.code \in {"none", "ok"} => \A r \in late : r.ctx # op.next
    /\ op.request.verb = "import" /\ op.answer.code = "ok" => op.request.content \subseteq service[op.next].jar

(* Requests under way, awaited or abandoned, expect no revision to come and *)
(* are about contexts that the SDK was told of.                             *)
RequestOK(r) ==
  /\ r.verb \in {"set", "import"} => r.expected <= service[r.ctx].revision
  /\ r.verb = "create" => r.ctx = NoContext
  /\ r.verb \notin {"none", "create"} => r.ctx \in ghost.known
  /\ r.content \subseteq 1..ghost.started

(* Every write has a number of its own, and that of a new exchange is not   *)
(* stored before the service executes it.                                   *)
WritesOK ==
  /\ \A c \in Contexts : service[c].jar \subseteq 1..ghost.started
  /\ op.answer.jar \subseteq 1..ghost.started
  /\ op.kind = "stream" /\ op.answer.code = "none" =>
       /\ op.request.content = {ghost.started}
       /\ \A c \in Contexts : ghost.started \notin service[c].jar
       /\ \A r \in late : ghost.started \notin r.content

(* What is owned.                                                           *)
KnownOK ==
  /\ sess.cleanup \subseteq ghost.known
  /\ \A c \in ghost.known : service[c].state # "none" /\ (Alive(c) => c \in sess.cleanup)
  /\ closing.pending \subseteq ghost.known
  /\ sess.ctx # NoContext => sess.ctx \in ghost.known
  /\ sess.state \in {"open", "closed"} => sess.ctx \in ghost.known
  /\ op.kind = "open" =>
       /\ sess.state = "opening" /\ sess.ctx = NoContext /\ ~ sess.lost /\ closing.stage = "none"
       /\ ghost.known = {} /\ ghost.acked = {}

(* A close deletes what was owned when everything had settled.              *)
CloseOK ==
  /\ closing.stage # "none" => sess.state = "closed"
  /\ closing.stage \in {"removing", "done"} => op = Free
  /\ closing.stage = "removing" /\ ~ closing.failed => \A c \in ghost.known : Alive(c) => c \in closing.pending
  /\ closing.stage = "done" => \A c \in ghost.known : ~ Alive(c)

(* The writes that the application was told of, or is about to be.          *)
Promised ==
  ghost.acked \cup
  (IF op.answer.code = "ok" /\ op.kind \in {"set", "import", "stream"} /\ op.request.content \subseteq op.answer.jar
   THEN op.request.content ELSE {})

AckOK ==
  /\ Alive(sess.ctx) => Promised \subseteq service[sess.ctx].jar
  /\ Promised # {} =>
       \A r \in late : r.verb = "import" /\ r.ctx = sess.ctx => r.expected < service[r.ctx].revision
  /\ op.kind = "import" => ghost.acked = {}
  /\ sess.ctx \in Contexts => sess.revision <= service[sess.ctx].revision
  /\ ~ ghost.alarm

LostOK == sess.lost => ~ Alive(sess.ctx) \/ ghost.misjudged

IInv ==
  /\ Typed /\ CallOK /\ AnswerOK /\ RebindOK /\ WritesOK /\ KnownOK /\ CloseOK /\ AckOK /\ LostOK
  /\ RequestOK(op.request) /\ \A r \in late : RequestOK(r) /\ r.verb # "none"

-----------------------------------------------------------------------------
(* What the service does with a request.                                    *)

Wrote(r, s, a, c) ==
  /\ c = r.ctx /\ a.code = "ok" /\ r.verb \in {"set", "import", "exchange"}
  /\ s[c].revision = service[c].revision + 1
  /\ r.verb \in {"set", "import"} => r.expected = service[c].revision
  /\ r.content \subseteq s[c].jar /\ s[c].jar \subseteq service[c].jar \cup r.content
  /\ r.verb # "import" => service[c].jar \subseteq s[c].jar

Kept(s, c) == s[c].jar = service[c].jar /\ s[c].revision = service[c].revision

Lived(r, s, a, c) ==
  /\ service[c].state # "none" => s[c].state # "none"
  /\ service[c].state = "gone" => s[c].state = "gone"
  /\ service[c].state = "none" /\ s[c].state # "none" => r.verb = "create" /\ a.code = "ok" /\ a.ctx = c

Told(r, s, a) ==
  /\ a.ctx \in Contexts /\ a.revision = s[a.ctx].revision /\ a.jar = s[a.ctx].jar
  /\ r.verb = "create" => service[a.ctx].state = "none" /\ s[a.ctx].state = "alive"
  /\ r.verb # "create" => a.ctx = r.ctx /\ Alive(r.ctx)
  /\ r.verb \in {"set", "import"} => Wrote(r, s, a, r.ctx)
  /\ r.verb = "delete" => s[r.ctx].state = "gone"

(* The contexts s and the answer a after request r.                         *)
Effect(r, s, a) ==
  /\ s \in [Contexts -> Records] /\ a \in Answers /\ a.code # "none"
  /\ \A c \in Contexts : Lived(r, s, a, c) /\ (Kept(s, c) \/ Wrote(r, s, a, c))
  /\ a.code = "ok" => Told(r, s, a)
  /\ a.code # "ok" => s = service /\ a.jar = {}
  /\ a.code = "not_found" => r.verb # "create" /\ ~ Alive(r.ctx)

(* A request that fails changes nothing.                                    *)
LEMMA FailureEffect ==
  ASSUME Typed, NEW r, NEW code \in {"not_found", "conflict", "other"},
         code = "not_found" => r.verb # "create" /\ ~ Alive(r.ctx)
  PROVE  Effect(r, service, Failure(code))
<1> DEFINE a == Failure(code)
<1>1. a.code = code /\ a.jar = {} /\ a.revision = 0 /\ a.ctx = 0
  BY DEF Failure, NoAnswer, NoContext
<1>2. a \in Answers
  BY SdkSessionAssumption DEF Failure, NoAnswer, NoContext, Answers, Codes, Contents
<1>3. service \in [Contexts -> Records]
  BY DEF Typed
<1>4. \A c \in Contexts : Lived(r, service, a, c) /\ Kept(service, c)
  BY DEF Lived, Kept
<1> HIDE DEF a
<1>5. Effect(r, service, a)
  BY <1>1, <1>2, <1>3, <1>4 DEF Effect
<1> QED BY <1>5 DEF a

(* The answer of a request that succeeded for context c.                    *)
LEMMA OkAnswer ==
  ASSUME NEW s \in [Contexts -> Records], NEW c \in Contexts, NEW a,
         a = [code |-> "ok", revision |-> s[c].revision, jar |-> s[c].jar, ctx |-> c]
  PROVE  /\ a \in Answers /\ a.code = "ok" /\ a.revision = s[c].revision /\ a.jar = s[c].jar
         /\ a.ctx = c
<1>1. c \in 0..MaxContexts /\ s[c].revision \in Nat /\ s[c].jar \in Contents
  BY SdkSessionAssumption DEF Contexts, Records
<1> QED BY <1>1 DEF Answers, Codes

(* A change of one context.                                                 *)
LEMMA OneContext ==
  ASSUME Typed, NEW c \in Contexts, NEW s,
         \/ s = [service EXCEPT ![c].state = "alive"]
         \/ s = [service EXCEPT ![c].state = "gone"]
         \/ \E jar \in Contents : s = Put(c, jar)
  PROVE  /\ s \in [Contexts -> Records]
         /\ \A d \in Contexts : d # c => s[d] = service[d]
<1>1. service \in [Contexts -> Records]
  BY DEF Typed
<1>2. \A v \in {"none", "alive", "gone"} : [service[c] EXCEPT !.state = v] \in Records
  BY <1>1 DEF Records
<1>3. ASSUME NEW jar \in Contents
      PROVE  [service[c] EXCEPT !.jar = jar, !.revision = @ + 1] \in Records
  <2>1. service[c] \in Records /\ service[c].revision + 1 \in Nat
    BY <1>1 DEF Records
  <2>2. [service[c] EXCEPT !.jar = jar, !.revision = service[c].revision + 1] \in Records
    BY <2>1 DEF Records
  <2>3. [service[c] EXCEPT !.jar = jar, !.revision = service[c].revision + 1]
          = [service[c] EXCEPT !.jar = jar, !.revision = @ + 1]
    BY <2>1 DEF Records
  <2> QED BY <2>2, <2>3
<1>4. PICK v \in Records : s = [service EXCEPT ![c] = v]
  <2>1. CASE s = [service EXCEPT ![c].state = "alive"]
    BY <1>2, <2>1
  <2>2. CASE s = [service EXCEPT ![c].state = "gone"]
    BY <1>2, <2>2
  <2>3. CASE \E jar \in Contents : s = Put(c, jar)
    <3>1. PICK jar \in Contents : s = Put(c, jar)
      BY <2>3
    <3>2. s = [service EXCEPT ![c] = [service[c] EXCEPT !.jar = jar, !.revision = @ + 1]]
      BY <1>1, <3>1 DEF Put
    <3> QED BY <1>3, <3>2
  <2> QED BY <2>1, <2>2, <2>3
<1> QED BY <1>1, <1>4

(* An execution is refused, or is the change that its verb asks for.        *)
LEMMA Executed ==
  ASSUME Typed, NEW r \in Requests, r.verb # "none", NEW x \in Executions(r)
  PROVE  Effect(r, x[1], x[2])
<1> DEFINE now == service[r.ctx]
           Ok(s, c) == <<s, [code |-> "ok", revision |-> s[c].revision, jar |-> s[c].jar, ctx |-> c]>>
           first == {d \in Fresh : \A e \in Fresh : d <= e}
<1>1. service \in [Contexts -> Records] /\ r.content \in Contents /\ r.verb \in Verbs
  BY DEF Typed, Requests
<1>2. CASE x = <<service, Failure("other")>>
  <2>1. x[1] = service /\ x[2] = Failure("other")
    BY <1>2
  <2> QED BY <2>1, FailureEffect
<1>3. CASE r.verb = "create"
  <2>1. CASE x # <<service, Failure("other")>>
    <3>1. PICK c \in first : x = Ok([service EXCEPT ![c].state = "alive"], c)
      BY <1>3, <2>1 DEF Executions
    <3> DEFINE s == [service EXCEPT ![c].state = "alive"]
    <3>2. c \in Contexts /\ service[c].state = "none"
      BY DEF Fresh
    <3>3. s \in [Contexts -> Records] /\ \A d \in Contexts : d # c => s[d] = service[d]
      BY <3>2, OneContext
    <3>4. s[c].state = "alive" /\ s[c].jar = service[c].jar /\ s[c].revision = service[c].revision
      BY <1>1, <3>2 DEF Records
    <3>5. x[1] = s /\ x[2] = [code |-> "ok", revision |-> s[c].revision, jar |-> s[c].jar, ctx |-> c]
      BY <3>1
    <3> HIDE DEF s
    <3>6. /\ x[2] \in Answers /\ x[2].code = "ok" /\ x[2].revision = s[c].revision
          /\ x[2].jar = s[c].jar /\ x[2].ctx = c
      BY <3>2, <3>3, <3>5, OkAnswer
    <3>7. \A d \in Contexts : Lived(r, s, x[2], d) /\ Kept(s, d)
      BY <1>3, <3>2, <3>3, <3>4, <3>6 DEF Lived, Kept
    <3>8. Told(r, s, x[2])
      BY <1>3, <3>2, <3>4, <3>6 DEF Told
    <3> QED BY <3>3, <3>5, <3>6, <3>7, <3>8 DEF Effect
  <2> QED BY <1>2, <2>1
<1>4. CASE r.verb # "create" /\ ~ Alive(r.ctx)
  <2>1. x = <<service, Failure("not_found")>>
    BY <1>4 DEF Executions
  <2>2. x[1] = service /\ x[2] = Failure("not_found")
    BY <2>1
  <2> QED BY <1>4, <2>2, FailureEffect
<1>5. ASSUME Alive(r.ctx), r.verb # "create", x # <<service, Failure("other")>>
      PROVE  Effect(r, x[1], x[2])
  <2>1. r.ctx \in Contexts /\ service[r.ctx].state = "alive"
    BY <1>5 DEF Alive
  <2>2. ASSUME NEW s \in [Contexts -> Records], x = Ok(s, r.ctx),
               \A d \in Contexts : d # r.ctx => s[d] = service[d],
               s[r.ctx].state \in {"alive", "gone"}, r.verb = "delete" => s[r.ctx].state = "gone",
               Kept(s, r.ctx) \/ Wrote(r, s, [code |-> "ok"], r.ctx),
               r.verb \in {"set", "import"} => Wrote(r, s, [code |-> "ok"], r.ctx)
        PROVE  Effect(r, x[1], x[2])
    <3>1. x[1] = s /\ x[2] = [code |-> "ok", revision |-> s[r.ctx].revision, jar |-> s[r.ctx].jar, ctx |-> r.ctx]
      BY <2>2
    <3>2. /\ x[2] \in Answers /\ x[2].code = "ok" /\ x[2].revision = s[r.ctx].revision
          /\ x[2].jar = s[r.ctx].jar /\ x[2].ctx = r.ctx
      BY <2>1, <2>2, <3>1, OkAnswer
    <3>3. \A d \in Contexts : Wrote(r, s, [code |-> "ok"], d) <=> Wrote(r, s, x[2], d)
      BY <3>2 DEF Wrote
    <3>4. \A d \in Contexts : Lived(r, s, x[2], d)
      BY <2>1, <2>2 DEF Lived
    <3>5. \A d \in Contexts : Kept(s, d) \/ Wrote(r, s, x[2], d)
      BY <2>2, <3>3 DEF Kept
    <3>6. Told(r, s, x[2])
      BY <1>5, <2>1, <2>2, <3>2, <3>3 DEF Told
    <3> QED BY <2>2, <3>1, <3>2, <3>4, <3>5, <3>6 DEF Effect
  <2>3. CASE r.verb = "select"
    <3>1. x = Ok(service, r.ctx)
      BY <1>5, <2>3 DEF Executions
    <3> QED BY <1>1, <2>1, <2>2, <2>3, <3>1 DEF Kept
  <2>4. ASSUME NEW jar \in Contents, x = Ok(Put(r.ctx, jar), r.ctx),
               r.verb \in {"set", "import", "exchange"},
               r.verb \in {"set", "import"} => r.expected = now.revision,
               r.content \subseteq jar, jar \subseteq now.jar \cup r.content,
               r.verb # "import" => now.jar \subseteq jar
        PROVE  Effect(r, x[1], x[2])
    <3> DEFINE s == Put(r.ctx, jar)
    <3>1. s \in [Contexts -> Records] /\ \A d \in Contexts : d # r.ctx => s[d] = service[d]
      BY <2>1, OneContext
    <3>2. s[r.ctx].jar = jar /\ s[r.ctx].revision = now.revision + 1 /\ s[r.ctx].state = "alive"
      BY <1>1, <2>1 DEF Put, Records
    <3>3. x = Ok(s, r.ctx)
      BY <2>4
    <3> HIDE DEF s
    <3>4. Wrote(r, s, [code |-> "ok"], r.ctx)
      BY <2>4, <3>2 DEF Wrote
    <3> QED BY <2>2, <2>4, <3>1, <3>2, <3>3, <3>4
  <2>5. CASE r.verb \in {"set", "import"}
    <3>1. CASE r.expected # now.revision
      <4>1. x = <<service, Failure("conflict")>>
        BY <1>5, <2>5, <3>1 DEF Executions
      <4>2. x[1] = service /\ x[2] = Failure("conflict")
        BY <4>1
      <4> QED BY <4>2, FailureEffect
    <3>2. CASE r.expected = now.revision
      <4> DEFINE jar == IF r.verb = "set" THEN now.jar \cup r.content ELSE r.content
      <4>1. x = Ok(Put(r.ctx, jar), r.ctx)
        BY <1>5, <2>5, <3>2 DEF Executions
      <4>2. jar \in Contents
        BY <1>1, <2>1 DEF Records, Contents
      <4> QED BY <2>4, <2>5, <3>2, <4>1, <4>2
    <3> QED BY <3>1, <3>2
  <2>6. CASE r.verb = "exchange"
    <3>1. x = Ok(service, r.ctx) \/ x = Ok(Put(r.ctx, now.jar \cup r.content), r.ctx)
      BY <1>5, <2>6 DEF Executions
    <3>2. CASE x = Ok(service, r.ctx)
      BY <1>1, <2>1, <2>2, <2>6, <3>2 DEF Kept
    <3>3. CASE x = Ok(Put(r.ctx, now.jar \cup r.content), r.ctx)
      <4>1. now.jar \cup r.content \in Contents
        BY <1>1, <2>1 DEF Records, Contents
      <4> QED BY <2>4, <2>6, <3>3, <4>1
    <3> QED BY <3>1, <3>2, <3>3
  <2>7. CASE r.verb = "delete"
    <3> DEFINE s == [service EXCEPT ![r.ctx].state = "gone"]
    <3>1. x = Ok(s, r.ctx)
      BY <1>5, <2>7 DEF Executions
    <3>2. s \in [Contexts -> Records] /\ \A d \in Contexts : d # r.ctx => s[d] = service[d]
      BY <2>1, OneContext
    <3>3. s[r.ctx].state = "gone" /\ Kept(s, r.ctx)
      BY <1>1, <2>1 DEF Records, Kept
    <3> HIDE DEF s
    <3> QED BY <2>2, <2>7, <3>1, <3>2, <3>3
  <2> QED BY <1>1, <1>5, <2>3, <2>5, <2>6, <2>7 DEF Verbs
<1> QED BY <1>2, <1>3, <1>4, <1>5

-----------------------------------------------------------------------------
(* What the helpers of sessions.ts change of a session.                     *)

(* No operation holds the permit.                                           *)
LEMMA FreeFields ==
  /\ Free \in Operations /\ Free.kind = "none" /\ Free.request.verb = "none"
  /\ Free.answer.code = "none" /\ Free.answer.jar = {} /\ Free.request.content = {}
<1>1. NoRequest \in Requests /\ NoAnswer \in Answers
  BY SdkSessionAssumption DEF NoRequest, NoAnswer, Requests, Answers, Verbs, Codes, Contents, NoContext
<1>2. 0 \in 0..MaxContexts
  BY SdkSessionAssumption
<1> QED BY <1>1, <1>2 DEF Free, NoRequest, NoAnswer, NoContext, Operations, Kinds, Codes

(* applyRevision().                                                         *)
LEMMA ApplyFields ==
  ASSUME NEW s \in Sessions, NEW n \in Nat, NEW c,
         NEW z, z = ApplyRevision(s, n, c)
  PROVE  /\ z \in Sessions
         /\ z.state = s.state /\ z.ctx = s.ctx /\ z.cleanup = s.cleanup /\ z.lost = s.lost
         /\ z.revision = IF s.ctx = c THEN n ELSE s.revision
BY DEF ApplyRevision, Sessions

(* markLost().                                                              *)
LEMMA MarkFields ==
  ASSUME NEW s \in Sessions, NEW code, NEW c,
         NEW z, z = MarkLost(s, code, c)
  PROVE  /\ z \in Sessions
         /\ z.state = s.state /\ z.ctx = s.ctx /\ z.cleanup = s.cleanup /\ z.revision = s.revision
         /\ z.lost <=> s.lost \/ (code = "not_found" /\ s.ctx = c)
BY DEF MarkLost, Sessions

(* removeContext().                                                         *)
LEMMA RemovedFields ==
  ASSUME NEW s \in Sessions, NEW code, NEW c \in Contexts,
         NEW z, z = Removed(s, code, c)
  PROVE  /\ z \in Sessions
         /\ z.state = s.state /\ z.ctx = s.ctx /\ z.lost = s.lost /\ z.revision = s.revision
         /\ z.cleanup = IF code \in {"ok", "not_found"} THEN s.cleanup \ {c} ELSE s.cleanup \cup {c}
BY DEF Removed, Sessions

(* The rejection of the operation in progress keeps everything owned.       *)
LEMMA AbortFields ==
  ASSUME NEW o \in Operations, NEW s \in Sessions,
         o.kind = "rebind" /\ o.request.verb = "import" => o.next \in Contexts,
         o.kind = "rebind" /\ o.request.verb = "delete" => o.request.ctx \in Contexts,
         NEW z, z = Aborting(o, s)
  PROVE  /\ z \in Sessions /\ z.ctx = s.ctx /\ z.revision = s.revision
         /\ z.state = IF o.kind = "open" THEN "failed" ELSE s.state
         /\ s.cleanup \subseteq z.cleanup
         /\ \A c \in z.cleanup : \/ c \in s.cleanup
                                 \/ o.kind = "rebind" /\ o.request.verb = "import" /\ c = o.next
                                 \/ o.kind = "rebind" /\ o.request.verb = "delete" /\ c = o.request.ctx
         /\ z.lost => s.lost \/ StagingLost(o)
<1>1. CASE o.kind = "open"
  <2>1. Aborting(o, s) = [s EXCEPT !.state = "failed"]
    BY <1>1 DEF Aborting
  <2> QED BY <1>1, <2>1 DEF Sessions
<1>2. CASE o.kind = "rebind" /\ o.request.verb = "import"
  <2>1. Aborting(o, s) = Removed(s, "other", o.next)
    BY <1>2 DEF Aborting
  <2> DEFINE y == Removed(s, "other", o.next)
  <2>2. /\ y \in Sessions /\ y.state = s.state /\ y.ctx = s.ctx /\ y.lost = s.lost
        /\ y.revision = s.revision /\ y.cleanup = s.cleanup \cup {o.next}
    <3>1. o.next \in Contexts
      BY <1>2
    <3>2. y = [s EXCEPT !.cleanup = @ \cup {o.next}]
      BY DEF Removed
    <3> QED BY <3>1, <3>2 DEF Sessions
  <2> HIDE DEF y
  <2> QED BY <1>2, <2>1, <2>2 DEF y
<1>3. CASE o.kind = "rebind" /\ o.request.verb = "delete"
  <2> DEFINE y == Removed(s, "other", o.request.ctx)
  <2>1. Aborting(o, s) = MarkLost(y, o.error, y.ctx)
    BY <1>3 DEF Aborting, Thrown
  <2>2. /\ y \in Sessions /\ y.state = s.state /\ y.ctx = s.ctx /\ y.lost = s.lost
        /\ y.revision = s.revision /\ y.cleanup = s.cleanup \cup {o.request.ctx}
    <3>1. o.request.ctx \in Contexts
      BY <1>3
    <3>2. y = [s EXCEPT !.cleanup = @ \cup {o.request.ctx}]
      BY DEF Removed
    <3> QED BY <3>1, <3>2 DEF Sessions
  <2> HIDE DEF y
  <2> QED BY <1>3, <2>1, <2>2, MarkFields DEF StagingLost
<1>4. CASE /\ o.kind # "open" /\ ~ (o.kind = "rebind" /\ o.request.verb = "import")
           /\ ~ (o.kind = "rebind" /\ o.request.verb = "delete")
  <2>1. Aborting(o, s) = s
    BY <1>4 DEF Aborting
  <2> QED BY <1>4, <2>1
<1> QED BY <1>1, <1>2, <1>3, <1>4

-----------------------------------------------------------------------------
(* Steps of the service.                                                    *)

(* What a step of the service can never undo.                               *)
LEMMA Grows ==
  ASSUME IInv, NEW r, NEW a, Effect(r, service', a)
  PROVE  /\ service' \in [Contexts -> Records]
         /\ \A c \in Contexts : service[c].revision <= service'[c].revision
         /\ \A c \in Contexts : service[c].state # "none" => service'[c].state # "none"
         /\ \A c \in ghost.known : service'[c].state # "none" /\ (Alive(c)' => Alive(c))
         /\ ~ Alive(sess.ctx) => ~ (sess.ctx \in Contexts /\ service'[sess.ctx].state = "alive")
<1>1. service \in [Contexts -> Records] /\ service' \in [Contexts -> Records]
  BY DEF IInv, Typed, Effect
<1>2. ghost.known \subseteq Contexts /\ sess \in Sessions
  BY DEF IInv, Typed, Histories
<1>3. \A c \in Contexts : service[c].revision <= service'[c].revision
  <2>1. \A c \in Contexts : service[c].revision \in Nat /\ service'[c].revision \in Nat
    BY <1>1 DEF Records
  <2> QED BY <2>1 DEF Effect, Kept, Wrote
<1>4. \A c \in Contexts : Lived(r, service', a, c)
  BY DEF Effect
<1>5. \A c \in ghost.known : service[c].state \in {"alive", "gone"}
  BY <1>1, <1>2 DEF IInv, KnownOK, Records
<1>6. \A c \in ghost.known : service'[c].state # "none" /\ (Alive(c)' => Alive(c))
  BY <1>2, <1>4, <1>5 DEF Lived, Alive
<1>7. sess.ctx \in Contexts => sess.ctx \in ghost.known
  BY DEF IInv, KnownOK, Contexts, NoContext
<1>8. ~ Alive(sess.ctx) => ~ (sess.ctx \in Contexts /\ service'[sess.ctx].state = "alive")
  BY <1>6, <1>7 DEF Alive
<1> QED BY <1>1, <1>3, <1>4, <1>6, <1>8 DEF Lived

(* A request nobody waits for, or the end of a context, disturbs no answer, *)
(* no promise and nothing that is owned.                                    *)
LEMMA ServiceMoves ==
  ASSUME IInv, NEW r, NEW a, Effect(r, service', a), op' = op, ghost' = ghost,
         late' \subseteq late,
         sess'.ctx = sess.ctx, sess'.revision = sess.revision, sess'.lost = sess.lost,
         r.content \subseteq 1..ghost.started,
         op.kind = "stream" /\ op.answer.code = "none" => ghost.started \notin r.content,
         op.kind = "rebind" /\ op.request.verb = "import" /\ op.answer.code \in {"none", "ok"}
           => r.verb = "delete" \/ r.ctx # op.next,
         r.verb = "import" /\ r.ctx = sess.ctx /\ r.expected = service[r.ctx].revision => Promised = {}
  PROVE  /\ CallOK' /\ AnswerOK' /\ RebindOK' /\ WritesOK' /\ AckOK' /\ LostOK'
         /\ RequestOK(op.request)' /\ \A q \in late' : RequestOK(q)' /\ q.verb # "none"
<1>1. /\ service \in [Contexts -> Records] /\ op \in Operations /\ sess \in Sessions
      /\ ghost \in Histories /\ late \subseteq Requests
  BY DEF IInv, Typed
<1>2. /\ service' \in [Contexts -> Records]
      /\ \A c \in Contexts : service[c].revision <= service'[c].revision
      /\ \A c \in Contexts : service[c].state # "none" => service'[c].state # "none"
      /\ \A c \in ghost.known : service'[c].state # "none" /\ (Alive(c)' => Alive(c))
      /\ ~ Alive(sess.ctx) => ~ (sess.ctx \in Contexts /\ service'[sess.ctx].state = "alive")
  BY Grows
<1>3. \A c \in Contexts : Kept(service', c) \/ Wrote(r, service', a, c)
  BY DEF Effect
<1>4. \A c \in Contexts : /\ service[c].revision \in Nat /\ service'[c].revision \in Nat
                          /\ service[c].jar \subseteq Nat /\ service'[c].jar \subseteq Nat
  BY <1>1, <1>2 DEF Records, Contents
<1>5. ghost.known \subseteq Contexts /\ ghost.started \in Nat
  BY <1>1 DEF Histories
<1>6. CallOK'
  BY DEF IInv, CallOK
<1>7. \A q \in Requests : RequestOK(q) => RequestOK(q)'
  <2>1. \A q \in Requests : q.expected \in Nat
    BY DEF Requests
  <2> QED BY <1>2, <1>4, <1>5, <2>1 DEF RequestOK
<1>8. RequestOK(op.request)' /\ \A q \in late' : RequestOK(q)' /\ q.verb # "none"
  BY <1>1, <1>7 DEF IInv, Operations, RequestOK
<1>9. AnswerOK'
  <2>1. op.answer \in Answers /\ op.answer.revision \in Nat /\ op.request.verb \in Verbs
    BY <1>1 DEF Operations, Answers, Requests
  <2>2. op.answer.code = "ok" /\ op.request.verb = "delete" => ~ Alive(op.request.ctx)'
    BY <1>2 DEF IInv, AnswerOK, RequestOK
  <2>3. op.answer.code = "not_found" => op.request.verb # "create" /\ ~ Alive(op.request.ctx)'
    <3>1. CASE op.request.verb = "none"
      BY <1>1, <3>1, FreeFields DEF IInv, CallOK, Operations, Kinds
    <3>2. CASE op.request.verb # "none"
      BY <1>2, <3>2 DEF IInv, AnswerOK, RequestOK
    <3> QED BY <3>1, <3>2
  <2>4. op.answer.code = "ok" => op.answer.revision <= service'[op.answer.ctx].revision
    BY <1>2, <1>4, <2>1 DEF IInv, AnswerOK
  <2> QED BY <1>2, <2>2, <2>3, <2>4 DEF IInv, AnswerOK
<1>10. RebindOK'
  <2>1. op.kind = "rebind" /\ op.request.verb = "import" => op.next \in Contexts
    BY <1>5 DEF IInv, CallOK
  <2>2. op.kind = "rebind" /\ op.request.verb = "import" /\ op.answer.code = "ok"
          => op.request.content \subseteq service'[op.next].jar
    BY <1>3, <2>1 DEF IInv, RebindOK, Kept, Wrote
  <2> QED BY <2>2 DEF IInv, RebindOK
<1>11. WritesOK'
  <2>1. \A c \in Contexts : service'[c].jar \subseteq 1..ghost.started
    BY <1>3 DEF IInv, WritesOK, Kept, Wrote
  <2>2. op.kind = "stream" /\ op.answer.code = "none" => \A c \in Contexts : ghost.started \notin service'[c].jar
    BY <1>3 DEF IInv, WritesOK, Kept, Wrote
  <2> QED BY <2>1, <2>2 DEF IInv, WritesOK
<1>12. AckOK'
  <2>1. Promised' = Promised
    BY DEF Promised
  <2>2. Alive(sess.ctx)' => Alive(sess.ctx)
    BY <1>2 DEF Alive
  <2>3. Alive(sess.ctx) => Promised \subseteq service'[sess.ctx].jar
    <3> SUFFICES ASSUME Alive(sess.ctx), Promised # {} PROVE Promised \subseteq service'[sess.ctx].jar
      OBVIOUS
    <3>1. Promised \subseteq service[sess.ctx].jar /\ sess.ctx \in Contexts
      BY DEF IInv, AckOK, Alive
    <3>2. service[sess.ctx].jar \subseteq service'[sess.ctx].jar
      BY <1>3, <3>1 DEF Kept, Wrote
    <3> QED BY <3>1, <3>2
  <2>4. ASSUME Promised # {}, NEW q \in late', q.verb = "import", q.ctx = sess.ctx
        PROVE  q.expected < service'[q.ctx].revision
    <3>1. q \in late /\ q.expected \in Nat /\ q.expected < service[q.ctx].revision
      BY <1>1, <2>4 DEF IInv, AckOK, Requests
    <3>2. q.ctx \in Contexts
      BY <1>5, <2>4, <3>1 DEF IInv, RequestOK
    <3> QED BY <1>2, <1>4, <3>1, <3>2
  <2>5. sess.ctx \in Contexts => sess.revision <= service'[sess.ctx].revision
    <3>1. sess.revision \in Nat
      BY <1>1 DEF Sessions
    <3> QED BY <1>2, <1>4, <3>1 DEF IInv, AckOK
  <2> QED BY <2>1, <2>2, <2>3, <2>4, <2>5 DEF IInv, AckOK, Alive
<1>13. LostOK'
  BY <1>2 DEF IInv, LostOK, Alive
<1> QED BY <1>6, <1>8, <1>9, <1>10, <1>11, <1>12, <1>13

(* What is owned stays owned while the service moves and the session does   *)
(* not.                                                                     *)
LEMMA ServiceKeepsOwned ==
  ASSUME IInv, NEW r, NEW a, Effect(r, service', a), ghost' = ghost, sess' = sess, closing' = closing,
         op'.kind = op.kind, op = Free => op' = Free
  PROVE  KnownOK' /\ CloseOK'
<1>1. ghost.known \subseteq Contexts
  BY DEF IInv, Typed, Histories
<1>2. \A c \in ghost.known : service'[c].state # "none" /\ (Alive(c)' => Alive(c))
  BY Grows
<1>3. KnownOK'
  BY <1>1, <1>2 DEF IInv, KnownOK, Alive
<1>4. CloseOK'
  BY <1>1, <1>2 DEF IInv, CloseOK, Alive
<1> QED BY <1>3, <1>4

(* An abandoned request is executed late.                                   *)
LEMMA LateStep ==
  ASSUME IInv, NEW r \in late, ExecuteLate(r)
  PROVE  IInv'
<1>1. r \in Requests /\ r.verb # "none" /\ RequestOK(r) /\ Typed
  BY DEF IInv, Typed
<1>2. PICK x \in Executions(r) : service' = x[1]
  BY DEF ExecuteLate
<1>3. Effect(r, service', x[2])
  BY <1>1, <1>2, Executed
<1>4. late' \subseteq late /\ op' = op /\ sess' = sess /\ closing' = closing /\ bodies' = bodies /\ ghost' = ghost
  BY DEF ExecuteLate
<1>5. r.content \subseteq 1..ghost.started
  BY <1>1 DEF RequestOK
<1>6. op.kind = "stream" /\ op.answer.code = "none" => ghost.started \notin r.content
  BY DEF IInv, WritesOK
<1>7. op.kind = "rebind" /\ op.request.verb = "import" /\ op.answer.code \in {"none", "ok"} => r.ctx # op.next
  BY DEF IInv, RebindOK
<1>8. ASSUME r.verb = "import", r.ctx = sess.ctx, r.expected = service[r.ctx].revision
      PROVE  Promised = {}
  <2>1. r.expected \in Nat
    BY <1>1 DEF Requests
  <2> QED BY <1>8, <2>1 DEF IInv, AckOK
<1>9. /\ CallOK' /\ AnswerOK' /\ RebindOK' /\ WritesOK' /\ AckOK' /\ LostOK'
      /\ RequestOK(op.request)' /\ \A q \in late' : RequestOK(q)' /\ q.verb # "none"
  BY <1>3, <1>4, <1>5, <1>6, <1>7, <1>8, ServiceMoves
<1>10. KnownOK' /\ CloseOK'
  BY <1>3, <1>4, ServiceKeepsOwned
<1>11. Typed'
  BY <1>1, <1>3, <1>4 DEF Typed, Effect
<1> QED BY <1>9, <1>10, <1>11 DEF IInv

(* The deletion of a context, as a request.                                 *)
LEMMA DeletionFields ==
  ASSUME NEW c \in Contexts
  PROVE  /\ Deletion(c) \in Requests /\ Deletion(c).verb = "delete" /\ Deletion(c).ctx = c
         /\ Deletion(c).content = {} /\ Deletion(c).expected = 0
<1>1. c \in 0..MaxContexts
  BY SdkSessionAssumption DEF Contexts
<1> QED BY <1>1 DEF Deletion, Request, Requests, Verbs, Contents

(* A context expires: for the session, as if it had been deleted.           *)
LEMMA EndsStep ==
  ASSUME IInv, NEW c \in Contexts, ContextEnds(c)
  PROVE  IInv'
<1> DEFINE r == Deletion(c)
           x == <<service', [code |-> "ok", revision |-> service'[c].revision, jar |-> service'[c].jar, ctx |-> c]>>
<1>1. r \in Requests /\ r.verb = "delete" /\ r.ctx = c /\ r.content = {}
  BY DeletionFields
<1>2. late' = late /\ op' = op /\ sess' = sess /\ closing' = closing /\ bodies' = bodies /\ ghost' = ghost /\ Alive(c)
  BY DEF ContextEnds
<1>3. x \in Executions(r)
  <2>1. service' = [service EXCEPT ![c].state = "gone"]
    BY DEF ContextEnds
  <2> HIDE DEF r
  <2>2. Executions(r) = {<<[service EXCEPT ![c].state = "gone"],
                           [code |-> "ok", revision |-> [service EXCEPT ![c].state = "gone"][c].revision,
                            jar |-> [service EXCEPT ![c].state = "gone"][c].jar, ctx |-> c]>>}
                          \cup {<<service, Failure("other")>>}
    BY <1>1, <1>2 DEF Executions
  <2> QED BY <2>1, <2>2
<1>4. Typed
  BY DEF IInv
<1>5. Effect(r, x[1], x[2])
  <2> HIDE DEF r, x
  <2> QED BY <1>1, <1>3, <1>4, Executed
<1>6. Effect(r, service', x[2])
  BY <1>5
<1> HIDE DEF r, x
<1>7. /\ CallOK' /\ AnswerOK' /\ RebindOK' /\ WritesOK' /\ AckOK' /\ LostOK'
      /\ RequestOK(op.request)' /\ \A q \in late' : RequestOK(q)' /\ q.verb # "none"
  BY <1>1, <1>2, <1>6, ServiceMoves
<1>8. KnownOK' /\ CloseOK'
  BY <1>2, <1>6, ServiceKeepsOwned
<1>9. Typed'
  BY <1>2, <1>4, <1>6 DEF Typed, Effect
<1> QED BY <1>7, <1>8, <1>9 DEF IInv

(* A deletion of the close is answered.                                     *)
LEMMA RemovesStep ==
  ASSUME IInv, NEW c \in Contexts, CloseRemoves(c)
  PROVE  IInv'
<1> DEFINE r == Deletion(c)
<1>1. r \in Requests /\ r.verb = "delete" /\ r.ctx = c /\ r.content = {}
  BY DeletionFields
<1>2. PICK x \in Executions(r) :
        /\ service' = x[1] /\ sess' = Removed(sess, x[2].code, c)
        /\ closing' = [closing EXCEPT !.pending = @ \ {c}, !.failed = @ \/ x[2].code \notin {"ok", "not_found"}]
  BY DEF CloseRemoves
<1>3. /\ late' = late /\ op' = op /\ bodies' = bodies /\ ghost' = ghost
      /\ closing.stage = "removing" /\ c \in closing.pending
  BY DEF CloseRemoves
<1>4. Typed /\ sess \in Sessions /\ closing \in Closes /\ ghost.known \subseteq Contexts
  BY DEF IInv, Typed, Histories
<1> HIDE DEF r
<1>5. Effect(r, service', x[2])
  BY <1>1, <1>2, <1>4, Executed
<1>6. /\ sess' \in Sessions /\ sess'.state = sess.state /\ sess'.ctx = sess.ctx /\ sess'.lost = sess.lost
      /\ sess'.revision = sess.revision
      /\ sess'.cleanup = IF x[2].code \in {"ok", "not_found"} THEN sess.cleanup \ {c} ELSE sess.cleanup \cup {c}
  BY <1>2, <1>4, RemovedFields
<1>7. /\ closing' \in Closes /\ closing'.stage = "removing" /\ closing'.pending = closing.pending \ {c}
      /\ ~ closing'.failed => ~ closing.failed /\ x[2].code \in {"ok", "not_found"}
  BY <1>2, <1>3, <1>4 DEF Closes
<1>8. /\ CallOK' /\ AnswerOK' /\ RebindOK' /\ WritesOK' /\ AckOK' /\ LostOK'
      /\ RequestOK(op.request)' /\ \A q \in late' : RequestOK(q)' /\ q.verb # "none"
  BY <1>1, <1>3, <1>5, <1>6, ServiceMoves
<1>9. \A d \in ghost.known : service'[d].state # "none" /\ (Alive(d)' => Alive(d))
  BY <1>5, Grows
<1>10. x[2].code \in {"ok", "not_found"} => ~ Alive(c)'
  <2>1. CASE x[2].code = "ok"
    BY <1>1, <1>5, <2>1 DEF Effect, Told, Alive
  <2>2. CASE x[2].code = "not_found"
    BY <1>1, <1>5, <2>2 DEF Effect, Alive
  <2> QED BY <2>1, <2>2
<1>11. c \in ghost.known /\ op = Free
  BY <1>3 DEF IInv, KnownOK, CloseOK
<1>12. KnownOK'
  <2>1. sess'.cleanup \subseteq ghost.known
    BY <1>6, <1>11 DEF IInv, KnownOK
  <2>2. \A d \in ghost.known : service'[d].state # "none" /\ (Alive(d)' => d \in sess'.cleanup)
    BY <1>6, <1>9, <1>10 DEF IInv, KnownOK
  <2>3. op'.kind # "open"
    BY <1>3, <1>11, FreeFields
  <2> QED BY <1>3, <1>6, <1>7, <2>1, <2>2, <2>3 DEF IInv, KnownOK, Alive
<1>13. CloseOK'
  <2>1. ~ closing'.failed => \A d \in ghost.known : Alive(d)' => d \in closing'.pending
    BY <1>3, <1>7, <1>9, <1>10 DEF IInv, CloseOK
  <2> QED BY <1>3, <1>6, <1>7, <1>11, <2>1 DEF IInv, CloseOK, Alive
<1>14. Typed'
  BY <1>3, <1>4, <1>5, <1>6, <1>7 DEF Typed, Effect
<1> QED BY <1>8, <1>12, <1>13, <1>14 DEF IInv

(* The request of the running operation is executed.                        *)
LEMMA ExecuteStep ==
  ASSUME IInv, Execute
  PROVE  IInv'
<1> DEFINE r == op.request
<1>1. PICK x \in Executions(r) : service' = x[1] /\ op' = [op EXCEPT !.answer = x[2]]
  BY DEF Execute
<1> DEFINE a == x[2]
<1>2. /\ late' = late /\ sess' = sess /\ closing' = closing /\ bodies' = bodies /\ ghost' = ghost
      /\ r.verb # "none" /\ op.answer.code = "none"
  BY DEF Execute
<1>3. Typed /\ op \in Operations /\ sess \in Sessions /\ ghost \in Histories /\ r \in Requests /\ late \subseteq Requests
  BY DEF IInv, Typed, Operations
<1>4. ghost.known \subseteq Contexts /\ sess.revision \in Nat
  BY <1>3 DEF Histories, Sessions
<1>5. Effect(r, service', a)
  BY <1>1, <1>2, <1>3, Executed
<1>6. service \in [Contexts -> Records] /\ service' \in [Contexts -> Records] /\ a \in Answers
  BY <1>3, <1>5 DEF Typed, Effect
<1>7. /\ op' \in Operations /\ op'.kind = op.kind /\ op'.request = r /\ op'.answer = a /\ op'.next = op.next
      /\ op'.error = op.error
  BY <1>1, <1>3, <1>6 DEF Operations
<1> HIDE DEF a
<1>8. \A c \in Contexts : /\ service[c].revision \in Nat /\ service'[c].revision \in Nat
                          /\ service[c].revision <= service'[c].revision
                          /\ Kept(service', c) \/ Wrote(r, service', a, c)
  BY <1>5, <1>6, Grows DEF Records, Effect
<1>9. op.kind # "none" /\ op # Free
  BY <1>2, FreeFields DEF IInv, CallOK
<1>10. KnownOK' /\ CloseOK'
  BY <1>2, <1>5, <1>7, <1>9, ServiceKeepsOwned
<1>11. CallOK'
  BY <1>2, <1>7, <1>9 DEF IInv, CallOK
<1>12. a.code = "ok" => Told(r, service', a)
  BY <1>5 DEF Effect
<1>13. AnswerOK'
  <2>1. a.code = "ok" /\ r.verb = "create" => a.ctx \notin ghost.known /\ service'[a.ctx].state # "none"
    BY <1>12 DEF Told, IInv, KnownOK
  <2>2. a.code = "ok" /\ r.verb \in {"set", "import"} => a.revision = r.expected + 1 /\ r.content \subseteq a.jar
    BY <1>12 DEF Told, Wrote
  <2>3. a.code = "ok" /\ r.verb = "delete" => ~ Alive(r.ctx)'
    BY <1>7, <1>12 DEF Told, Alive
  <2>4. ASSUME a.code = "ok", r.verb # "create", r.ctx = sess.ctx PROVE sess.revision <= a.revision
    <3>1. a.ctx = sess.ctx /\ sess.ctx \in Contexts /\ a.revision = service'[sess.ctx].revision
      BY <1>12, <2>4 DEF Told, Alive
    <3> QED BY <1>4, <1>8, <3>1 DEF IInv, AckOK
  <2>5. a.code = "not_found" => r.verb # "create" /\ ~ Alive(r.ctx)'
    BY <1>5, <1>7 DEF Effect, Alive
  <2>6. a.code = "ok" => /\ a.ctx \in Contexts /\ a.revision <= service'[a.ctx].revision
                         /\ r.verb # "create" => a.ctx = r.ctx
    BY <1>8, <1>12 DEF Told
  <2> QED BY <1>2, <1>7, <2>1, <2>2, <2>3, <2>4, <2>5, <2>6 DEF AnswerOK
<1>14. Alive(sess.ctx)' => Alive(sess.ctx)
  BY <1>2, <1>5, Grows DEF Alive
<1>15. ghost.acked \subseteq Promised
  BY DEF Promised
<1>16. op.kind = "rebind" /\ r.verb = "import" => op.next = r.ctx /\ r.ctx \in Contexts /\ r.ctx # sess.ctx
  BY <1>4 DEF IInv, CallOK
<1>17. RebindOK'
  <2>1. ASSUME r.verb = "select", a.code = "ok" PROVE ghost.acked \subseteq a.jar
    <3>1. r.ctx = sess.ctx /\ Alive(sess.ctx) /\ a.jar = service'[sess.ctx].jar /\ sess.ctx \in Contexts
      BY <1>12, <2>1 DEF Told, IInv, CallOK
    <3>2. Kept(service', sess.ctx)
      BY <1>8, <2>1, <3>1 DEF Wrote
    <3> QED BY <1>15, <3>1, <3>2 DEF Kept, IInv, AckOK
  <2>2. ASSUME op.kind = "rebind", r.verb = "import", a.code = "ok" PROVE r.content \subseteq service'[op.next].jar
    BY <1>12, <1>16, <2>2 DEF Told, Wrote
  <2> QED BY <1>2, <1>7, <2>1, <2>2 DEF IInv, RebindOK
<1>18. WritesOK'
  <2>1. r.content \subseteq 1..ghost.started
    BY DEF IInv, RequestOK
  <2>2. \A c \in Contexts : service'[c].jar \subseteq 1..ghost.started
    BY <1>8, <2>1 DEF IInv, WritesOK, Kept, Wrote
  <2>3. a.jar \subseteq 1..ghost.started
    <3>1. CASE a.code = "ok"
      BY <1>12, <2>2, <3>1 DEF Told
    <3>2. CASE a.code # "ok"
      BY <1>5, <3>2 DEF Effect
    <3> QED BY <3>1, <3>2
  <2>4. a.code # "none"
    BY <1>5 DEF Effect
  <2> QED BY <1>2, <1>7, <2>2, <2>3, <2>4 DEF WritesOK
<1>19. AckOK'
  <2> DEFINE New == a.code = "ok" /\ op.kind \in {"set", "import", "stream"} /\ r.content \subseteq a.jar
  <2>1. Promised' = ghost.acked \cup (IF New THEN r.content ELSE {})
    BY <1>2, <1>7 DEF Promised
  <2>2. New => r.ctx = sess.ctx /\ r.verb # "create" /\ sess.ctx \in Contexts /\ a.jar = service'[sess.ctx].jar
    BY <1>4, <1>12 DEF Told, IInv, CallOK
  <2>3. ASSUME Alive(sess.ctx) PROVE ghost.acked \subseteq service'[sess.ctx].jar
    <3>1. sess.ctx \in Contexts /\ ghost.acked \subseteq service[sess.ctx].jar
      BY <1>15, <2>3 DEF IInv, AckOK, Alive
    <3>2. CASE Kept(service', sess.ctx)
      BY <3>1, <3>2 DEF Kept
    <3>3. CASE Wrote(r, service', a, sess.ctx)
      <4>1. CASE r.verb # "import"
        BY <3>1, <3>3, <4>1 DEF Wrote
      <4>2. CASE r.verb = "import"
        <5>1. op.kind \in Kinds
          BY <1>3 DEF Operations
        <5>2. op.kind = "import"
          BY <1>9, <1>16, <3>3, <4>2, <5>1 DEF Kinds, IInv, CallOK, Wrote
        <5> QED BY <5>2 DEF IInv, AckOK
      <4> QED BY <4>1, <4>2
    <3> QED BY <1>8, <3>1, <3>2, <3>3
  <2>4. Alive(sess.ctx)' => Promised' \subseteq service'[sess.ctx].jar
    BY <1>14, <2>1, <2>2, <2>3
  <2>5. ASSUME Promised' # {}, NEW q \in late, q.verb = "import", q.ctx = sess.ctx
        PROVE  q.expected < service'[q.ctx].revision
    <3>1. q.expected \in Nat /\ q.ctx \in Contexts /\ q.expected <= service[q.ctx].revision
      BY <1>3, <1>4, <2>5 DEF Requests, IInv, RequestOK
    <3>2. CASE ghost.acked # {}
      <4>1. q.expected < service[q.ctx].revision
        BY <1>15, <2>5, <3>2 DEF IInv, AckOK
      <4> QED BY <1>8, <3>1, <4>1
    <3>3. CASE New
      <4>1. Wrote(r, service', a, sess.ctx)
        <5>1. CASE op.kind \in {"set", "import"}
          BY <1>12, <2>2, <3>3, <5>1 DEF Told, IInv, CallOK
        <5>2. CASE op.kind = "stream"
          <6>1. r.content = {ghost.started} /\ ghost.started \notin service[sess.ctx].jar
            BY <1>2, <2>2, <3>3, <5>2 DEF IInv, WritesOK
          <6> QED BY <1>8, <2>2, <3>3, <6>1 DEF Kept
        <5> QED BY <3>3, <5>1, <5>2
      <4>2. service'[q.ctx].revision = service[q.ctx].revision + 1
        BY <2>5, <4>1 DEF Wrote
      <4> QED BY <1>8, <3>1, <4>2
    <3> QED BY <2>1, <2>5, <3>2, <3>3
  <2>6. sess.ctx \in Contexts => sess.revision <= service'[sess.ctx].revision
    BY <1>4, <1>8 DEF IInv, AckOK
  <2> QED BY <1>2, <1>7, <2>4, <2>5, <2>6 DEF IInv, AckOK, Alive
<1>20. LostOK'
  BY <1>2, <1>14 DEF IInv, LostOK, Alive
<1>21. \A q \in Requests : RequestOK(q) => RequestOK(q)'
  <2>1. \A q \in Requests : q.expected \in Nat
    BY DEF Requests
  <2> QED BY <1>2, <1>4, <1>8, <2>1 DEF RequestOK
<1>22. RequestOK(r)' /\ \A q \in late' : RequestOK(q)' /\ q.verb # "none"
  BY <1>2, <1>3, <1>7, <1>21 DEF IInv, RequestOK
<1>23. Typed'
  BY <1>2, <1>3, <1>6, <1>7 DEF Typed
<1> QED BY <1>7, <1>10, <1>11, <1>13, <1>17, <1>18, <1>19, <1>20, <1>22, <1>23 DEF IInv

-----------------------------------------------------------------------------
(* Steps that give the permit back.                                         *)

(* An abandoned request joins the late ones, or never reaches the service.  *)
LEMMA Abandoned ==
  ASSUME NEW R, Abandon(R)
  PROVE  late' \subseteq late \cup R
BY DEF Abandon

(* When the permit is given back, it is enough to look at what is owned, at *)
(* the acknowledged writes and at the revision.                             *)
LEMMA PermitReturned ==
  ASSUME IInv, op' = Free, service' = service, late' \subseteq late \cup Underway(op),
         sess' \in Sessions, closing' \in Closes, ghost' \in Histories, bodies' \in [Contexts -> 0..MaxBodies],
         ghost'.started = ghost.started, ghost.known \subseteq ghost'.known, ~ ghost'.alarm,
         ghost'.acked \subseteq Promised, sess'.ctx = sess.ctx \/ ghost'.acked = {},
         sess'.ctx \in Contexts => sess'.revision <= service[sess'.ctx].revision,
         KnownOK', CloseOK', LostOK'
  PROVE  IInv'
<1>1. /\ op' \in Operations /\ op'.kind = "none" /\ op'.request.verb = "none" /\ op'.answer.code = "none"
      /\ op'.answer.jar = {} /\ op'.request.content = {}
  BY FreeFields
<1>2. /\ service \in [Contexts -> Records] /\ late \subseteq Requests /\ op.request \in Requests /\ op.kind \in Kinds
  BY DEF IInv, Typed, Operations
<1>3. \A q \in late' : \/ q \in late
                       \/ q = op.request /\ op.answer.code = "none" /\ op.request.verb # "none"
  BY DEF Underway
<1>4. Typed'
  BY <1>1, <1>2, <1>3 DEF Typed
<1>5. CallOK' /\ AnswerOK' /\ RebindOK'
  BY <1>1 DEF CallOK, AnswerOK, RebindOK
<1>6. WritesOK'
  BY <1>1 DEF IInv, WritesOK
<1>7. \A q : RequestOK(q) => RequestOK(q)'
  BY DEF RequestOK
<1>8. RequestOK(op.request)' /\ \A q \in late' : RequestOK(q)' /\ q.verb # "none"
  BY <1>1, <1>3, <1>7 DEF IInv, RequestOK
<1>9. AckOK'
  <2>1. Promised' = ghost'.acked
    BY <1>1 DEF Promised
  <2>2. Alive(sess.ctx)' => ghost'.acked \subseteq service[sess'.ctx].jar
    BY DEF IInv, AckOK, Alive
  <2>3. ASSUME ghost'.acked # {}, NEW q \in late', q.verb = "import", q.ctx = sess'.ctx
        PROVE  q.expected < service[q.ctx].revision
    <3>1. sess'.ctx = sess.ctx /\ Promised # {}
      BY <2>3
    <3>2. CASE q \in late
      BY <2>3, <3>1, <3>2 DEF IInv, AckOK
    <3>3. CASE q = op.request /\ op.answer.code = "none" /\ op.request.verb # "none"
      <4>1. Promised = ghost.acked
        BY <3>3 DEF Promised
      <4>2. op.kind = "import"
        BY <1>2, <2>3, <3>1, <3>3, FreeFields DEF Kinds, IInv, CallOK
      <4> QED BY <3>1, <4>1, <4>2 DEF IInv, AckOK
    <3> QED BY <1>3, <3>2, <3>3
  <2> QED BY <1>1, <2>1, <2>2, <2>3 DEF AckOK
<1> QED BY <1>4, <1>5, <1>6, <1>8, <1>9 DEF IInv

(* Nothing that was owned is forgotten; the close is where it was, or has   *)
(* just begun.                                                              *)
LEMMA OwnsMore ==
  ASSUME IInv, op' = Free, service' = service,
         ghost'.known = ghost.known,
         sess'.ctx = sess.ctx, sess'.cleanup \subseteq ghost.known,
         \A c \in ghost.known : Alive(c) /\ c \in sess.cleanup => c \in sess'.cleanup,
         \/ closing' = closing /\ (sess'.state = sess.state \/ (op.kind = "open" /\ sess'.state = "failed"))
         \/ /\ closing'.stage = "stopping" /\ closing'.pending \subseteq ghost.known
            /\ sess'.state = "closed" /\ sess.state \in {"open", "closed"}
  PROVE  KnownOK' /\ CloseOK'
<1>1. op'.kind = "none"
  BY FreeFields
<1>2. KnownOK'
  BY <1>1 DEF IInv, KnownOK, Alive
<1>3. CloseOK'
  BY DEF IInv, KnownOK, CloseOK, Alive
<1> QED BY <1>2, <1>3

(* What an invariant state says of an answer that was good.                 *)
LEMMA GoodAnswer ==
  ASSUME IInv, op.answer.code = "ok"
  PROVE  /\ op.answer.ctx \in Contexts /\ op.answer.ctx \in 0..MaxContexts
         /\ op.answer.revision \in Nat /\ sess.revision \in Nat
         /\ op.request.verb # "create" => op.answer.ctx = op.request.ctx
         /\ op.answer.revision <= service[op.answer.ctx].revision
         /\ op.request.verb # "create" => ~ Regresses(op.answer.revision, op.request.ctx)
         /\ op.request.verb \in {"set", "import"} => op.answer.revision = op.request.expected + 1
<1>1. op.answer.revision \in Nat /\ sess.revision \in Nat
  BY DEF IInv, Typed, Operations, Answers, Sessions
<1>2. op.answer.ctx \in Contexts /\ op.answer.ctx \in 0..MaxContexts
  BY SdkSessionAssumption DEF IInv, AnswerOK, Contexts
<1> QED BY <1>1, <1>2 DEF IInv, AnswerOK, Regresses

(* The calls that end with a revision: get, set, import, stream.            *)
LEMMA RevisionStep ==
  ASSUME IInv, op.answer.code = "ok", op.kind \in {"get", "set", "import", "stream"},
         op' = Free, sess' = ApplyRevision(sess, op.answer.revision, op.request.ctx),
         bodies' \in [Contexts -> 0..MaxBodies], UNCHANGED <<closing, late, service>>,
         ghost' \in Histories, ghost'.started = ghost.started, ghost'.known = ghost.known, ~ ghost'.alarm,
         ghost'.misjudged = ghost.misjudged, ghost'.acked \subseteq Promised
  PROVE  IInv'
<1>1. /\ sess' \in Sessions /\ sess'.state = sess.state /\ sess'.ctx = sess.ctx /\ sess'.cleanup = sess.cleanup
      /\ sess'.lost = sess.lost
      /\ sess'.revision = IF sess.ctx = op.request.ctx THEN op.answer.revision ELSE sess.revision
  <2>1. sess \in Sessions /\ op.answer.revision \in Nat
    BY GoodAnswer DEF IInv, Typed
  <2> QED BY <2>1, ApplyFields
<1>2. op.request.verb # "create" /\ op.request.ctx = sess.ctx
  BY DEF IInv, CallOK
<1>3. sess'.revision <= service[sess'.ctx].revision
  BY <1>1, <1>2, GoodAnswer
<1>4. closing' \in Closes
  BY DEF IInv, Typed
<1>5. KnownOK' /\ CloseOK'
  BY <1>1, OwnsMore DEF IInv, KnownOK
<1>6. LostOK'
  BY <1>1 DEF IInv, LostOK, Alive
<1> QED BY <1>1, <1>3, <1>4, <1>5, <1>6, PermitReturned

(* getCookies and exportCookies.                                            *)
LEMMA GotStep ==
  ASSUME IInv, Got
  PROVE  IInv'
<1>1. /\ op.answer.code = "ok" /\ op.kind = "get" /\ op.request.verb = "select"
  BY DEF Got, Good, Answered
<1>2. ghost' = [ghost EXCEPT !.alarm = @ \/ Regresses(op.answer.revision, op.request.ctx)]
  BY DEF Got
<1>3. ~ Regresses(op.answer.revision, op.request.ctx) /\ ~ ghost.alarm /\ ghost \in Histories
  BY <1>1, GoodAnswer DEF IInv, AckOK, Typed
<1>4. /\ ghost' \in Histories /\ ghost'.started = ghost.started /\ ghost'.known = ghost.known
      /\ ghost'.misjudged = ghost.misjudged /\ ghost'.acked = ghost.acked
  BY <1>2 , <1>3 DEF Histories
<1>5. ~ ghost'.alarm
  BY <1>2, <1>3 DEF Histories
<1>6. bodies' \in [Contexts -> 0..MaxBodies] /\ ghost'.acked \subseteq Promised
  BY <1>4 DEF Got, IInv, Typed, Promised
<1> QED BY <1>1, <1>4, <1>5, <1>6, RevisionStep DEF Got

(* setCookies and importCookies.                                            *)
LEMMA WrittenStep ==
  ASSUME IInv, NEW kind \in {"set", "import"}, Written(kind)
  PROVE  IInv'
<1>1. op.answer.code = "ok" /\ op.kind = kind /\ op.request.verb = kind
  BY DEF Written, Good, Answered
<1>2. ghost' = [ghost EXCEPT !.alarm = @ \/ op.answer.revision # op.request.expected + 1,
                             !.acked = @ \cup op.request.content]
  BY DEF Written
<1>3. op.answer.revision = op.request.expected + 1 /\ ~ ghost.alarm /\ ghost \in Histories
  BY <1>1, GoodAnswer DEF IInv, AckOK, Typed
<1>4. op.request.content \in Contents
  BY DEF IInv, Typed, Operations, Requests
<1>5. /\ ghost' \in Histories /\ ghost'.started = ghost.started /\ ghost'.known = ghost.known
      /\ ghost'.misjudged = ghost.misjudged /\ ghost'.acked = ghost.acked \cup op.request.content
  BY <1>2, <1>3, <1>4 DEF Histories, Contents
<1>6. ~ ghost'.alarm
  BY <1>2, <1>3 DEF Histories
<1>7. bodies' \in [Contexts -> 0..MaxBodies]
  BY DEF Written, IInv, Typed
<1>8. ghost'.acked \subseteq Promised
  BY <1>1, <1>5 DEF IInv, AnswerOK, Promised
<1> QED BY <1>1, <1>5, <1>6, <1>7, <1>8, RevisionStep DEF Written

(* stream: the head of an exchange.                                         *)
LEMMA HeadedStep ==
  ASSUME IInv, Headed
  PROVE  IInv'
<1>1. op.answer.code = "ok" /\ op.kind = "stream" /\ op.request.verb = "exchange"
  BY DEF Headed, Good, Answered
<1> DEFINE told == IF op.request.content \subseteq op.answer.jar THEN ghost.acked \cup op.request.content ELSE ghost.acked
<1>2. ghost' = [ghost EXCEPT !.alarm = @ \/ Regresses(op.answer.revision, op.request.ctx), !.acked = told]
  BY DEF Headed
<1>3. ~ Regresses(op.answer.revision, op.request.ctx) /\ ~ ghost.alarm /\ ghost \in Histories
  BY <1>1, GoodAnswer DEF IInv, AckOK, Typed
<1>4. told \in Contents /\ told \subseteq Promised
  <2>1. op.request.content \in Contents /\ ghost.acked \in Contents
    BY DEF IInv, Typed, Operations, Requests, Histories
  <2> QED BY <1>1, <2>1 DEF Promised, Contents
<1> HIDE DEF told
<1>5. /\ ghost' \in Histories /\ ghost'.started = ghost.started /\ ghost'.known = ghost.known
      /\ ghost'.misjudged = ghost.misjudged /\ ghost'.acked = told
  BY <1>2, <1>3, <1>4 DEF Histories
<1>6. ~ ghost'.alarm
  BY <1>2, <1>3 DEF Histories
<1>7. bodies' \in [Contexts -> 0..MaxBodies]
  <2>1. bodies \in [Contexts -> 0..MaxBodies] /\ op.request.ctx \in Contexts
    BY <1>1, GoodAnswer DEF IInv, Typed
  <2>2. bodies[op.request.ctx] + 1 \in 0..MaxBodies
    BY <2>1, SdkSessionAssumption DEF Headed
  <2> QED BY <2>1, <2>2 DEF Headed
<1> QED BY <1>1, <1>4, <1>5, <1>6, <1>7, RevisionStep DEF Headed

(* openSession: the context exists and is owned.                            *)
LEMMA OpenedStep ==
  ASSUME IInv, NEW unwanted \in BOOLEAN, Opened(unwanted)
  PROVE  IInv'
<1> DEFINE c == op.answer.ctx
<1>1. /\ op.answer.code = "ok" /\ op.kind = "open" /\ op.request.verb = "create" /\ op' = Free
      /\ UNCHANGED <<bodies, late, service>>
  BY DEF Opened, Good, Answered
<1>2. /\ sess \in Sessions /\ closing \in Closes /\ ghost \in Histories /\ bodies \in [Contexts -> 0..MaxBodies]
  BY DEF IInv, Typed
<1>3. /\ c \in Contexts /\ c \in 0..MaxContexts /\ op.answer.revision \in Nat
      /\ op.answer.revision <= service[c].revision
  BY <1>1, GoodAnswer
<1>4. /\ ghost.known = {} /\ ghost.acked = {} /\ ~ sess.lost /\ closing.stage = "none" /\ closing.pending = {}
      /\ ~ ghost.alarm /\ service[c].state # "none"
  BY <1>1 DEF IInv, KnownOK, AckOK, AnswerOK
<1>5. sess' = [sess EXCEPT !.state = IF unwanted THEN "closed" ELSE "open", !.ctx = c,
                           !.revision = op.answer.revision, !.cleanup = {c}]
  BY DEF Opened
<1>6. /\ sess' \in Sessions /\ sess'.state = IF unwanted THEN "closed" ELSE "open"
      /\ sess'.ctx = c /\ sess'.revision = op.answer.revision /\ sess'.cleanup = {c} /\ sess'.lost = sess.lost
  BY <1>2, <1>3, <1>5 DEF Sessions
<1>7. ghost' = [ghost EXCEPT !.known = {c}]
  BY <1>4 DEF Opened
<1>8. /\ ghost' \in Histories /\ ghost'.known = {c} /\ ghost'.acked = {} /\ ghost'.started = ghost.started
      /\ ~ ghost'.alarm
  BY <1>2, <1>3, <1>4, <1>7 DEF Histories
<1>9. /\ closing' \in Closes /\ closing'.pending = {}
      /\ closing'.stage = IF unwanted THEN "stopping" ELSE "none"
  <2>1. CASE unwanted
    <3>1. closing' = [closing EXCEPT !.stage = "stopping", !.tries = @ + 1]
      BY <2>1 DEF Opened
    <3>2. closing.tries + 1 \in Nat
      BY <1>2 DEF Closes
    <3> QED BY <1>2, <1>4, <2>1, <3>1, <3>2 DEF Closes
  <2>2. CASE ~ unwanted
    BY <1>2, <1>4, <2>2 DEF Opened
  <2> QED BY <2>1, <2>2
<1>10. KnownOK'
  <2>1. op'.kind = "none"
    BY <1>1, FreeFields
  <2> QED BY <1>1, <1>4, <1>6, <1>8, <1>9, <2>1 DEF KnownOK
<1>11. CloseOK'
  BY <1>6, <1>9 DEF CloseOK
<1>12. LostOK'
  BY <1>4, <1>6 DEF LostOK
<1> HIDE DEF c
<1> QED BY <1>1, <1>2, <1>3, <1>4, <1>6, <1>8, <1>9, <1>10, <1>11, <1>12, PermitReturned

(* The contexts that a change of identity handles are known.                *)
LEMMA RebindContexts ==
  ASSUME IInv, op.kind = "rebind"
  PROVE  /\ op.request.verb \in {"import", "delete"} => op.request.ctx \in ghost.known /\ op.request.ctx \in Contexts
         /\ op.request.verb = "import" => op.next = op.request.ctx
         /\ sess.ctx \in ghost.known /\ sess.ctx \in Contexts
<1>1. ghost.known \subseteq Contexts
  BY DEF IInv, Typed, Histories
<1> QED BY <1>1 DEF IInv, CallOK

(* The end of a change of identity: the deletion was answered.              *)
LEMMA RebindRemovedStep ==
  ASSUME IInv, RebindRemoved
  PROVE  IInv'
<1> DEFINE c == op.request.ctx
           s == Removed(sess, op.answer.code, c)
<1>1. /\ op.kind = "rebind" /\ op.request.verb = "delete" /\ op' = Free
      /\ UNCHANGED <<closing, bodies, late, service>>
      /\ sess' = MarkLost(s, op.error, s.ctx)
      /\ ghost' = [ghost EXCEPT !.misjudged = @ \/ op.error = "not_found"]
  BY DEF RebindRemoved, Answered, Thrown
<1>2. /\ sess \in Sessions /\ closing \in Closes /\ ghost \in Histories /\ bodies \in [Contexts -> 0..MaxBodies]
  BY DEF IInv, Typed
<1>3. c \in ghost.known /\ c \in Contexts
  BY <1>1, RebindContexts
<1>4. /\ s \in Sessions /\ s.state = sess.state /\ s.ctx = sess.ctx /\ s.lost = sess.lost /\ s.revision = sess.revision
      /\ s.cleanup = IF op.answer.code \in {"ok", "not_found"} THEN sess.cleanup \ {c} ELSE sess.cleanup \cup {c}
  <2>1. CASE op.answer.code \in {"ok", "not_found"}
    <3>1. s = [sess EXCEPT !.cleanup = @ \ {c}]
      BY <2>1 DEF Removed
    <3> QED BY <1>2, <1>3, <2>1, <3>1 DEF Sessions
  <2>2. CASE op.answer.code \notin {"ok", "not_found"}
    <3>1. s = [sess EXCEPT !.cleanup = @ \cup {c}]
      BY <2>2 DEF Removed
    <3> QED BY <1>2, <1>3, <2>2, <3>1 DEF Sessions
  <2> QED BY <2>1, <2>2
<1> HIDE DEF s
<1>5. /\ sess' \in Sessions /\ sess'.state = s.state /\ sess'.ctx = s.ctx /\ sess'.cleanup = s.cleanup
      /\ sess'.revision = s.revision /\ (sess'.lost => s.lost \/ op.error = "not_found")
  BY <1>1, <1>4, MarkFields
<1>6. /\ ghost' \in Histories /\ ghost'.known = ghost.known /\ ghost'.acked = ghost.acked
      /\ ghost'.started = ghost.started /\ ghost'.alarm = ghost.alarm
  BY <1>1, <1>2 DEF Histories
<1>7. ghost'.misjudged <=> ghost.misjudged \/ op.error = "not_found"
  BY <1>1, <1>2 DEF Histories
<1>8. op.answer.code \in {"ok", "not_found"} => ~ Alive(c)
  BY <1>1 DEF IInv, AnswerOK
<1>9. KnownOK' /\ CloseOK'
  <2>1. sess'.cleanup \subseteq ghost.known
    BY <1>3, <1>4, <1>5 DEF IInv, KnownOK
  <2>2. \A d \in ghost.known : Alive(d) /\ d \in sess.cleanup => d \in sess'.cleanup
    BY <1>4, <1>5, <1>8
  <2> QED BY <1>1, <1>4, <1>5, <1>6, <2>1, <2>2, OwnsMore
<1>10. LostOK'
  BY <1>1, <1>4, <1>5, <1>7 DEF IInv, LostOK, Alive
<1>11. sess'.ctx \in Contexts => sess'.revision <= service[sess'.ctx].revision
  BY <1>4, <1>5 DEF IInv, AckOK
<1>12. ghost'.acked \subseteq Promised /\ ~ ghost'.alarm
  BY <1>6 DEF Promised, IInv, AckOK
<1> QED BY <1>1, <1>2, <1>4, <1>5, <1>6, <1>9, <1>10, <1>11, <1>12, PermitReturned

(* The operation in progress is rejected: by its deadline, its caller or a  *)
(* close.                                                                   *)
LEMMA Rejected ==
  ASSUME IInv, op' = Free, service' = service, Abandon(Underway(op)),
         NEW s \in Sessions, s.ctx = sess.ctx, s.revision = sess.revision, s.cleanup = sess.cleanup, s.lost = sess.lost,
         sess' = Aborting(op, s),
         ghost' = [ghost EXCEPT !.misjudged = @ \/ StagingLost(op)],
         bodies' \in [Contexts -> 0..MaxBodies], closing' \in Closes,
         \/ closing' = closing /\ s.state = sess.state
         \/ /\ closing'.stage = "stopping" /\ closing'.pending \subseteq ghost.known
            /\ s.state = "closed" /\ sess.state \in {"open", "closed"}
  PROVE  IInv'
<1>1. op \in Operations /\ ghost \in Histories
  BY DEF IInv, Typed
<1>2. /\ sess' \in Sessions /\ sess'.ctx = s.ctx /\ sess'.revision = s.revision
      /\ sess'.state = IF op.kind = "open" THEN "failed" ELSE s.state
      /\ s.cleanup \subseteq sess'.cleanup
      /\ \A c \in sess'.cleanup : \/ c \in s.cleanup
                                  \/ op.kind = "rebind" /\ op.request.verb = "import" /\ c = op.next
                                  \/ op.kind = "rebind" /\ op.request.verb = "delete" /\ c = op.request.ctx
      /\ sess'.lost => s.lost \/ StagingLost(op)
  <2>1. /\ op.kind = "rebind" /\ op.request.verb = "import" => op.next \in Contexts
        /\ op.kind = "rebind" /\ op.request.verb = "delete" => op.request.ctx \in Contexts
    BY RebindContexts
  <2> QED BY <1>1, <2>1, AbortFields
<1>3. /\ ghost' \in Histories /\ ghost'.known = ghost.known /\ ghost'.acked = ghost.acked
      /\ ghost'.started = ghost.started /\ ghost'.alarm = ghost.alarm
  BY <1>1 DEF Histories
<1>4. ghost'.misjudged <=> ghost.misjudged \/ StagingLost(op)
  BY <1>1 DEF Histories
<1>5. KnownOK' /\ CloseOK'
  <2>1. sess'.cleanup \subseteq ghost.known
    BY <1>2, RebindContexts DEF IInv, KnownOK
  <2>2. \A c \in ghost.known : Alive(c) /\ c \in sess.cleanup => c \in sess'.cleanup
    BY <1>2
  <2>3. sess.state \in {"open", "closed"} => op.kind # "open"
    BY DEF IInv, KnownOK
  <2> QED BY <1>2, <1>3, <2>1, <2>2, <2>3, OwnsMore
<1>6. LostOK'
  BY <1>2, <1>4 DEF IInv, LostOK, Alive
<1>7. sess'.ctx \in Contexts => sess'.revision <= service[sess'.ctx].revision
  BY <1>2 DEF IInv, AckOK
<1>8. ghost'.acked \subseteq Promised /\ ~ ghost'.alarm
  BY <1>3 DEF Promised, IInv, AckOK
<1>9. late' \subseteq late \cup Underway(op)
  BY Abandoned
<1> QED BY <1>2, <1>3, <1>5, <1>6, <1>7, <1>8, <1>9, PermitReturned

(* The deadline of an operation, or its caller, aborts it.                  *)
LEMMA AbortStep ==
  ASSUME IInv, Abort
  PROVE  IInv'
<1>1. sess \in Sessions /\ closing' \in Closes /\ closing' = closing /\ bodies' \in [Contexts -> 0..MaxBodies]
  BY DEF IInv, Typed, Abort
<1> QED BY <1>1, Rejected DEF Abort

(* The drain's time is over.                                                *)
LEMMA DrainStep ==
  ASSUME IInv, DrainEnds
  PROVE  IInv'
<1>1. sess \in Sessions /\ closing \in Closes
  BY DEF IInv, Typed
<1>2. closing' \in Closes /\ closing'.stage = "stopping" /\ closing'.pending = closing.pending
  BY <1>1 DEF DrainEnds, Closes
<1>3. bodies' \in [Contexts -> 0..MaxBodies]
  BY SdkSessionAssumption DEF DrainEnds
<1>4. sess.state = "closed" /\ closing.pending \subseteq ghost.known
  BY DEF DrainEnds, IInv, CloseOK, KnownOK
<1> QED BY <1>1, <1>2, <1>3, <1>4, Rejected DEF DrainEnds

-----------------------------------------------------------------------------
(* Steps that leave the operation and the service alone.                    *)

(* They disturb no answer and no promise; a deletion may join the late      *)
(* requests when no operation runs.                                         *)
LEMMA SessionMoves ==
  ASSUME IInv, op' = op, service' = service, ghost' = ghost,
         sess'.ctx = sess.ctx, sess'.revision = sess.revision,
         \A q \in late' : \/ q \in late
                          \/ q \in Requests /\ q.verb = "delete" /\ RequestOK(q) /\ op = Free
  PROVE  /\ CallOK' /\ AnswerOK' /\ RebindOK' /\ WritesOK' /\ AckOK'
         /\ RequestOK(op.request)' /\ \A q \in late' : RequestOK(q)' /\ q.verb # "none"
<1>1. CallOK' /\ AnswerOK'
  BY DEF IInv, CallOK, AnswerOK, Alive
<1>2. \A q : RequestOK(q)' <=> RequestOK(q)
  BY DEF RequestOK
<1>3. RebindOK' /\ WritesOK'
  BY FreeFields DEF IInv, RebindOK, WritesOK
<1>4. AckOK'
  <2>1. Promised' = Promised
    BY DEF Promised
  <2> QED BY <2>1 DEF IInv, AckOK, Alive
<1> QED BY <1>1, <1>2, <1>3, <1>4 DEF IInv, RequestOK

(* close(): the lifetime stops accepting; without a drain what runs is      *)
(* aborted.                                                                 *)
LEMMA CloseStep ==
  ASSUME IInv, NEW drain \in BOOLEAN, Close(drain)
  PROVE  IInv'
<1> DEFINE s == [sess EXCEPT !.state = "closed"]
<1>1. sess \in Sessions /\ closing \in Closes /\ Typed
  BY DEF IInv, Typed
<1>2. closing' \in Closes /\ closing'.stage = "stopping" /\ closing'.pending = {}
  <2>1. closing.tries + 1 \in Nat
    BY <1>1 DEF Closes
  <2> QED BY <2>1 DEF Close, Closes
<1>3. /\ s \in Sessions /\ s.state = "closed" /\ s.ctx = sess.ctx /\ s.revision = sess.revision
      /\ s.cleanup = sess.cleanup /\ s.lost = sess.lost
  BY <1>1 DEF Sessions
<1>4. sess.state \in {"open", "closed"} /\ service' = service
  BY DEF Close
<1>5. CASE drain
  <2>1. sess' = s /\ op' = op /\ bodies' = bodies /\ late' = late /\ ghost' = ghost
    BY <1>5 DEF Close
  <2> HIDE DEF s
  <2>2. /\ CallOK' /\ AnswerOK' /\ RebindOK' /\ WritesOK' /\ AckOK'
        /\ RequestOK(op.request)' /\ \A q \in late' : RequestOK(q)' /\ q.verb # "none"
    BY <1>3, <1>4, <2>1, SessionMoves
  <2>3. KnownOK'
    BY <1>2, <1>3, <1>4, <2>1 DEF IInv, KnownOK, Alive
  <2>4. CloseOK' /\ LostOK'
    BY <1>2, <1>3, <1>4, <2>1 DEF IInv, CloseOK, LostOK, Alive
  <2>5. Typed'
    BY <1>1, <1>2, <1>3, <1>4, <2>1 DEF Typed
  <2> QED BY <2>2, <2>3, <2>4, <2>5 DEF IInv
<1>6. CASE ~ drain
  <2>1. /\ sess' = Aborting(op, s) /\ op' = Free /\ Abandon(Underway(op)) /\ bodies' = [c \in Contexts |-> 0]
        /\ ghost' = [ghost EXCEPT !.misjudged = @ \/ StagingLost(op)]
    BY <1>6 DEF Close
  <2>2. bodies' \in [Contexts -> 0..MaxBodies]
    BY <2>1, SdkSessionAssumption
  <2> HIDE DEF s
  <2> QED BY <1>2, <1>3, <1>4, <2>1, <2>2, Rejected
<1> QED BY <1>5, <1>6

(* The steps of the close that touch nothing else, and the ends of bodies.  *)
LEMMA QuietStep ==
  ASSUME IInv,
         \/ CloseExpires \/ Stopped \/ CloseDone
         \/ \E c \in Contexts, code \in {"ok", "not_found", "other"} : BodyEnds(c, code)
  PROVE  IInv'
<1>1. Typed /\ sess \in Sessions /\ closing \in Closes /\ sess.cleanup \subseteq Contexts
  BY DEF IInv, Typed, Sessions
<1>2. ASSUME op' = op, service' = service, ghost' = ghost, late' = late, sess' = sess, bodies' = bodies,
             closing' \in Closes, closing'.stage # "none" => closing.stage # "none",
             closing'.pending \subseteq ghost.known, CloseOK'
      PROVE  IInv'
  <2>1. /\ CallOK' /\ AnswerOK' /\ RebindOK' /\ WritesOK' /\ AckOK'
        /\ RequestOK(op.request)' /\ \A q \in late' : RequestOK(q)' /\ q.verb # "none"
    BY <1>2, SessionMoves
  <2>2. KnownOK' /\ LostOK'
    BY <1>2 DEF IInv, KnownOK, LostOK, Alive
  <2>3. Typed'
    BY <1>1, <1>2 DEF Typed
  <2> QED BY <1>2, <2>1, <2>2, <2>3 DEF IInv
<1>3. CASE CloseExpires
  <2>1. closing' \in Closes /\ closing'.stage = closing.stage /\ closing'.pending = closing.pending /\ closing'.failed = closing.failed
    BY <1>1, <1>3 DEF CloseExpires, Closes
  <2>2. closing'.pending \subseteq ghost.known
    BY <2>1 DEF IInv, KnownOK
  <2>3. CloseOK'
    BY <1>3, <2>1 DEF CloseExpires, IInv, CloseOK, Alive
  <2> QED BY <1>2, <1>3, <2>1, <2>2, <2>3 DEF CloseExpires
<1>4. CASE Stopped
  <2>1. CASE closing.expired
    <3>1. closing' \in Closes /\ closing'.stage = "failed" /\ closing'.pending = closing.pending
      BY <1>1, <1>4, <2>1 DEF Stopped, Closes
    <3>2. closing'.pending \subseteq ghost.known /\ closing.stage = "stopping"
      BY <1>4, <3>1 DEF IInv, KnownOK, Stopped
    <3>3. CloseOK'
      BY <1>4, <3>1, <3>2 DEF Stopped, IInv, CloseOK
    <3> QED BY <1>2, <1>4, <3>1, <3>2, <3>3 DEF Stopped
  <2>2. CASE ~ closing.expired
    <3>1. closing' \in Closes /\ closing'.stage = "removing" /\ closing'.pending = sess.cleanup
      BY <1>1, <1>4, <2>2 DEF Stopped, Closes
    <3>2. closing'.pending \subseteq ghost.known /\ closing.stage = "stopping" /\ op = Free
      BY <1>4, <3>1 DEF IInv, KnownOK, Stopped
    <3>3. CloseOK'
      BY <1>4, <3>1, <3>2 DEF Stopped, IInv, CloseOK, KnownOK, Alive
    <3> QED BY <1>2, <1>4, <3>1, <3>2, <3>3 DEF Stopped
  <2> QED BY <2>1, <2>2
<1>5. CASE CloseDone
  <2>1. /\ closing' \in Closes /\ closing'.stage = IF closing.failed THEN "failed" ELSE "done"
        /\ closing'.pending = closing.pending
    BY <1>1, <1>5 DEF CloseDone, Closes
  <2>2. closing'.pending \subseteq ghost.known /\ closing.stage = "removing" /\ closing.pending = {}
    BY <1>5, <2>1 DEF IInv, KnownOK, CloseDone
  <2>3. CloseOK'
    BY <1>5, <2>1, <2>2 DEF CloseDone, IInv, CloseOK, Alive
  <2> QED BY <1>2, <1>5, <2>1, <2>2, <2>3 DEF CloseDone
<1>6. ASSUME NEW c \in Contexts, NEW code \in {"ok", "not_found", "other"}, BodyEnds(c, code)
      PROVE  IInv'
  <2>1. /\ op' = op /\ service' = service /\ ghost' = ghost /\ late' = late /\ closing' = closing
        /\ sess' = MarkLost(sess, code, c) /\ bodies' = [bodies EXCEPT ![c] = @ - 1]
        /\ bodies[c] > 0 /\ (code = "not_found" => ~ Alive(c))
    BY <1>6 DEF BodyEnds
  <2>2. /\ sess' \in Sessions /\ sess'.state = sess.state /\ sess'.ctx = sess.ctx /\ sess'.cleanup = sess.cleanup
        /\ sess'.revision = sess.revision
        /\ sess'.lost <=> sess.lost \/ (code = "not_found" /\ sess.ctx = c)
    BY <1>1, <2>1, MarkFields
  <2>3. /\ CallOK' /\ AnswerOK' /\ RebindOK' /\ WritesOK' /\ AckOK'
        /\ RequestOK(op.request)' /\ \A q \in late' : RequestOK(q)' /\ q.verb # "none"
    BY <2>1, <2>2, SessionMoves
  <2>4. KnownOK'
    <3>1. op.kind = "open" => ~ sess'.lost
      <4>1. op.kind = "open" => sess.ctx # c
        BY DEF IInv, KnownOK, Contexts, NoContext
      <4> QED BY <2>2, <4>1 DEF IInv, KnownOK
    <3> QED BY <2>1, <2>2, <3>1 DEF IInv, KnownOK, Alive
  <2>5. CloseOK'
    BY <2>1, <2>2 DEF IInv, CloseOK, Alive
  <2>6. LostOK'
    BY <2>1, <2>2 DEF IInv, LostOK, Alive
  <2>7. bodies' \in [Contexts -> 0..MaxBodies]
    <3>1. bodies \in [Contexts -> 0..MaxBodies]
      BY <1>1 DEF Typed
    <3>2. bodies[c] - 1 \in 0..MaxBodies
      BY <2>1, <3>1, SdkSessionAssumption
    <3> QED BY <2>1, <3>1, <3>2
  <2>8. Typed'
    BY <1>1, <2>1, <2>2, <2>7 DEF Typed
  <2> QED BY <2>3, <2>4, <2>5, <2>6, <2>8 DEF IInv
<1> QED BY <1>3, <1>4, <1>5, <1>6

(* The answer of a deletion of the close is lost.                           *)
LEMMA LosesStep ==
  ASSUME IInv, NEW c \in Contexts, CloseLosesAnswer(c)
  PROVE  IInv'
<1>1. /\ op' = op /\ service' = service /\ ghost' = ghost /\ bodies' = bodies
      /\ closing.stage = "removing" /\ c \in closing.pending
      /\ sess' = Removed(sess, "other", c)
      /\ closing' = [closing EXCEPT !.pending = @ \ {c}, !.failed = TRUE]
      /\ late' \subseteq late \cup {Deletion(c)}
  BY Abandoned DEF CloseLosesAnswer
<1>2. Typed /\ sess \in Sessions /\ closing \in Closes /\ late \subseteq Requests
  BY DEF IInv, Typed
<1>3. op = Free /\ c \in ghost.known
  BY <1>1 DEF IInv, CloseOK, KnownOK
<1>4. /\ sess' \in Sessions /\ sess'.state = sess.state /\ sess'.ctx = sess.ctx /\ sess'.lost = sess.lost
      /\ sess'.revision = sess.revision /\ sess'.cleanup = sess.cleanup \cup {c}
  <2>1. sess' = [sess EXCEPT !.cleanup = @ \cup {c}]
    BY <1>1 DEF Removed
  <2> QED BY <1>2, <2>1 DEF Sessions
<1>5. /\ closing' \in Closes /\ closing'.stage = "removing" /\ closing'.failed
      /\ closing'.pending = closing.pending \ {c}
  BY <1>1, <1>2 DEF Closes
<1>6. Deletion(c) \in Requests /\ Deletion(c).verb = "delete" /\ RequestOK(Deletion(c))
  BY <1>3, DeletionFields DEF RequestOK
<1>7. /\ CallOK' /\ AnswerOK' /\ RebindOK' /\ WritesOK' /\ AckOK'
      /\ RequestOK(op.request)' /\ \A q \in late' : RequestOK(q)' /\ q.verb # "none"
  BY <1>1, <1>3, <1>4, <1>6, SessionMoves
<1>8. KnownOK'
  <2>1. op.kind = "none"
    BY <1>3, FreeFields
  <2> QED BY <1>1, <1>3, <1>4, <1>5, <2>1 DEF IInv, KnownOK, Alive
<1>9. CloseOK' /\ LostOK'
  BY <1>1, <1>3, <1>4, <1>5 DEF IInv, CloseOK, LostOK, Alive
<1>10. Typed'
  BY <1>1, <1>2, <1>4, <1>5, <1>6 DEF Typed
<1> QED BY <1>7, <1>8, <1>9, <1>10 DEF IInv

-----------------------------------------------------------------------------
(* Steps that send the next call, or lose the answer of the present one.    *)

(* The call in progress rejects because its connection failed.              *)
LEMMA ConnectionStep ==
  ASSUME IInv, ConnectionLost
  PROVE  IInv'
<1>1. /\ op.request.verb # "none" /\ op' = [op EXCEPT !.answer = Failure("other")]
      /\ late' \subseteq late \cup Underway(op) /\ UNCHANGED <<sess, closing, bodies, service, ghost>>
  BY Abandoned DEF ConnectionLost
<1>2. Typed /\ op \in Operations /\ op.request \in Requests /\ op.kind \in Kinds
  BY DEF IInv, Typed, Operations
<1>3. Failure("other") \in Answers /\ Failure("other").code = "other" /\ Failure("other").jar = {}
  BY SdkSessionAssumption DEF Failure, NoAnswer, NoContext, Answers, Codes, Contents
<1>4. /\ op' \in Operations /\ op'.kind = op.kind /\ op'.request = op.request /\ op'.next = op.next
      /\ op'.answer.code = "other" /\ op'.answer.jar = {}
  BY <1>1, <1>2, <1>3 DEF Operations
<1>5. op.kind # "none" /\ op # Free
  BY <1>1, FreeFields DEF IInv, CallOK
<1>6. \A q \in late' : q \in late \/ (q = op.request /\ op.answer.code = "none")
  BY <1>1 DEF Underway
<1>7. \A q : RequestOK(q) => RequestOK(q)'
  BY <1>1 DEF RequestOK
<1>8. RequestOK(op.request)' /\ \A q \in late' : RequestOK(q)' /\ q.verb # "none"
  BY <1>1, <1>4, <1>6, <1>7 DEF IInv, RequestOK
<1>9. CallOK'
  BY <1>1, <1>4, <1>5 DEF IInv, CallOK
<1>10. AnswerOK' /\ RebindOK'
  BY <1>1, <1>4 DEF IInv, AnswerOK, RebindOK
<1>11. WritesOK'
  BY <1>1, <1>4 DEF IInv, WritesOK
<1>12. KnownOK' /\ CloseOK' /\ LostOK'
  BY <1>1, <1>4, <1>5 DEF IInv, KnownOK, CloseOK, LostOK, Alive
<1>13. AckOK'
  <2>1. Promised' = ghost.acked /\ ghost.acked \subseteq Promised
    BY <1>1, <1>4 DEF Promised
  <2>2. ASSUME ghost.acked # {}, NEW q \in late', q.verb = "import", q.ctx = sess.ctx
        PROVE  q.expected < service[q.ctx].revision
    <3>1. CASE q \in late
      BY <2>1, <2>2, <3>1 DEF IInv, AckOK
    <3>2. CASE q = op.request
      <4>1. op.kind = "import"
        BY <1>2, <1>5, <2>2, <3>2 DEF Kinds, IInv, CallOK
      <4> QED BY <2>2, <4>1 DEF IInv, AckOK
    <3> QED BY <1>6, <3>1, <3>2
  <2> QED BY <1>1, <1>4, <2>1, <2>2 DEF IInv, AckOK, Alive
<1>14. Typed'
  BY <1>1, <1>2, <1>4, <1>6 DEF Typed
<1> QED BY <1>8, <1>9, <1>10, <1>11, <1>12, <1>13, <1>14 DEF IInv

(* A change of identity sends its next call.                                *)
LEMMA RebindGoesOn ==
  ASSUME IInv, op.kind = "rebind", op' \in Operations, op'.kind = "rebind", op'.answer = NoAnswer,
         UNCHANGED <<closing, bodies, late, service>>,
         sess' \in Sessions, sess'.state = sess.state,
         ghost' \in Histories, ghost'.acked = ghost.acked, ghost'.started = ghost.started,
         ghost.known \subseteq ghost'.known, ~ ghost'.alarm,
         \/ sess'.ctx = sess.ctx
         \/ /\ Alive(sess'.ctx) => ghost.acked \subseteq service[sess'.ctx].jar
            /\ \A q \in late : q.ctx # sess'.ctx,
         sess'.ctx \in Contexts => sess'.revision <= service[sess'.ctx].revision,
         RequestOK(op.request)', CallOK', RebindOK', LostOK',
         sess'.cleanup \subseteq ghost'.known, sess'.ctx \in ghost'.known,
         \A c \in ghost'.known : service[c].state # "none" /\ (Alive(c) => c \in sess'.cleanup)
  PROVE  IInv'
<1>1. NoAnswer.code = "none" /\ NoAnswer.jar = {}
  BY DEF NoAnswer
<1>2. AnswerOK' /\ WritesOK'
  BY <1>1 DEF AnswerOK, IInv, WritesOK
<1>3. op # Free
  BY FreeFields
<1>4. KnownOK'
  BY DEF IInv, KnownOK, Alive
<1>5. CloseOK'
  BY <1>3 DEF IInv, CloseOK
<1>6. AckOK'
  <2>1. Promised' = ghost.acked /\ ghost.acked \subseteq Promised
    BY <1>1 DEF Promised
  <2> QED BY <2>1 DEF IInv, AckOK, Alive
<1>7. \A q \in late' : RequestOK(q)' /\ q.verb # "none"
  BY DEF IInv, RequestOK
<1>8. Typed'
  BY DEF IInv, Typed
<1> QED BY <1>2, <1>4, <1>5, <1>6, <1>7, <1>8 DEF IInv

(* The fields of an operation that awaits a new call.                       *)
LEMMA AwaitFields ==
  ASSUME op \in Operations, NEW q \in Requests, NEW z, z = Await(q)
  PROVE  /\ z \in Operations /\ z.kind = op.kind /\ z.request = q /\ z.answer = NoAnswer
         /\ z.next = op.next /\ z.error = op.error
<1>1. NoAnswer \in Answers
  BY SdkSessionAssumption DEF NoAnswer, NoContext, Answers, Codes, Contents
<1> QED BY <1>1 DEF Await, Operations

(* The fields of a request.                                                 *)
LEMMA RequestFields ==
  ASSUME NEW verb \in Verbs, NEW c \in 0..MaxContexts, NEW n \in Nat, NEW content \in Contents,
         NEW q, q = Request(verb, c, n, content)
  PROVE  q \in Requests /\ q.verb = verb /\ q.ctx = c /\ q.expected = n /\ q.content = content
BY DEF Request, Requests

(* The jar was exported: the next context is asked for.                     *)
LEMMA ExportedStep ==
  ASSUME IInv, RebindExported
  PROVE  IInv'
<1> DEFINE q == Request("create", NoContext, 0, op.answer.jar)
<1>1. /\ op.answer.code = "ok" /\ op.kind = "rebind" /\ op.request.verb = "select" /\ op' = Await(q)
      /\ sess' = ApplyRevision(sess, op.answer.revision, op.request.ctx)
      /\ ghost' = [ghost EXCEPT !.alarm = @ \/ Regresses(op.answer.revision, op.request.ctx)]
      /\ UNCHANGED <<closing, bodies, late, service>>
  BY DEF RebindExported, Good, Answered
<1>2. sess \in Sessions /\ ghost \in Histories /\ op \in Operations /\ op.answer.jar \in Contents
  BY DEF IInv, Typed, Operations, Answers
<1>3. q \in Requests /\ q.verb = "create" /\ q.ctx = NoContext /\ q.content = op.answer.jar
  <2>1. "create" \in Verbs /\ NoContext \in 0..MaxContexts
    BY SdkSessionAssumption DEF Verbs, NoContext
  <2> QED BY <1>2, <2>1, RequestFields
<1> HIDE DEF q
<1>4. op' \in Operations /\ op'.kind = "rebind" /\ op'.request = q /\ op'.answer = NoAnswer
  BY <1>1, <1>2, <1>3, AwaitFields
<1>5. /\ sess' \in Sessions /\ sess'.state = sess.state /\ sess'.ctx = sess.ctx /\ sess'.cleanup = sess.cleanup
      /\ sess'.lost = sess.lost
      /\ sess'.revision = IF sess.ctx = op.request.ctx THEN op.answer.revision ELSE sess.revision
  BY <1>1, <1>2, GoodAnswer, ApplyFields
<1>6. ~ Regresses(op.answer.revision, op.request.ctx) /\ ~ ghost.alarm
  BY <1>1, GoodAnswer DEF IInv, AckOK
<1>7. /\ ghost' \in Histories /\ ghost'.started = ghost.started /\ ghost'.known = ghost.known
      /\ ghost'.misjudged = ghost.misjudged /\ ghost'.acked = ghost.acked
  BY <1>1, <1>2, <1>6 DEF Histories
<1>8. ~ ghost'.alarm
  BY <1>1, <1>2, <1>6 DEF Histories
<1>9. op.request.ctx = sess.ctx
  BY <1>1 DEF IInv, CallOK
<1>10. sess'.revision <= service[sess'.ctx].revision
  BY <1>1, <1>5, <1>9, GoodAnswer
<1>11. RequestOK(op.request)'
  BY <1>3, <1>4, <1>7 DEF IInv, WritesOK, RequestOK
<1>12. CallOK'
  BY <1>1, <1>3, <1>4, <1>5, <1>7, RebindContexts DEF CallOK
<1>13. RebindOK'
  <2>1. ghost.acked \subseteq op.answer.jar
    BY <1>1 DEF IInv, RebindOK
  <2> QED BY <1>3, <1>4, <1>7, <2>1 DEF RebindOK
<1>14. LostOK'
  BY <1>1, <1>5, <1>7 DEF IInv, LostOK, Alive
<1>15. /\ sess'.cleanup \subseteq ghost'.known /\ sess'.ctx \in ghost'.known
       /\ \A c \in ghost'.known : service[c].state # "none" /\ (Alive(c) => c \in sess'.cleanup)
  BY <1>1, <1>5, <1>7, RebindContexts DEF IInv, KnownOK
<1> QED BY <1>1, <1>4, <1>5, <1>7, <1>8, <1>10, <1>11, <1>12, <1>13, <1>14, <1>15, RebindGoesOn

(* The next context exists: it is owned, and the jar is imported into it.   *)
LEMMA CreatedStep ==
  ASSUME IInv, RebindCreated
  PROVE  IInv'
<1> DEFINE c == op.answer.ctx
           q == Request("import", c, op.answer.revision, op.request.content)
           z == Await(q)
<1>1. /\ op.answer.code = "ok" /\ op.kind = "rebind" /\ op.request.verb = "create" /\ op' = [z EXCEPT !.next = c]
      /\ sess' = [sess EXCEPT !.cleanup = @ \cup {c}]
      /\ ghost' = [ghost EXCEPT !.known = @ \cup {c}]
      /\ UNCHANGED <<closing, bodies, late, service>>
  BY DEF RebindCreated, Good, Answered
<1>2. /\ sess \in Sessions /\ ghost \in Histories /\ op \in Operations /\ op.request.content \in Contents
      /\ late \subseteq Requests
  BY DEF IInv, Typed, Operations, Requests
<1>3. /\ c \in Contexts /\ c \in 0..MaxContexts /\ op.answer.revision \in Nat /\ op.answer.revision <= service[c].revision
  BY <1>1, GoodAnswer
<1>4. c \notin ghost.known /\ service[c].state # "none"
  BY <1>1 DEF IInv, AnswerOK
<1>5. /\ q \in Requests /\ q.verb = "import" /\ q.ctx = c /\ q.expected = op.answer.revision
      /\ q.content = op.request.content
  <2>1. "import" \in Verbs
    BY DEF Verbs
  <2> QED BY <1>2, <1>3, <2>1, RequestFields
<1>6. z \in Operations /\ z.kind = "rebind" /\ z.request = q /\ z.answer = NoAnswer
  <2> HIDE DEF q
  <2> QED BY <1>1, <1>2, <1>5, AwaitFields
<1> HIDE DEF z, q
<1>7. op' \in Operations /\ op'.kind = "rebind" /\ op'.request = q /\ op'.answer = NoAnswer /\ op'.next = c
  BY <1>1, <1>3, <1>6 DEF Operations
<1>8. /\ sess' \in Sessions /\ sess'.state = sess.state /\ sess'.ctx = sess.ctx /\ sess'.lost = sess.lost
      /\ sess'.revision = sess.revision /\ sess'.cleanup = sess.cleanup \cup {c}
  BY <1>1, <1>2, <1>3 DEF Sessions
<1>9. /\ ghost' \in Histories /\ ghost'.started = ghost.started /\ ghost'.known = ghost.known \cup {c}
      /\ ghost'.misjudged = ghost.misjudged /\ ghost'.acked = ghost.acked /\ ghost'.alarm = ghost.alarm
  BY <1>1, <1>2, <1>3 DEF Histories
<1> HIDE DEF c
<1>10. sess.ctx \in ghost.known
  BY <1>1, RebindContexts
<1>11. RequestOK(op.request)'
  BY <1>1, <1>3, <1>5, <1>7, <1>9 DEF IInv, RequestOK
<1>12. CallOK'
  BY <1>4, <1>5, <1>7, <1>8, <1>9, <1>10 DEF CallOK
<1>13. \A r \in late : r.ctx # c
  <2>1. c # NoContext
    BY <1>3 DEF Contexts, NoContext
  <2> QED BY <1>4, <2>1 DEF IInv, RequestOK
<1>14. RebindOK'
  <2>1. NoAnswer.code = "none"
    BY DEF NoAnswer
  <2>2. ghost.acked \subseteq op.request.content
    BY <1>1 DEF IInv, RebindOK
  <2> QED BY <1>1, <1>5, <1>7, <1>9, <1>13, <2>1, <2>2 DEF RebindOK
<1>15. LostOK'
  BY <1>1, <1>8, <1>9 DEF IInv, LostOK, Alive
<1>16. /\ sess'.cleanup \subseteq ghost'.known /\ sess'.ctx \in ghost'.known
       /\ \A d \in ghost'.known : service[d].state # "none" /\ (Alive(d) => d \in sess'.cleanup)
  BY <1>4, <1>8, <1>9, <1>10 DEF IInv, KnownOK
<1>17. ~ ghost'.alarm /\ (sess'.ctx \in Contexts => sess'.revision <= service[sess'.ctx].revision)
  BY <1>8, <1>9 DEF IInv, AckOK
<1> QED BY <1>1, <1>7, <1>8, <1>9, <1>11, <1>12, <1>14, <1>15, <1>16, <1>17, RebindGoesOn

(* The cutover.                                                             *)
LEMMA ImportedStep ==
  ASSUME IInv, RebindImported
  PROVE  IInv'
<1> DEFINE q == Request("delete", sess.ctx, 0, {})
<1>1. /\ op.answer.code = "ok" /\ op.kind = "rebind" /\ op.request.verb = "import" /\ op' = Await(q)
      /\ sess' = [sess EXCEPT !.ctx = op.next, !.revision = op.answer.revision, !.cleanup = @ \cup {sess.ctx}]
      /\ ghost' = [ghost EXCEPT !.alarm = @ \/ op.answer.revision # op.request.expected + 1,
                                !.misjudged = @ \/ sess.lost]
      /\ UNCHANGED <<closing, bodies, late, service>>
  BY DEF RebindImported, Good, Answered
<1>2. sess \in Sessions /\ ghost \in Histories /\ op \in Operations
  BY DEF IInv, Typed
<1>3. /\ sess.ctx \in ghost.known /\ sess.ctx \in Contexts /\ op.next = op.request.ctx
      /\ op.next \in ghost.known /\ op.next \in Contexts /\ op.next # sess.ctx
  BY <1>1, RebindContexts DEF IInv, CallOK
<1>4. /\ op.answer.revision \in Nat /\ op.answer.revision <= service[op.next].revision
      /\ op.answer.revision = op.request.expected + 1 /\ ~ ghost.alarm
  BY <1>1, <1>3, GoodAnswer DEF IInv, AckOK
<1>5. sess.ctx \in 0..MaxContexts /\ op.next \in 0..MaxContexts
  BY <1>2 DEF Sessions, Operations
<1>6. q \in Requests /\ q.verb = "delete" /\ q.ctx = sess.ctx /\ q.content = {}
  <2>1. "delete" \in Verbs /\ {} \in Contents
    BY DEF Verbs, Contents
  <2> QED BY <1>5, <2>1, RequestFields
<1> HIDE DEF q
<1>7. op' \in Operations /\ op'.kind = "rebind" /\ op'.request = q /\ op'.answer = NoAnswer
  BY <1>1, <1>2, <1>6, AwaitFields
<1>8. /\ sess' \in Sessions /\ sess'.state = sess.state /\ sess'.ctx = op.next /\ sess'.lost = sess.lost
      /\ sess'.revision = op.answer.revision /\ sess'.cleanup = sess.cleanup \cup {sess.ctx}
  BY <1>1, <1>2, <1>3, <1>4, <1>5 DEF Sessions
<1>9. /\ ghost' \in Histories /\ ghost'.started = ghost.started /\ ghost'.known = ghost.known
      /\ ghost'.acked = ghost.acked
  <2>1. (ghost.alarm \/ op.answer.revision # op.request.expected + 1) \in BOOLEAN /\ (ghost.misjudged \/ sess.lost) \in BOOLEAN
    OBVIOUS
  <2> QED BY <1>1, <1>2, <2>1 DEF Histories
<1>10. ~ ghost'.alarm
  BY <1>1, <1>2, <1>4 DEF Histories
<1>11. ghost'.misjudged <=> ghost.misjudged \/ sess.lost
  BY <1>1, <1>2 DEF Histories
<1>12. RequestOK(op.request)'
  BY <1>3, <1>6, <1>7, <1>9 DEF RequestOK
<1>13. CallOK'
  BY <1>3, <1>6, <1>7, <1>8, <1>9 DEF CallOK
<1>14. RebindOK'
  BY <1>6, <1>7 DEF RebindOK
<1>15. LostOK'
  BY <1>8, <1>11 DEF LostOK
<1>16. /\ sess'.cleanup \subseteq ghost'.known /\ sess'.ctx \in ghost'.known
       /\ \A d \in ghost'.known : service[d].state # "none" /\ (Alive(d) => d \in sess'.cleanup)
  BY <1>3, <1>8, <1>9 DEF IInv, KnownOK
<1>17. ghost.acked \subseteq service[sess'.ctx].jar /\ \A r \in late : r.ctx # sess'.ctx
  BY <1>1, <1>8 DEF IInv, RebindOK
<1>18. sess'.revision <= service[sess'.ctx].revision
  BY <1>4, <1>8
<1> QED BY <1>1, <1>7, <1>8, <1>9, <1>10, <1>12, <1>13, <1>14, <1>15, <1>16, <1>17, <1>18, RebindGoesOn

(* A call of the operation failed: the operation ends, except that a failed *)
(* staging import first tries to delete the staged context.                 *)
LEMMA FailedStep ==
  ASSUME IInv, Failed
  PROVE  IInv'
<1>1. /\ op.answer.code \in {"not_found", "conflict", "other"} /\ UNCHANGED <<closing, bodies, late, service, ghost>>
      /\ ~ Answered("rebind", "delete")
  BY DEF Failed
<1>2. /\ sess \in Sessions /\ ghost \in Histories /\ op \in Operations /\ closing \in Closes
      /\ bodies \in [Contexts -> 0..MaxBodies]
  BY DEF IInv, Typed
<1>3. CASE Answered("rebind", "import")
  <2> DEFINE q == Request("delete", op.next, 0, {})
             z == Await(q)
  <2>1. /\ op.kind = "rebind" /\ op.request.verb = "import" /\ op' = [z EXCEPT !.error = op.answer.code] /\ sess' = sess
    BY <1>3 DEF Failed, Answered
  <2>2. /\ sess.ctx \in ghost.known /\ op.next \in ghost.known /\ op.next # sess.ctx
    BY <2>1, RebindContexts DEF IInv, CallOK
  <2>3. op.next \in 0..MaxContexts
    BY <1>2 DEF Operations
  <2>4. q \in Requests /\ q.verb = "delete" /\ q.ctx = op.next /\ q.content = {}
    <3>1. "delete" \in Verbs /\ {} \in Contents
      BY DEF Verbs, Contents
    <3> QED BY <2>3, <3>1, RequestFields
  <2>5. z \in Operations /\ z.kind = "rebind" /\ z.request = q /\ z.answer = NoAnswer
    <3> HIDE DEF q
    <3> QED BY <1>2, <2>1, <2>4, AwaitFields
  <2> HIDE DEF z, q
  <2>6. op' \in Operations /\ op'.kind = "rebind" /\ op'.request = q /\ op'.answer = NoAnswer
    BY <1>1, <2>1, <2>5 DEF Operations, Codes
  <2>7. RequestOK(op.request)'
    BY <1>1, <2>2, <2>4, <2>6 DEF RequestOK
  <2>8. CallOK'
    BY <1>1, <2>1, <2>2, <2>4, <2>6 DEF CallOK
  <2>9. RebindOK'
    BY <2>4, <2>6 DEF RebindOK
  <2>10. LostOK'
    BY <1>1, <2>1 DEF IInv, LostOK, Alive
  <2>11. /\ sess.cleanup \subseteq ghost.known /\ ~ ghost.alarm
         /\ sess.ctx \in Contexts => sess.revision <= service[sess.ctx].revision
         /\ \A d \in ghost.known : service[d].state # "none" /\ (Alive(d) => d \in sess.cleanup)
    BY DEF IInv, KnownOK, AckOK
  <2> QED BY <1>1, <1>2, <2>1, <2>2, <2>6, <2>7, <2>8, <2>9, <2>10, <2>11, RebindGoesOn
<1>4. CASE ~ Answered("rebind", "import")
  <2> DEFINE y == MarkLost(sess, op.answer.code, sess.ctx)
  <2>1. op' = Free /\ sess' = [y EXCEPT !.state = IF op.kind = "open" THEN "failed" ELSE @]
    BY <1>4 DEF Failed, Thrown
  <2>2. /\ y \in Sessions /\ y.state = sess.state /\ y.ctx = sess.ctx /\ y.cleanup = sess.cleanup
        /\ y.revision = sess.revision /\ (y.lost => sess.lost \/ op.answer.code = "not_found")
    BY <1>2 DEF MarkLost, Sessions
  <2> HIDE DEF y
  <2>3. /\ sess' \in Sessions /\ sess'.state = (IF op.kind = "open" THEN "failed" ELSE sess.state)
        /\ sess'.ctx = sess.ctx /\ sess'.cleanup = sess.cleanup /\ sess'.revision = sess.revision /\ sess'.lost = y.lost
    BY <2>1, <2>2 DEF Sessions
  <2>4. op.answer.code = "not_found" => ~ Alive(sess.ctx)
    <3>1. op.kind # "none"
      BY <1>1, FreeFields DEF IInv, CallOK
    <3>2. op.kind \in Kinds
      BY <1>2 DEF Operations
    <3>3. op.answer.code = "not_found" => op.request.verb # "create" /\ ~ Alive(op.request.ctx)
      BY DEF IInv, AnswerOK
    <3>4. op.request.verb # "create" => op.request.ctx = sess.ctx
      BY <1>1, <1>4, <3>1, <3>2 DEF Kinds, IInv, CallOK, Answered
    <3> QED BY <3>3, <3>4
  <2>5. KnownOK' /\ CloseOK'
    BY <1>1, <2>1, <2>3, OwnsMore DEF IInv, KnownOK
  <2>6. LostOK'
    BY <1>1, <2>2, <2>3, <2>4 DEF IInv, LostOK, Alive
  <2>7. /\ ghost.acked \subseteq Promised /\ ~ ghost.alarm
        /\ sess.ctx \in Contexts => sess.revision <= service[sess.ctx].revision
    BY DEF Promised, IInv, AckOK
  <2> QED BY <1>1, <1>2, <2>1, <2>3, <2>5, <2>6, <2>7, PermitReturned
<1> QED BY <1>3, <1>4

(* An operation starts: its write gets a number that nothing stores yet.    *)
LEMMA StartStep ==
  ASSUME IInv, NEW kind \in {"get", "set", "import", "stream", "rebind"}, Start(kind)
  PROVE  IInv'
<1> DEFINE n == ghost.started + 1
           q == CASE kind \in {"get", "rebind"} -> Request("select", sess.ctx, 0, {})
                  [] kind = "set" -> Request("set", sess.ctx, sess.revision, Write)
                  [] kind = "import" -> Request("import", sess.ctx, sess.revision, Write)
                  [] kind = "stream" -> Request("exchange", sess.ctx, 0, Write)
           acked == IF kind = "import" THEN {} ELSE ghost.acked
<1>1. /\ op = Free /\ sess.state = "open" /\ UNCHANGED <<sess, closing, bodies, late, service>>
      /\ op' = [Free EXCEPT !.kind = kind, !.request = q]
      /\ ghost' = [ghost EXCEPT !.started = @ + 1, !.acked = acked]
  BY DEF Start
<1>2. /\ sess \in Sessions /\ ghost \in Histories /\ sess.ctx \in 0..MaxContexts /\ sess.revision \in Nat
      /\ ghost.started \in Nat /\ ghost.known \subseteq Contexts /\ ghost.acked \in Contents
  BY DEF IInv, Typed, Sessions, Histories
<1>3. Write = {n} /\ Write \in Contents /\ n \in Nat
  BY <1>2 DEF Write, Contents
<1>4. /\ q \in Requests /\ q.ctx = sess.ctx
      /\ kind \in {"get", "rebind"} => q.verb = "select" /\ q.content = {}
      /\ kind = "set" => q.verb = "set" /\ q.expected = sess.revision /\ q.content = {n}
      /\ kind = "import" => q.verb = "import" /\ q.expected = sess.revision /\ q.content = {n}
      /\ kind = "stream" => q.verb = "exchange" /\ q.content = {n}
  <2>1. {"select", "set", "import", "exchange"} \subseteq Verbs /\ {} \in Contents
    BY DEF Verbs, Contents
  <2>2. CASE kind \in {"get", "rebind"}
    <3>1. q = Request("select", sess.ctx, 0, {})
      BY <2>2
    <3> HIDE DEF q
    <3> QED BY <1>2, <2>1, <2>2, <3>1, RequestFields
  <2>3. CASE kind = "set"
    <3>1. q = Request("set", sess.ctx, sess.revision, Write)
      BY <2>3
    <3> HIDE DEF q
    <3>2. "set" \in Verbs /\ 0 \in Nat
      BY <2>1
    <3>3. q \in Requests /\ q.verb = "set" /\ q.ctx = sess.ctx /\ q.expected = sess.revision /\ q.content = Write
      BY <1>2, <1>3, <3>1, <3>2 DEF Request, Requests
    <3> QED BY <1>3, <2>3, <3>3
  <2>4. CASE kind = "import"
    <3>1. q = Request("import", sess.ctx, sess.revision, Write)
      BY <2>4
    <3> HIDE DEF q
    <3>2. "import" \in Verbs /\ 0 \in Nat
      BY <2>1
    <3>3. q \in Requests /\ q.verb = "import" /\ q.ctx = sess.ctx /\ q.expected = sess.revision /\ q.content = Write
      BY <1>2, <1>3, <3>1, <3>2 DEF Request, Requests
    <3> QED BY <1>3, <2>4, <3>3
  <2>5. CASE kind = "stream"
    <3>1. q = Request("exchange", sess.ctx, 0, Write)
      BY <2>5
    <3> HIDE DEF q
    <3>2. "exchange" \in Verbs /\ 0 \in Nat
      BY <2>1
    <3>3. q \in Requests /\ q.verb = "exchange" /\ q.ctx = sess.ctx /\ q.expected = 0 /\ q.content = Write
      BY <1>2, <1>3, <3>1, <3>2 DEF Request, Requests
    <3> QED BY <1>3, <2>5, <3>3
  <2> QED BY <2>2, <2>3, <2>4, <2>5
<1> HIDE DEF q
<1>5. /\ op' \in Operations /\ op'.kind = kind /\ op'.request = q /\ op'.answer.code = "none" /\ op'.answer.jar = {}
  <2>1. kind \in Kinds
    BY DEF Kinds
  <2> QED BY <1>1, <1>4, <2>1, FreeFields DEF Operations
<1>6. acked \in Contents /\ acked \subseteq ghost.acked /\ (kind = "import" => acked = {})
  BY <1>2 DEF Contents
<1> HIDE DEF acked
<1>7. /\ ghost' \in Histories /\ ghost'.started = n /\ ghost'.known = ghost.known /\ ghost'.acked = acked
      /\ ghost'.alarm = ghost.alarm /\ ghost'.misjudged = ghost.misjudged
  BY <1>1, <1>2, <1>3, <1>6 DEF Histories
<1>8. 1..ghost.started \subseteq 1..n /\ n \in 1..n /\ n \notin 1..ghost.started
  BY <1>2
<1> HIDE DEF n
<1>9. sess.ctx \in ghost.known /\ sess.ctx \in Contexts
  BY <1>1, <1>2 DEF IInv, KnownOK
<1>10. CallOK'
  BY <1>1, <1>4, <1>5, <1>7, <1>9 DEF CallOK
<1>11. AnswerOK' /\ RebindOK'
  BY <1>4, <1>5 DEF AnswerOK, RebindOK
<1>12. WritesOK'
  <2>1. \A c \in Contexts : service[c].jar \subseteq 1..n /\ n \notin service[c].jar
    BY <1>8 DEF IInv, WritesOK
  <2>2. \A r \in late : n \notin r.content
    BY <1>8 DEF IInv, RequestOK
  <2> QED BY <1>1, <1>4, <1>5, <1>7, <2>1, <2>2 DEF WritesOK
<1>13. KnownOK'
  BY <1>1, <1>5, <1>7 DEF IInv, KnownOK, Alive
<1>14. CloseOK' /\ LostOK'
  <2>1. closing.stage = "none"
    BY <1>1 DEF IInv, CloseOK
  <2> QED BY <1>1, <1>7, <2>1 DEF IInv, CloseOK, LostOK, Alive
<1>15. AckOK'
  <2>1. Promised' = acked /\ acked \subseteq Promised
    BY <1>5, <1>6, <1>7 DEF Promised
  <2> QED BY <1>1, <1>5, <1>6, <1>7, <2>1 DEF IInv, AckOK, Alive
<1>16. \A r \in late' : RequestOK(r)' /\ r.verb # "none"
  BY <1>1, <1>7, <1>8 DEF IInv, RequestOK
<1>17. RequestOK(op.request)'
  <2>1. sess.revision <= service[sess.ctx].revision
    BY <1>9 DEF IInv, AckOK
  <2> QED BY <1>1, <1>4, <1>5, <1>7, <1>8, <1>9, <2>1 DEF RequestOK
<1>18. Typed'
  BY <1>1, <1>5, <1>7 DEF IInv, Typed
<1> QED BY <1>10, <1>11, <1>12, <1>13, <1>14, <1>15, <1>16, <1>17, <1>18 DEF IInv

-----------------------------------------------------------------------------
(* The theorems.                                                            *)

(* The session is being opened.                                             *)
LEMMA InitInvariant == Init => IInv
<1> SUFFICES ASSUME Init PROVE IInv
  OBVIOUS
<1> DEFINE q == Request("create", NoContext, 0, {})
<1>1. q \in Requests /\ q.verb = "create" /\ q.ctx = NoContext /\ q.content = {}
  <2>1. "create" \in Verbs /\ NoContext \in 0..MaxContexts /\ {} \in Contents
    BY SdkSessionAssumption DEF Verbs, NoContext, Contents
  <2> QED BY <2>1, RequestFields
<1>2. op = [Free EXCEPT !.kind = "open", !.request = q]
  BY DEF Init
<1> HIDE DEF q
<1>3. op \in Operations /\ op.kind = "open" /\ op.request = q /\ op.answer.code = "none" /\ op.answer.jar = {}
  BY <1>1, <1>2, FreeFields DEF Operations, Kinds
<1>4. /\ sess \in Sessions /\ sess.state = "opening" /\ sess.ctx = NoContext /\ sess.cleanup = {} /\ ~ sess.lost
  BY SdkSessionAssumption DEF Init, Sessions, NoContext
<1>5. closing \in Closes /\ closing.stage = "none" /\ closing.pending = {}
  BY DEF Init, Closes
<1>6. /\ ghost \in Histories /\ ghost.acked = {} /\ ghost.known = {} /\ ghost.started = 0 /\ ~ ghost.alarm
  BY DEF Init, Histories, Contents
<1>7. late = {} /\ bodies \in [Contexts -> 0..MaxBodies]
  BY SdkSessionAssumption DEF Init
<1>8. service \in [Contexts -> Records] /\ \A c \in Contexts : service[c].jar = {}
  BY DEF Init, Records, Contents
<1>9. Typed
  BY <1>3, <1>4, <1>5, <1>6, <1>7, <1>8 DEF Typed
<1>10. CallOK /\ AnswerOK /\ RebindOK
  BY <1>1, <1>3 DEF CallOK, AnswerOK, RebindOK
<1>11. WritesOK /\ KnownOK /\ CloseOK /\ LostOK
  BY <1>3, <1>4, <1>5, <1>6, <1>8 DEF WritesOK, KnownOK, CloseOK, LostOK
<1>12. AckOK
  <2>1. Promised = {}
    BY <1>3, <1>6 DEF Promised
  <2>2. sess.ctx \notin Contexts
    BY <1>4 DEF Contexts, NoContext
  <2> QED BY <1>3, <1>6, <2>1, <2>2 DEF AckOK
<1>13. RequestOK(op.request)
  BY <1>1, <1>3 DEF RequestOK
<1> QED BY <1>7, <1>9, <1>10, <1>11, <1>12, <1>13 DEF IInv

(* Every step of the session, of the service and of the close keeps the     *)
(* invariant.                                                               *)
LEMMA NextInvariant == IInv /\ [Next]_vars => IInv'
<1> SUFFICES ASSUME IInv, [Next]_vars PROVE IInv'
  OBVIOUS
<1>1. CASE \E kind \in {"get", "set", "import", "stream", "rebind"} : Start(kind)
  BY <1>1, StartStep
<1>2. CASE Turn
  <2>1. CASE \E unwanted \in BOOLEAN : Opened(unwanted)
    BY <2>1, OpenedStep
  <2>2. CASE Got \/ Written("set") \/ Written("import") \/ Headed
    BY <2>2, GotStep, WrittenStep, HeadedStep
  <2>3. CASE RebindExported \/ RebindCreated \/ RebindImported \/ RebindRemoved
    BY <2>3, ExportedStep, CreatedStep, ImportedStep, RebindRemovedStep
  <2>4. CASE Failed
    BY <2>4, FailedStep
  <2> QED BY <1>2, <2>1, <2>2, <2>3, <2>4 DEF Turn
<1>3. CASE Abort \/ ConnectionLost
  BY <1>3, AbortStep, ConnectionStep
<1>4. CASE Execute \/ (\E r \in late : ExecuteLate(r)) \/ (\E c \in Contexts : ContextEnds(c))
  BY <1>4, ExecuteStep, LateStep, EndsStep
<1>5. CASE \/ \E c \in Contexts, code \in {"ok", "not_found", "other"} : BodyEnds(c, code)
           \/ CloseExpires
  BY <1>5, QuietStep
<1>6. CASE \E drain \in BOOLEAN : Close(drain)
  BY <1>6, CloseStep
<1>7. CASE DrainEnds
  BY <1>7, DrainStep
<1>8. CASE Closing
  <2>1. CASE Stopped \/ CloseDone
    BY <2>1, QuietStep
  <2>2. CASE \E c \in Contexts : CloseRemoves(c) \/ CloseLosesAnswer(c)
    BY <2>2, RemovesStep, LosesStep
  <2> QED BY <1>8, <2>1, <2>2 DEF Closing
<1>9. CASE UNCHANGED vars
  <2>1. Typed'
    BY <1>9 DEF vars, IInv, Typed
  <2>2. CallOK' /\ AnswerOK'
    BY <1>9 DEF vars, IInv, CallOK, AnswerOK, Alive
  <2>3. RebindOK'
    BY <1>9 DEF vars, IInv, RebindOK
  <2>4. WritesOK' /\ KnownOK'
    BY <1>9 DEF vars, IInv, WritesOK, KnownOK, Promised, Alive
  <2>5. CloseOK' /\ AckOK'
    BY <1>9 DEF vars, IInv, CloseOK, AckOK, Promised, Alive
  <2>6. LostOK'
    BY <1>9 DEF vars, IInv, LostOK, Promised, Alive
  <2>7. (RequestOK(op.request) /\ \A r \in late : RequestOK(r) /\ r.verb # "none")'
    BY <1>9 DEF vars, IInv, RequestOK
  <2> QED BY <2>1, <2>2, <2>3, <2>4, <2>5, <2>6, <2>7 DEF IInv
<1> QED BY <1>1, <1>2, <1>3, <1>4, <1>5, <1>6, <1>7, <1>8, <1>9 DEF Next

(* The invariant holds in every reachable state of a managed session and    *)
(* its contexts.                                                            *)
THEOREM Invariance == Spec => []IInv
BY InitInvariant, NextInvariant, PTL DEF Spec

(* Every context the session was told of and that still exists is in its    *)
(* cleanup set, and a close that succeeded left none (sessions.ts,          *)
(* #cleanup), for any number of contexts, rebinds and failed closes.        *)
THEOREM OwnershipHolds == Spec => []KnownContextsOwned
<1>1. IInv => KnownContextsOwned
  <2> SUFFICES ASSUME IInv PROVE KnownContextsOwned
    OBVIOUS
  <2>1. \A c \in Contexts : bodies[c] \in 0..MaxBodies
    BY DEF IInv, Typed
  <2> QED BY <2>1 DEF IInv, KnownOK, CloseOK, KnownContextsOwned
<1> QED BY <1>1, Invariance, PTL

(* A write that the application was told of stays in the jar in use, also   *)
(* after a change of identity and whatever abandoned request is executed    *)
(* late; the session's revision never runs ahead, and its revision checks   *)
(* raise no false alarm (expectedRevision, applyRevision, rebindIdentity).  *)
THEOREM AcknowledgedHolds == Spec => []AcknowledgedSurvive
<1>1. IInv => AcknowledgedSurvive
  BY DEF IInv, AckOK, Promised, AcknowledgedSurvive
<1> QED BY <1>1, Invariance, PTL

(* The session calls itself lost only when the context in use is gone, or   *)
(* in one of the two situations that LostMeansGone names (markLost).        *)
THEOREM LostHolds == Spec => []LostMeansGone
<1>1. IInv => LostMeansGone
  BY DEF IInv, LostOK, LostMeansGone
<1> QED BY <1>1, Invariance, PTL

=============================================================================
