---------------------------- MODULE ConnectionProof ----------------------------
(***************************************************************************)
(* Proofs about the client's half of the wire composed with the producer's  *)
(* pipeline: the caller, the reader thread, a cancelling thread, the startup *)
(* thread and the producer's goroutines, through producer deaths and         *)
(* restarts, for every bound.  The first half is about the pipeline alone,  *)
(* for every number of frames and every interleaving of its goroutines: it  *)
(* follows the identities through the queues, a request never leaves the    *)
(* row in which it was accepted, it only moves one place towards stdout.    *)
(***************************************************************************)
EXTENDS Connection, SequenceTheorems, TLAPS

-----------------------------------------------------------------------------
(* What Ids, \o and IsPrefix do to the ends of a queue. *)

\* Ids maps a queue of identified values to the sequence of their identities.
LEMMA IdsSeq ==
    ASSUME NEW S, NEW s \in Seq(S), \A x \in S : x.id \in Nat
    PROVE  /\ Ids(s) \in Seq(Nat)
           /\ Len(Ids(s)) = Len(s)
           /\ DOMAIN Ids(s) = 1 .. Len(s)
           /\ \A i \in 1 .. Len(s) : Ids(s)[i] = s[i].id
<1>1. /\ Len(s) \in Nat /\ DOMAIN s = 1 .. Len(s)
      /\ \A i \in 1 .. Len(s) : s[i] \in S
  BY LenProperties, ElementOfSeq
<1>2. Ids(s) \in [1 .. Len(s) -> Nat]
  BY <1>1 DEF Ids
<1>3. Ids(s) \in Seq(Nat)
  BY <1>1, <1>2, SeqDef
<1> QED
  BY <1>1, <1>2, <1>3, LenProperties DEF Ids

\* Queueing a value appends its identity.
LEMMA IdsAppend ==
    ASSUME NEW S, NEW s \in Seq(S), NEW x \in S, \A y \in S : y.id \in Nat
    PROVE  Ids(Append(s, x)) = Append(Ids(s), x.id)
<1>1. /\ Append(s, x) \in Seq(S) /\ Len(Append(s, x)) = Len(s) + 1
      /\ \A i \in 1 .. Len(s) : Append(s, x)[i] = s[i]
      /\ Append(s, x)[Len(s) + 1] = x
  BY AppendProperties
<1>2. Ids(s) \in Seq(Nat) /\ Len(Ids(s)) = Len(s)
      /\ \A i \in 1 .. Len(s) : Ids(s)[i] = s[i].id
  BY IdsSeq
<1>3. Ids(Append(s, x)) \in Seq(Nat) /\ Len(Ids(Append(s, x))) = Len(s) + 1
      /\ \A i \in 1 .. Len(s) + 1 : Ids(Append(s, x))[i] = Append(s, x)[i].id
  BY IdsSeq, <1>1
<1>4. x.id \in Nat /\ Len(s) \in Nat
  BY LenProperties
<1>5. /\ Append(Ids(s), x.id) \in Seq(Nat) /\ Len(Append(Ids(s), x.id)) = Len(s) + 1
      /\ \A i \in 1 .. Len(s) : Append(Ids(s), x.id)[i] = s[i].id
      /\ Append(Ids(s), x.id)[Len(s) + 1] = x.id
  BY <1>2, <1>4, AppendProperties
<1>6. \A i \in 1 .. Len(s) + 1 : Ids(Append(s, x))[i] = Append(Ids(s), x.id)[i]
  BY <1>1, <1>3, <1>4, <1>5
<1> QED
  BY <1>3, <1>5, <1>6, SeqEqual

\* Taking a value takes its identity.
LEMMA IdsTail ==
    ASSUME NEW S, NEW s \in Seq(S), s # <<>>, \A y \in S : y.id \in Nat
    PROVE  /\ Ids(s) # <<>>
           /\ Head(Ids(s)) = Head(s).id
           /\ Ids(Tail(s)) = Tail(Ids(s))
<1>1. Tail(s) \in Seq(S) /\ Len(Tail(s)) = Len(s) - 1
      /\ \A i \in 1 .. Len(Tail(s)) : Tail(s)[i] = s[i + 1]
  BY HeadTailProperties
<1>2. Ids(s) \in Seq(Nat) /\ Len(Ids(s)) = Len(s)
      /\ \A i \in 1 .. Len(s) : Ids(s)[i] = s[i].id
  BY IdsSeq
<1>3. Len(s) \in Nat \ {0}
  BY EmptySeq, LenProperties
<1>4. Ids(s) # <<>>
  BY <1>2, <1>3, EmptySeq
<1>5. Tail(Ids(s)) \in Seq(Nat) /\ Len(Tail(Ids(s))) = Len(s) - 1
      /\ \A i \in 1 .. Len(Tail(Ids(s))) : Tail(Ids(s))[i] = Ids(s)[i + 1]
  BY <1>2, <1>4, HeadTailProperties
<1>6. Ids(Tail(s)) \in Seq(Nat) /\ Len(Ids(Tail(s))) = Len(s) - 1
      /\ \A i \in 1 .. Len(s) - 1 : Ids(Tail(s))[i] = Tail(s)[i].id
  BY <1>1, IdsSeq
<1>7. \A i \in 1 .. Len(s) - 1 : Ids(Tail(s))[i] = Tail(Ids(s))[i]
  BY <1>1, <1>2, <1>3, <1>5, <1>6
<1>8. Ids(Tail(s)) = Tail(Ids(s))
  BY <1>5, <1>6, <1>7, SeqEqual
<1>9. Head(Ids(s)) = Head(s).id
  BY <1>2, <1>3
<1> QED
  BY <1>4, <1>8, <1>9

\* A value moves from the head of one queue to the end of the queue before it,
\* and the two queues together do not change.
LEMMA MoveAcross ==
    ASSUME NEW s \in Seq(Nat), NEW t \in Seq(Nat), t # <<>>
    PROVE  Append(s, Head(t)) \o Tail(t) = s \o t
<1>1. /\ Head(t) \in Nat /\ Tail(t) \in Seq(Nat) /\ Len(Tail(t)) = Len(t) - 1
      /\ \A i \in 1 .. Len(Tail(t)) : Tail(t)[i] = t[i + 1]
  BY HeadTailProperties
<1>2. Len(t) \in Nat \ {0} /\ Len(s) \in Nat /\ Head(t) = t[1]
  BY EmptySeq, LenProperties
<1>3. /\ Append(s, Head(t)) \in Seq(Nat) /\ Len(Append(s, Head(t))) = Len(s) + 1
      /\ \A i \in 1 .. Len(s) : Append(s, Head(t))[i] = s[i]
      /\ Append(s, Head(t))[Len(s) + 1] = t[1]
  BY <1>1, <1>2, AppendProperties
<1>4. /\ s \o t \in Seq(Nat) /\ Len(s \o t) = Len(s) + Len(t)
      /\ \A i \in 1 .. Len(s) + Len(t) :
            (s \o t)[i] = IF i <= Len(s) THEN s[i] ELSE t[i - Len(s)]
  BY ConcatProperties
<1> DEFINE a == Append(s, Head(t))
           b == Tail(t)
<1>5. /\ a \o b \in Seq(Nat) /\ Len(a \o b) = Len(a) + Len(b)
      /\ \A i \in 1 .. Len(a) + Len(b) :
            (a \o b)[i] = IF i <= Len(a) THEN a[i] ELSE b[i - Len(a)]
  BY <1>1, <1>3, ConcatProperties
<1>6. Len(a \o b) = Len(s \o t)
  BY <1>1, <1>2, <1>3, <1>4, <1>5
<1>7. ASSUME NEW i \in 1 .. Len(s) + Len(t) PROVE (a \o b)[i] = (s \o t)[i]
  <2>1. CASE i <= Len(s)
    BY <2>1, <1>1, <1>2, <1>3, <1>4, <1>5
  <2>2. CASE i = Len(s) + 1
    BY <2>2, <1>1, <1>2, <1>3, <1>4, <1>5
  <2>3. CASE i > Len(s) + 1
    <3>1. (s \o t)[i] = t[i - Len(s)]
      BY <2>3, <1>2, <1>4
    <3>2. (a \o b)[i] = b[i - (Len(s) + 1)]
      BY <2>3, <1>1, <1>2, <1>3, <1>5
    <3>3. b[i - (Len(s) + 1)] = t[i - (Len(s) + 1) + 1]
      BY <2>3, <1>1, <1>2
    <3> QED
      BY <3>1, <3>2, <3>3, <1>2
  <2> QED
    BY <2>1, <2>2, <2>3, <1>2
<1> QED
  BY <1>4, <1>5, <1>6, <1>7, SeqEqual

\* Appending to the last queue appends to the row of queues.
LEMMA AppendLast ==
    ASSUME NEW s \in Seq(Nat), NEW t \in Seq(Nat), NEW x \in Nat
    PROVE  s \o Append(t, x) = Append(s \o t, x)
<1>1. <<x>> \in Seq(Nat) /\ s \o t \in Seq(Nat)
  BY ConcatProperties
<1>2. Append(t, x) = t \o <<x>> /\ Append(s \o t, x) = (s \o t) \o <<x>>
  BY <1>1, AppendIsConcat
<1> QED
  BY <1>1, <1>2, ConcatAssociative

\* Taking from the first queue takes from the row of queues.
LEMMA TakeFirst ==
    ASSUME NEW s \in Seq(Nat), NEW t \in Seq(Nat), s # <<>>
    PROVE  /\ s \o t # <<>>
           /\ Head(s \o t) = Head(s)
           /\ Tail(s \o t) = Tail(s) \o t
<1>1. /\ Tail(s) \in Seq(Nat) /\ Len(Tail(s)) = Len(s) - 1
      /\ \A i \in 1 .. Len(Tail(s)) : Tail(s)[i] = s[i + 1]
  BY HeadTailProperties
<1>2. Len(s) \in Nat \ {0} /\ Len(t) \in Nat
  BY EmptySeq, LenProperties
<1>3. /\ s \o t \in Seq(Nat) /\ Len(s \o t) = Len(s) + Len(t)
      /\ \A i \in 1 .. Len(s) + Len(t) :
            (s \o t)[i] = IF i <= Len(s) THEN s[i] ELSE t[i - Len(s)]
  BY ConcatProperties
<1>4. s \o t # <<>>
  BY <1>2, <1>3, EmptySeq
<1>5. Head(s \o t) = Head(s)
  BY <1>2, <1>3
<1> DEFINE u == s \o t
           b == Tail(s)
<1>6. /\ Tail(u) \in Seq(Nat) /\ Len(Tail(u)) = Len(u) - 1
      /\ \A i \in 1 .. Len(Tail(u)) : Tail(u)[i] = u[i + 1]
  BY <1>3, <1>4, HeadTailProperties
<1>7. /\ b \o t \in Seq(Nat) /\ Len(b \o t) = Len(b) + Len(t)
      /\ \A i \in 1 .. Len(b) + Len(t) :
            (b \o t)[i] = IF i <= Len(b) THEN b[i] ELSE t[i - Len(b)]
  BY <1>1, ConcatProperties
<1>8. Len(Tail(u)) = Len(b \o t)
  BY <1>1, <1>2, <1>3, <1>6, <1>7
<1>9. ASSUME NEW i \in 1 .. Len(Tail(u)) PROVE Tail(u)[i] = (b \o t)[i]
  <2>1. Tail(u)[i] = u[i + 1] /\ i \in Nat /\ i + 1 \in 1 .. Len(s) + Len(t)
    BY <1>2, <1>3, <1>6
  <2>2. CASE i <= Len(b)
    BY <2>1, <2>2, <1>1, <1>2, <1>3, <1>7, <1>8
  <2>3. CASE i > Len(b)
    <3>1. (b \o t)[i] = t[i - (Len(s) - 1)]
      BY <2>3, <1>1, <1>2, <1>7, <1>8
    <3>2. u[i + 1] = t[i + 1 - Len(s)]
      BY <2>1, <2>3, <1>1, <1>2, <1>3
    <3>3. i - (Len(s) - 1) = i + 1 - Len(s)
      BY <2>1, <1>2
    <3> QED
      BY <2>1, <3>1, <3>2, <3>3
  <2> QED
    BY <2>1, <2>2, <2>3, <1>1, <1>2
<1> QED
  BY <1>4, <1>5, <1>6, <1>7, <1>8, <1>9, SeqEqual

\* A value passed on by the middle one of three queues.
LEMMA PassOn ==
    ASSUME NEW s \in Seq(Nat), NEW t \in Seq(Nat), NEW x \in Nat
    PROVE  Append(s, x) \o (<<>> \o t) = s \o (<<x>> \o t)
<1>1. <<x>> \in Seq(Nat)
  OBVIOUS
<1>2. Append(s, x) = s \o <<x>>
  BY AppendIsConcat
<1>3. (s \o <<x>>) \o t = s \o (<<x>> \o t)
  BY <1>1, ConcatAssociative
<1>4. <<>> \o t = t
  BY ConcatEmptySeq
<1> QED
  BY <1>2, <1>3, <1>4

\* Joining queues is associative.
LEMMA ThreeQueues ==
    ASSUME NEW a \in Seq(Nat), NEW b \in Seq(Nat), NEW c \in Seq(Nat)
    PROVE  (a \o b) \o c = a \o (b \o c)
BY ConcatAssociative

\* How a row of four queues is bracketed does not matter.
LEMMA FourQueues ==
    ASSUME NEW w \in Seq(Nat), NEW r \in Seq(Nat),
           NEW k \in Seq(Nat), NEW j \in Seq(Nat)
    PROVE  ((w \o r) \o k) \o j = w \o (r \o (k \o j))
<1> DEFINE wr == w \o r
           kj == k \o j
<1>1. wr \in Seq(Nat) /\ kj \in Seq(Nat)
  BY ConcatProperties
<1> HIDE DEF wr, kj
<1>2. (wr \o k) \o j = wr \o (k \o j)
  <2>1. ASSUME NEW a \in Seq(Nat) PROVE (a \o k) \o j = a \o (k \o j)
    BY ThreeQueues
  <2> QED
    BY <1>1, <2>1, Zenon
<1>3. (w \o r) \o kj = w \o (r \o kj)
  BY <1>1, ThreeQueues, Zenon
<1>4. wr \o (k \o j) = (w \o r) \o kj
  BY DEF wr, kj
<1>5. (wr \o k) \o j = w \o (r \o kj)
  BY <1>2, <1>3, <1>4, Zenon
<1> QED
  BY <1>5, Zenon DEF wr, kj

\* A prefix seen place by place.
LEMMA PrefixByPlace ==
    ASSUME NEW s \in Seq(Nat), NEW t \in Seq(Nat)
    PROVE  IsPrefix(s, t) <=>
             (Len(s) <= Len(t) /\ \A i \in 1 .. Len(s) : s[i] = t[i])
<1>1. /\ Len(s) \in Nat /\ Len(t) \in Nat
      /\ \A i \in 1 .. Len(s) : s[i] \in Nat
      /\ \A i \in 1 .. Len(t) : t[i] \in Nat
  BY LenProperties, ElementOfSeq
<1>2. SubSeq(s, 1, Len(s)) = s
  BY SubSeqFull
<1>3. SUFFICES ASSUME Len(s) <= Len(t)
               PROVE  s = SubSeq(t, 1, Len(s)) <=>
                        (\A i \in 1 .. Len(s) : s[i] = t[i])
  BY <1>2 DEF IsPrefix
<1> DEFINE p == SubSeq(t, 1, Len(s))
<1>4. \A i \in 1 .. Len(s) : t[i] \in Nat
  BY <1>1, <1>3
<1>5. /\ p \in Seq(Nat)
      /\ Len(p) = IF 1 <= Len(s) THEN Len(s) - 1 + 1 ELSE 0
      /\ \A i \in 1 .. Len(s) - 1 + 1 : p[i] = t[1 + i - 1]
  BY <1>1, <1>4, SubSeqProperties
<1>6. Len(p) = Len(s) /\ \A i \in 1 .. Len(s) : p[i] = t[i]
  BY <1>1, <1>5
<1>7. ASSUME s = p PROVE \A i \in 1 .. Len(s) : s[i] = t[i]
  BY <1>6, <1>7
<1>8. ASSUME \A i \in 1 .. Len(s) : s[i] = t[i] PROVE s = p
  BY <1>5, <1>6, <1>8, SeqEqual
<1> QED
  BY <1>7, <1>8

\* The written answers stay a prefix when another request is accepted.
LEMMA PrefixAppend ==
    ASSUME NEW s \in Seq(Nat), NEW t \in Seq(Nat), NEW x \in Nat, IsPrefix(s, t)
    PROVE  IsPrefix(s, Append(t, x))
<1>1. Append(t, x) \in Seq(Nat) /\ Len(Append(t, x)) = Len(t) + 1
      /\ \A i \in 1 .. Len(t) : Append(t, x)[i] = t[i]
  BY AppendProperties
<1>2. Len(s) \in Nat /\ Len(t) \in Nat
  BY LenProperties
<1>3. Len(s) <= Len(t) /\ \A i \in 1 .. Len(s) : s[i] = t[i]
  BY PrefixByPlace
<1>4. Len(s) <= Len(t) + 1 /\ \A i \in 1 .. Len(s) : s[i] = Append(t, x)[i]
  BY <1>1, <1>2, <1>3
<1> QED
  BY <1>1, <1>4, PrefixByPlace

\* A sequence is a prefix of what it is continued to.
LEMMA PrefixConcat ==
    ASSUME NEW s \in Seq(Nat), NEW t \in Seq(Nat)
    PROVE  IsPrefix(s, s \o t)
<1>1. /\ s \o t \in Seq(Nat) /\ Len(s \o t) = Len(s) + Len(t)
      /\ \A i \in 1 .. Len(s) + Len(t) :
            (s \o t)[i] = IF i <= Len(s) THEN s[i] ELSE t[i - Len(s)]
  BY ConcatProperties
<1>2. Len(s) \in Nat /\ Len(t) \in Nat
  BY LenProperties
<1>3. Len(s) <= Len(s \o t) /\ \A i \in 1 .. Len(s) : s[i] = (s \o t)[i]
  BY <1>1, <1>2
<1> QED
  BY <1>1, <1>3, PrefixByPlace

-----------------------------------------------------------------------------
(* Shapes.  WorkerShape adds to ServeTypeOK what the worker holds at each of
   its points; Drained says what a goroutine that ended has left behind. *)

Busy == worker.at \in {"computing", "computed", "released"}
Answered == worker.at \in {"computed", "released"}

WorkerShape ==
    /\ Busy => worker.request \in Requests
    /\ Answered => worker.reply \in Responses
                     /\ worker.reply.id = worker.request.id

Drained ==
    /\ worker.at = "done" => jobs = <<>> /\ mainLoop # "reading"
    /\ writer = "done" => worker.at = "done" /\ responses = <<>>

Typed == ServeTypeOK /\ WorkerShape

\* The steps of the producer's own goroutines.
PipelineStep == MainStep \/ WorkerStep \/ WriterStep

\* Every queued value has a natural number for its identity.
LEMMA Identified ==
    /\ \A x \in Requests : x.id \in Nat
    /\ \A x \in Requests \union {BadFrame} : x.id \in Nat
    /\ \A x \in Responses : x.id \in Nat
<1>1. \A x \in Requests : x.id \in Nat
  BY ServeAssumption DEF Requests
<1>2. \A x \in Responses : x.id \in Nat
  BY ServeAssumption DEF Responses
<1>3. BadFrame.id \in Nat
  BY DEF BadFrame
<1> QED
  BY <1>1, <1>2, <1>3

\* The record the worker builds is a response.
LEMMA ReplyShape ==
    ASSUME NEW id \in 1 .. MaxFrames, NEW verdict \in {"ok", "error", "cancelled"},
           NEW named \in BOOLEAN
    PROVE  [id |-> id, verdict |-> verdict, arena |-> named] \in Responses
BY Zenon DEF Responses

\* The next frame is a request unless it is one that does not decode.
LEMMA HeadIsFrame ==
    ASSUME Typed, NextFrame
    PROVE  /\ Head(stdin) \in Requests \union {BadFrame}
           /\ Tail(stdin) \in Seq(Requests \union {BadFrame})
           /\ Head(stdin).op \in Operations => Head(stdin) \in Requests
<1>1. stdin \in Seq(Requests \union {BadFrame}) /\ stdin # <<>>
  BY DEF Typed, ServeTypeOK, NextFrame
<1>2. Head(stdin) \in Requests \union {BadFrame}
      /\ Tail(stdin) \in Seq(Requests \union {BadFrame})
  BY <1>1, HeadTailProperties
<1>3. BadFrame.op \notin Operations
  BY DEF BadFrame, Operations
<1> QED
  BY <1>2, <1>3

\* The types hold in the beginning.
LEMMA TypedInit == ServeInit => Typed
<1> SUFFICES ASSUME ServeInit PROVE Typed
  OBVIOUS
<1>1. inputEnd \in BOOLEAN
  BY DEF ServeInit
<1>2. worker \in [at : {"idle", "computing", "computed", "released", "done"},
                  request : Requests \union {NoRequest},
                  reply : Responses \union {NoReply}]
  BY DEF ServeInit, Idle
<1>3. ServeTypeOK
  BY <1>1, <1>2, ServeAssumption DEF ServeInit, ServeTypeOK
<1> QED
  BY <1>3 DEF Typed, WorkerShape, Busy, Answered, ServeInit, Idle

\* Accepting a frame keeps the shapes.
LEMMA TypedAccept ==
    ASSUME Typed, AcceptRequest \/ AcceptCancel
    PROVE  Typed'
<1>1. NextFrame /\ Head(stdin).op \in Operations
  BY DEF AcceptRequest, AcceptCancel, Operations
<1> DEFINE x == Head(stdin)
<1>2. x \in Requests /\ x.id \in 1 .. MaxFrames
      /\ Tail(stdin) \in Seq(Requests \union {BadFrame})
  BY <1>1, HeadIsFrame DEF Requests
<1> HIDE DEF x
<1>3. /\ stdin' = Tail(stdin) /\ jobs' = Append(jobs, x)
      /\ accepted' = Append(accepted, x)
      /\ cancels' \in {cancels, cancels \union {x.id}}
      /\ fired' \in {fired, fired \union ({x.target} \intersect cancels)}
      /\ UNCHANGED <<inputEnd, mainLoop, worker, responses, writer, arena,
                     stdout, written>>
  BY DEF AcceptRequest, AcceptCancel, x
<1>4. jobs' \in Seq(Requests) /\ accepted' \in Seq(Requests)
  BY <1>2, <1>3, AppendProperties DEF Typed, ServeTypeOK
<1>5. cancels' \subseteq 1 .. MaxFrames /\ fired' \subseteq 1 .. MaxFrames
  BY <1>2, <1>3 DEF Typed, ServeTypeOK
<1>6. ServeTypeOK'
  BY <1>2, <1>3, <1>4, <1>5 DEF Typed, ServeTypeOK
<1> QED
  BY <1>3, <1>6 DEF Typed, WorkerShape, Busy, Answered

\* The worker's steps keep the shapes.
LEMMA TypedWorker ==
    ASSUME Typed, WorkerStep
    PROVE  Typed'
<1> DEFINE Workers == [at : {"idle", "computing", "computed", "released", "done"},
                       request : Requests \union {NoRequest},
                       reply : Responses \union {NoReply}]
<1>0. worker \in Workers /\ Idle \in Workers
  BY DEF Typed, ServeTypeOK, Idle
<1>1. CASE WorkerPops
  <2>1. Head(jobs) \in Requests /\ Tail(jobs) \in Seq(Requests)
    BY <1>1, HeadTailProperties DEF WorkerPops, Typed, ServeTypeOK
  <2>2. /\ worker' \in Workers /\ worker'.at = "computing"
        /\ worker'.request = Head(jobs)
    BY <1>1, <2>1, <1>0 DEF WorkerPops, Idle
  <2>3. arena' \in 0 .. MaxFrames
    BY <1>1, ServeAssumption DEF WorkerPops, Typed, ServeTypeOK
  <2>4. ServeTypeOK'
    BY <1>1, <2>1, <2>2, <2>3 DEF WorkerPops, Typed, ServeTypeOK
  <2> QED
    BY <2>1, <2>2, <2>4 DEF Typed, WorkerShape, Busy, Answered
<1>2. CASE WorkerComputes
  <2>1. PICK verdict \in Verdicts(worker.request), committed \in BOOLEAN :
          /\ committed => UsesArena(worker.request)
          /\ arena' = IF committed THEN worker.request.id ELSE arena
          /\ worker' = [worker EXCEPT
              !.at = "computed",
              !.reply = [id |-> worker.request.id, verdict |-> verdict,
                         arena |-> committed /\ verdict = "ok"]]
    BY <1>2 DEF WorkerComputes
  <2>2. worker.request \in Requests /\ worker.request.id \in 1 .. MaxFrames
    BY <1>2 DEF WorkerComputes, Typed, WorkerShape, Busy, Requests
  <2>3. verdict \in {"ok", "error", "cancelled"}
    BY <2>1 DEF Verdicts
  <2> DEFINE reply == [id |-> worker.request.id, verdict |-> verdict,
                       arena |-> committed /\ verdict = "ok"]
  <2>4. (committed /\ verdict = "ok") \in BOOLEAN
    BY Zenon
  <2>5. reply \in Responses
    BY <2>2, <2>3, <2>4, ReplyShape, Zenon
  <2>6. reply.id = worker.request.id
    OBVIOUS
  <2> HIDE DEF reply
  <2>7. /\ worker' \in Workers /\ worker'.at = "computed"
        /\ worker'.request = worker.request /\ worker'.reply = reply
    BY <2>1, <2>5, <1>0 DEF reply
  <2>8. arena' \in 0 .. MaxFrames
    BY <2>1, <2>2, ServeAssumption DEF Typed, ServeTypeOK
  <2>9. ServeTypeOK'
    BY <1>2, <2>7, <2>8 DEF WorkerComputes, Typed, ServeTypeOK
  <2> QED
    BY <2>2, <2>5, <2>6, <2>7, <2>9 DEF Typed, WorkerShape, Busy, Answered
<1>3. CASE WorkerReleases
  <2>1. /\ worker' \in Workers /\ worker'.at = "released"
        /\ worker'.request = worker.request /\ worker'.reply = worker.reply
    BY <1>3, <1>0 DEF WorkerReleases
  <2>2. cancels' \subseteq 1 .. MaxFrames
    BY <1>3 DEF WorkerReleases, Typed, ServeTypeOK
  <2>3. ServeTypeOK'
    BY <1>3, <2>1, <2>2 DEF WorkerReleases, Typed, ServeTypeOK
  <2> QED
    BY <1>3, <2>1, <2>3 DEF WorkerReleases, Typed, WorkerShape, Busy, Answered
<1>4. CASE WorkerResponds
  <2>1. worker.reply \in Responses
    BY <1>4 DEF WorkerResponds, Typed, WorkerShape, Answered
  <2>2. responses' \in Seq(Responses)
    BY <1>4, <2>1, AppendProperties DEF WorkerResponds, Typed, ServeTypeOK
  <2>3. worker' \in Workers /\ worker'.at = "idle"
    BY <1>4, <1>0 DEF WorkerResponds, Idle
  <2>4. ServeTypeOK'
    BY <1>4, <2>2, <2>3 DEF WorkerResponds, Typed, ServeTypeOK
  <2> QED
    BY <2>3, <2>4 DEF Typed, WorkerShape, Busy, Answered
<1>5. CASE WorkerStops
  <2>1. worker' \in Workers /\ worker'.at = "done"
    BY <1>5, <1>0 DEF WorkerStops, Idle
  <2>2. ServeTypeOK'
    BY <1>5, <2>1 DEF WorkerStops, Typed, ServeTypeOK
  <2> QED
    BY <2>1, <2>2 DEF Typed, WorkerShape, Busy, Answered
<1> QED
  BY <1>1, <1>2, <1>3, <1>4, <1>5 DEF WorkerStep

\* The writer's steps keep the shapes.
LEMMA TypedWriter ==
    ASSUME Typed, WriterStep
    PROVE  Typed'
<1>1. CASE WriterWrites \/ WriterFails
  <2>1. Head(responses) \in Responses /\ Tail(responses) \in Seq(Responses)
    BY <1>1, HeadTailProperties DEF WriterWrites, WriterFails, Typed, ServeTypeOK
  <2>2. stdout' \in Seq(Responses) /\ written' \in Seq(Responses)
    <3>1. stdout \in Seq(Responses) /\ written \in Seq(Responses)
      BY DEF Typed, ServeTypeOK
    <3>2. /\ Append(stdout, Head(responses)) \in Seq(Responses)
          /\ Append(written, Head(responses)) \in Seq(Responses)
      BY <2>1, <3>1, AppendProperties
    <3> QED
      BY <1>1, <3>1, <3>2 DEF WriterWrites, WriterFails
  <2>3. ServeTypeOK'
    BY <1>1, <2>1, <2>2 DEF WriterWrites, WriterFails, Typed, ServeTypeOK
  <2> QED
    BY <1>1, <2>3 DEF WriterWrites, WriterFails, Typed, WorkerShape, Busy, Answered
<1>2. CASE WriterStops
  <2>1. ServeTypeOK'
    BY <1>2 DEF WriterStops, Typed, ServeTypeOK
  <2> QED
    BY <1>2, <2>1 DEF WriterStops, Typed, WorkerShape, Busy, Answered
<1> QED
  BY <1>1, <1>2 DEF WriterStep

\* Every step of a goroutine keeps the shapes.
LEMMA TypedStep ==
    ASSUME Typed, PipelineStep
    PROVE  Typed'
<1>1. CASE StopReading \/ ServeReturns
  <2>1. ServeTypeOK'
    BY <1>1 DEF StopReading, ServeReturns, Typed, ServeTypeOK
  <2> QED
    BY <1>1, <2>1 DEF StopReading, ServeReturns, Typed, WorkerShape, Busy, Answered
<1> QED
  BY <1>1, TypedAccept, TypedWorker, TypedWriter DEF PipelineStep, MainStep

-----------------------------------------------------------------------------
(* The flow: the identities between the main loop and the writer, the next
   one to be written first. *)

Flow == Ids(responses) \o (Ids(InWorker) \o Ids(jobs))

\* What the worker holds is at most one request.
LEMMA InWorkerShape ==
    ASSUME Typed
    PROVE  /\ InWorker \in Seq(Requests)
           /\ Ids(InWorker) = IF Busy THEN <<worker.request.id>> ELSE <<>>
<1>1. CASE Busy
  <2>1. InWorker = <<worker.request>> /\ worker.request \in Requests
    BY <1>1 DEF InWorker, Busy, Typed, WorkerShape
  <2>2. Ids(<<worker.request>>) = <<worker.request.id>>
    BY DEF Ids
  <2> QED
    BY <1>1, <2>1, <2>2
<1>2. CASE ~Busy
  <2>1. InWorker = <<>>
    BY <1>2 DEF InWorker, Busy, Typed, ServeTypeOK
  <2>2. Ids(<<>>) = <<>>
    BY DEF Ids
  <2> QED
    BY <1>2, <2>1, <2>2
<1> QED
  BY <1>1, <1>2

\* The identities in the queues are sequences of numbers.
LEMMA QueueIds ==
    ASSUME Typed
    PROVE  /\ Ids(stdin) \in Seq(Nat) /\ Ids(jobs) \in Seq(Nat)
           /\ Ids(InWorker) \in Seq(Nat) /\ Ids(responses) \in Seq(Nat)
           /\ Ids(stdout) \in Seq(Nat)
           /\ Ids(accepted) \in Seq(Nat) /\ Ids(written) \in Seq(Nat)
           /\ Ids(InWorker) \o Ids(jobs) \in Seq(Nat)
           /\ Flow \in Seq(Nat)
<1>1. /\ Ids(stdin) \in Seq(Nat) /\ Ids(jobs) \in Seq(Nat)
      /\ Ids(InWorker) \in Seq(Nat) /\ Ids(responses) \in Seq(Nat)
      /\ Ids(stdout) \in Seq(Nat)
      /\ Ids(accepted) \in Seq(Nat) /\ Ids(written) \in Seq(Nat)
  <2>1. Ids(stdin) \in Seq(Nat)
    BY IdsSeq, Identified DEF Typed, ServeTypeOK
  <2>2. Ids(jobs) \in Seq(Nat) /\ Ids(accepted) \in Seq(Nat)
    BY IdsSeq, Identified DEF Typed, ServeTypeOK
  <2>3. Ids(responses) \in Seq(Nat) /\ Ids(stdout) \in Seq(Nat)
        /\ Ids(written) \in Seq(Nat)
    BY IdsSeq, Identified DEF Typed, ServeTypeOK
  <2>4. Ids(InWorker) \in Seq(Nat)
    BY InWorkerShape, IdsSeq, Identified
  <2> QED
    BY <2>1, <2>2, <2>3, <2>4
<1>2. Ids(InWorker) \o Ids(jobs) \in Seq(Nat)
  BY <1>1, ConcatProperties
<1>3. Flow \in Seq(Nat)
  BY <1>1, <1>2, ConcatProperties DEF Flow
<1> QED
  BY <1>1, <1>2, <1>3

\* An accepted frame joins the flow at its end.
LEMMA FlowAccepts ==
    ASSUME Typed, AcceptRequest \/ AcceptCancel
    PROVE  /\ Flow' = Append(Flow, Head(stdin).id)
           /\ Ids(accepted)' = Append(Ids(accepted), Head(stdin).id)
           /\ Ids(stdin) # <<>> /\ Head(Ids(stdin)) = Head(stdin).id
           /\ Ids(stdin)' = Tail(Ids(stdin))
<1>1. NextFrame /\ Head(stdin).op \in Operations
  BY DEF AcceptRequest, AcceptCancel, Operations
<1>2. Head(stdin) \in Requests /\ Head(stdin).id \in Nat
  BY <1>1, HeadIsFrame, Identified
<1>3. /\ stdin' = Tail(stdin) /\ jobs' = Append(jobs, Head(stdin))
      /\ accepted' = Append(accepted, Head(stdin))
      /\ UNCHANGED <<worker, responses>>
  BY DEF AcceptRequest, AcceptCancel
<1>4. jobs \in Seq(Requests) /\ accepted \in Seq(Requests)
      /\ stdin \in Seq(Requests \union {BadFrame}) /\ stdin # <<>>
  BY <1>1 DEF Typed, ServeTypeOK, NextFrame
<1>5. Ids(jobs)' = Append(Ids(jobs), Head(stdin).id)
      /\ Ids(accepted)' = Append(Ids(accepted), Head(stdin).id)
  BY <1>2, <1>3, <1>4, IdsAppend, Identified
<1>6. /\ Ids(stdin) # <<>> /\ Head(Ids(stdin)) = Head(stdin).id
      /\ Ids(stdin)' = Tail(Ids(stdin))
  BY <1>3, <1>4, IdsTail, Identified
<1>7. Ids(InWorker)' = Ids(InWorker) /\ Ids(responses)' = Ids(responses)
  BY <1>3 DEF InWorker
<1>8. Ids(InWorker) \o Append(Ids(jobs), Head(stdin).id)
        = Append(Ids(InWorker) \o Ids(jobs), Head(stdin).id)
  BY <1>2, QueueIds, AppendLast
<1>9. Ids(responses) \o Append(Ids(InWorker) \o Ids(jobs), Head(stdin).id)
        = Append(Ids(responses) \o (Ids(InWorker) \o Ids(jobs)), Head(stdin).id)
  BY <1>2, QueueIds, AppendLast
<1> QED
  BY <1>5, <1>6, <1>7, <1>8, <1>9 DEF Flow

\* The worker moves requests along the flow and drops none.
LEMMA FlowWorks ==
    ASSUME Typed, WorkerStep
    PROVE  Flow' = Flow
<1>0. Typed'
  BY TypedWorker
<1>00. Ids(InWorker)' = IF Busy' THEN <<worker'.request.id>> ELSE <<>>
  <2>1. worker'.at \in {"idle", "computing", "computed", "released", "done"}
    BY <1>0 DEF Typed, ServeTypeOK
  <2>2. Ids(<<worker'.request>>) = <<worker'.request.id>> /\ Ids(<<>>) = <<>>
    BY DEF Ids
  <2>3. InWorker' = IF Busy' THEN <<worker'.request>> ELSE <<>>
    BY <2>1 DEF InWorker, Busy
  <2> QED
    BY <2>2, <2>3
<1>1. CASE WorkerPops
  <2>1. Ids(InWorker) = <<>>
    BY <1>1, InWorkerShape DEF WorkerPops, Busy
  <2>2. Busy' /\ worker'.request = Head(jobs)
    BY <1>1 DEF WorkerPops, Busy, Idle
  <2>3. jobs \in Seq(Requests) /\ jobs # <<>>
    BY <1>1 DEF WorkerPops, Typed, ServeTypeOK
  <2>4. /\ Ids(jobs) # <<>> /\ Head(Ids(jobs)) = Head(jobs).id
        /\ Ids(jobs)' = Tail(Ids(jobs))
    BY <1>1, <2>3, IdsTail, Identified DEF WorkerPops
  <2>5. Ids(InWorker)' = <<Head(Ids(jobs))>>
    BY <1>00, <2>2, <2>4
  <2>6. <<>> \in Seq(Nat) /\ Append(<<>>, Head(Ids(jobs))) = <<Head(Ids(jobs))>>
    OBVIOUS
  <2>7. Append(<<>>, Head(Ids(jobs))) \o Tail(Ids(jobs)) = <<>> \o Ids(jobs)
    BY <2>4, <2>6, QueueIds, MoveAcross
  <2>8. Ids(responses)' = Ids(responses)
    BY <1>1 DEF WorkerPops
  <2> QED
    BY <2>1, <2>4, <2>5, <2>6, <2>7, <2>8 DEF Flow
<1>2. CASE WorkerComputes \/ WorkerReleases
  <2>1. Busy /\ Busy' /\ worker'.request = worker.request
    <3>1. CASE WorkerComputes
      BY <3>1 DEF WorkerComputes, Busy, Typed, ServeTypeOK
    <3>2. CASE WorkerReleases
      BY <3>2 DEF WorkerReleases, Busy, Typed, ServeTypeOK
    <3> QED
      BY <1>2, <3>1, <3>2
  <2>2. Ids(InWorker)' = Ids(InWorker)
    BY <2>1, <1>00, InWorkerShape
  <2>3. jobs' = jobs /\ responses' = responses
    BY <1>2 DEF WorkerComputes, WorkerReleases
  <2> QED
    BY <2>2, <2>3 DEF Flow
<1>3. CASE WorkerResponds
  <2>1. /\ worker.reply \in Responses /\ worker.reply.id = worker.request.id
        /\ Busy /\ worker.reply.id \in Nat
    BY <1>3, Identified DEF WorkerResponds, Typed, WorkerShape, Answered, Busy
  <2>2. ~Busy'
    BY <1>3 DEF WorkerResponds, Busy, Idle
  <2>3. Ids(InWorker) = <<worker.reply.id>> /\ Ids(InWorker)' = <<>>
    BY <2>1, <2>2, <1>00, InWorkerShape
  <2>4. Ids(responses)' = Append(Ids(responses), worker.reply.id)
    BY <1>3, <2>1, IdsAppend, Identified DEF WorkerResponds, Typed, ServeTypeOK
  <2>5. Ids(jobs)' = Ids(jobs)
    BY <1>3 DEF WorkerResponds
  <2>6. Append(Ids(responses), worker.reply.id) \o (<<>> \o Ids(jobs))
          = Ids(responses) \o (<<worker.reply.id>> \o Ids(jobs))
    BY <2>1, QueueIds, PassOn
  <2> QED
    BY <2>3, <2>4, <2>5, <2>6 DEF Flow
<1>4. CASE WorkerStops
  <2>1. ~Busy /\ ~Busy'
    BY <1>4 DEF WorkerStops, Busy, Idle
  <2>2. Ids(InWorker)' = Ids(InWorker)
    BY <2>1, <1>00, InWorkerShape
  <2> QED
    BY <1>4, <2>2 DEF WorkerStops, Flow
<1> QED
  BY <1>1, <1>2, <1>3, <1>4 DEF WorkerStep

\* The writer takes the head of the flow.
LEMMA FlowWrites ==
    ASSUME Typed, WriterWrites \/ WriterFails
    PROVE  /\ Flow # <<>> /\ Head(Flow) = Head(responses).id
           /\ Flow' = Tail(Flow)
           /\ WriterWrites => /\ Ids(written)' = Append(Ids(written), Head(Flow))
                              /\ Ids(stdout)' = Append(Ids(stdout), Head(Flow))
<1>1. responses \in Seq(Responses) /\ responses # <<>>
      /\ written \in Seq(Responses) /\ stdout \in Seq(Responses)
  BY DEF WriterWrites, WriterFails, Typed, ServeTypeOK
<1>2. responses' = Tail(responses) /\ UNCHANGED <<worker, jobs>>
  BY DEF WriterWrites, WriterFails
<1>3. /\ Ids(responses) # <<>> /\ Head(Ids(responses)) = Head(responses).id
      /\ Ids(responses)' = Tail(Ids(responses))
  BY <1>1, <1>2, IdsTail, Identified
<1>4. (Ids(InWorker) \o Ids(jobs))' = Ids(InWorker) \o Ids(jobs)
  BY <1>2 DEF InWorker
<1> DEFINE r == Ids(responses)
           k == Ids(InWorker) \o Ids(jobs)
<1>5. r \in Seq(Nat) /\ k \in Seq(Nat) /\ r # <<>>
  BY <1>3, QueueIds
<1>6. r \o k # <<>> /\ Head(r \o k) = Head(r) /\ Tail(r \o k) = Tail(r) \o k
  BY <1>5, TakeFirst
<1>7. Flow # <<>> /\ Head(Flow) = Head(responses).id /\ Flow' = Tail(Flow)
  BY <1>3, <1>4, <1>6 DEF Flow
<1>8. ASSUME WriterWrites
      PROVE  /\ Ids(written)' = Append(Ids(written), Head(Flow))
             /\ Ids(stdout)' = Append(Ids(stdout), Head(Flow))
  <2>1. Head(responses) \in Responses
    BY <1>1, HeadTailProperties
  <2>2. /\ Ids(Append(written, Head(responses))) = Append(Ids(written), Head(responses).id)
        /\ Ids(Append(stdout, Head(responses))) = Append(Ids(stdout), Head(responses).id)
    BY <1>1, <2>1, IdsAppend, Identified
  <2> QED
    BY <1>7, <1>8, <2>2 DEF WriterWrites
<1> QED
  BY <1>7, <1>8

-----------------------------------------------------------------------------
(* The invariant of the pipeline.  An identity is the place of its frame among
   the frames sent; a "cancelled" verdict has a fired context behind it, and a
   fired context a cancel frame sent after the request it names. *)

Orderly ==
    /\ IsPrefix(Ids(written), Ids(accepted))
    /\ writer # "failed" => Ids(accepted) = Ids(written) \o Flow

Positions ==
    /\ \A i \in 1 .. Len(accepted) : accepted[i].id = i
    /\ \A i \in 1 .. Len(stdin) :
         stdin[i] # BadFrame => stdin[i].id = Len(accepted) + i

VerdictTrail ==
    /\ Answered /\ worker.reply.verdict = "cancelled" => worker.reply.id \in fired
    /\ \A i \in 1 .. Len(responses) :
         responses[i].verdict = "cancelled" => responses[i].id \in fired
    /\ \A i \in 1 .. Len(stdout) :
         stdout[i].verdict = "cancelled" => stdout[i].id \in fired
    /\ \A i \in 1 .. Len(written) :
         written[i].verdict = "cancelled" => written[i].id \in fired

FiredTrail ==
    /\ cancels \subseteq 1 .. Len(accepted)
    /\ \A f \in fired : \E j \in 1 .. Len(accepted) :
         accepted[j].op = "cancel" /\ accepted[j].target = f /\ f < j

PipelineInvariant ==
    Typed /\ Drained /\ Orderly /\ Positions /\ VerdictTrail /\ FiredTrail

\* No step lets a request overtake another.
LEMMA OrderlyStep ==
    ASSUME Typed, Orderly, PipelineStep
    PROVE  Orderly'
<1>1. CASE AcceptRequest \/ AcceptCancel
  <2>1. /\ Flow' = Append(Flow, Head(stdin).id)
        /\ Ids(accepted)' = Append(Ids(accepted), Head(stdin).id)
    BY <1>1, FlowAccepts
  <2>2. Head(stdin).id \in Nat
    <3>1. NextFrame
      BY <1>1 DEF AcceptRequest, AcceptCancel
    <3> QED
      BY <3>1, HeadIsFrame, Identified
  <2>3. Ids(written)' = Ids(written) /\ writer' = writer
    BY <1>1 DEF AcceptRequest, AcceptCancel
  <2>4. IsPrefix(Ids(written), Append(Ids(accepted), Head(stdin).id))
    BY <2>2, QueueIds, PrefixAppend DEF Orderly
  <2>5. Ids(written) \o Append(Flow, Head(stdin).id)
          = Append(Ids(written) \o Flow, Head(stdin).id)
    BY <2>2, QueueIds, AppendLast
  <2>6. IsPrefix(Ids(written), Ids(accepted))'
    BY <2>1, <2>3, <2>4
  <2> QED
    BY <2>1, <2>3, <2>5, <2>6 DEF Orderly
<1>2. CASE StopReading \/ ServeReturns \/ WriterStops
  <2>1. /\ UNCHANGED <<worker, responses, jobs, accepted, written>>
        /\ (writer' # "failed" => writer # "failed")
    BY <1>2 DEF StopReading, ServeReturns, WriterStops
  <2>2. Ids(written)' = Ids(written) /\ Ids(accepted)' = Ids(accepted)
        /\ Flow' = Flow
    BY <2>1 DEF Flow, InWorker
  <2>3. IsPrefix(Ids(written), Ids(accepted))'
    BY <2>2 DEF Orderly
  <2> QED
    BY <2>1, <2>2, <2>3 DEF Orderly
<1>3. CASE WorkerStep
  <2>1. UNCHANGED <<accepted, written, writer>>
    BY <1>3 DEF WorkerStep, WorkerPops, WorkerComputes, WorkerReleases,
                WorkerResponds, WorkerStops
  <2>2. Ids(written)' = Ids(written) /\ Ids(accepted)' = Ids(accepted)
        /\ Flow' = Flow
    BY <1>3, <2>1, FlowWorks
  <2>3. IsPrefix(Ids(written), Ids(accepted))'
    BY <2>2 DEF Orderly
  <2> QED
    BY <2>1, <2>2, <2>3 DEF Orderly
<1>4. CASE WriterWrites
  <2>1. /\ Flow # <<>> /\ Flow' = Tail(Flow)
        /\ Ids(written)' = Append(Ids(written), Head(Flow))
    BY <1>4, FlowWrites
  <2>2. Ids(accepted)' = Ids(accepted) /\ writer # "failed" /\ writer' = writer
    BY <1>4 DEF WriterWrites
  <2>3. Append(Ids(written), Head(Flow)) \o Tail(Flow) = Ids(written) \o Flow
    BY <2>1, QueueIds, MoveAcross
  <2>4. Ids(accepted)' = Ids(written)' \o Flow'
    BY <2>1, <2>2, <2>3 DEF Orderly
  <2>5. Head(Flow) \in Nat /\ Tail(Flow) \in Seq(Nat)
    BY <2>1, QueueIds, HeadTailProperties
  <2>6. Append(Ids(written), Head(Flow)) \in Seq(Nat)
    BY <2>5, QueueIds, AppendProperties
  <2>7. IsPrefix(Append(Ids(written), Head(Flow)),
                 Append(Ids(written), Head(Flow)) \o Tail(Flow))
    BY <2>5, <2>6, PrefixConcat
  <2>8. IsPrefix(Ids(written), Ids(accepted))'
    BY <2>1, <2>4, <2>7
  <2> QED
    BY <2>4, <2>8 DEF Orderly
<1>5. CASE WriterFails
  <2>1. Ids(written)' = Ids(written) /\ Ids(accepted)' = Ids(accepted)
        /\ writer' = "failed"
    BY <1>5 DEF WriterFails
  <2>2. IsPrefix(Ids(written), Ids(accepted))'
    BY <2>1 DEF Orderly
  <2> QED
    BY <2>1, <2>2 DEF Orderly
<1> QED
  BY <1>1, <1>2, <1>3, <1>4, <1>5 DEF PipelineStep, MainStep, WriterStep

\* A loop that stops reading keeps what it still owes.
LEMMA DrainedStep ==
    ASSUME Typed, Drained, PipelineStep
    PROVE  Drained'
<1>0. worker.at \in {"idle", "computing", "computed", "released", "done"}
  BY DEF Typed, ServeTypeOK
<1>1. CASE MainStep
  BY <1>1, <1>0 DEF MainStep, AcceptRequest, AcceptCancel, StopReading,
                    ServeReturns, NextFrame, Drained
<1>2. CASE WorkerStep
  <2>1. CASE WorkerPops
    BY <2>1 DEF WorkerPops, Drained, Idle
  <2>2. CASE WorkerComputes
    BY <2>2 DEF WorkerComputes, Drained, Typed, ServeTypeOK
  <2>3. CASE WorkerReleases
    BY <2>3 DEF WorkerReleases, Drained, Typed, ServeTypeOK
  <2>4. CASE WorkerResponds
    BY <2>4 DEF WorkerResponds, Drained, Idle
  <2>5. CASE WorkerStops
    BY <2>5 DEF WorkerStops, Drained, Idle
  <2> QED
    BY <1>2, <2>1, <2>2, <2>3, <2>4, <2>5 DEF WorkerStep
<1>3. CASE WriterStep
  BY <1>3 DEF WriterStep, WriterWrites, WriterFails, WriterStops, Drained
<1> QED
  BY <1>1, <1>2, <1>3 DEF PipelineStep

\* A verdict of "cancelled" is given to a request whose context has fired, and
\* keeps its identity on its way out.
LEMMA VerdictStep ==
    ASSUME Typed, VerdictTrail, PipelineStep
    PROVE  VerdictTrail'
<1>0. /\ responses \in Seq(Responses) /\ stdout \in Seq(Responses)
      /\ written \in Seq(Responses)
      /\ Len(responses) \in Nat /\ Len(stdout) \in Nat /\ Len(written) \in Nat
  BY LenProperties DEF Typed, ServeTypeOK
<1>1. CASE MainStep
  <2>1. fired \subseteq fired' /\ UNCHANGED <<worker, responses, stdout, written>>
    BY <1>1 DEF MainStep, AcceptRequest, AcceptCancel, StopReading, ServeReturns
  <2> QED
    BY <2>1 DEF VerdictTrail, Answered
<1>2. CASE WorkerPops \/ WorkerStops
  <2>1. ~Answered' /\ UNCHANGED <<fired, responses, stdout, written>>
    BY <1>2 DEF WorkerPops, WorkerStops, Answered, Idle
  <2> QED
    BY <2>1 DEF VerdictTrail
<1>3. CASE WorkerComputes
  <2>1. PICK verdict \in Verdicts(worker.request), committed \in BOOLEAN :
          worker' = [worker EXCEPT
              !.at = "computed",
              !.reply = [id |-> worker.request.id, verdict |-> verdict,
                         arena |-> committed /\ verdict = "ok"]]
    BY <1>3 DEF WorkerComputes
  <2>2. verdict = "cancelled" => worker.request.id \in fired
    BY <2>1 DEF Verdicts
  <2>3. /\ worker'.reply.verdict = verdict /\ worker'.reply.id = worker.request.id
        /\ UNCHANGED <<fired, responses, stdout, written>>
    BY <1>3, <2>1 DEF WorkerComputes, Typed, ServeTypeOK
  <2> QED
    BY <2>2, <2>3 DEF VerdictTrail
<1>4. CASE WorkerReleases
  <2>1. /\ worker'.reply = worker.reply /\ Answered
        /\ UNCHANGED <<fired, responses, stdout, written>>
    BY <1>4 DEF WorkerReleases, Typed, ServeTypeOK, Answered
  <2> QED
    BY <2>1 DEF VerdictTrail
<1>5. CASE WorkerResponds
  <2>1. /\ ~Answered' /\ Answered /\ responses' = Append(responses, worker.reply)
        /\ worker.reply \in Responses
        /\ UNCHANGED <<fired, stdout, written>>
    BY <1>5 DEF WorkerResponds, Answered, Idle, Typed, WorkerShape
  <2>2. /\ Len(responses') = Len(responses) + 1
        /\ \A i \in 1 .. Len(responses) : responses'[i] = responses[i]
        /\ responses'[Len(responses) + 1] = worker.reply
    BY <2>1, <1>0, AppendProperties
  <2>3. \A i \in 1 .. Len(responses') :
          responses'[i].verdict = "cancelled" => responses'[i].id \in fired
    BY <1>0, <2>1, <2>2 DEF VerdictTrail
  <2> QED
    BY <2>1, <2>3 DEF VerdictTrail
<1>6. CASE WriterWrites \/ WriterFails
  <2>1. /\ responses # <<>> /\ responses' = Tail(responses)
        /\ UNCHANGED <<fired, worker>>
    BY <1>6 DEF WriterWrites, WriterFails
  <2>2. /\ Len(responses') = Len(responses) - 1 /\ Len(responses) \in Nat \ {0}
        /\ \A i \in 1 .. Len(responses') : responses'[i] = responses[i + 1]
        /\ Head(responses) = responses[1] /\ Head(responses) \in Responses
    BY <1>0, <2>1, HeadTailProperties, EmptySeq
  <2>3. \A i \in 1 .. Len(responses') :
          responses'[i].verdict = "cancelled" => responses'[i].id \in fired
    BY <1>0, <2>1, <2>2 DEF VerdictTrail
  <2>4. Head(responses).verdict = "cancelled" => Head(responses).id \in fired
    BY <2>2 DEF VerdictTrail
  <2>5. ASSUME NEW q \in Seq(Responses),
               \A i \in 1 .. Len(q) : q[i].verdict = "cancelled" => q[i].id \in fired
        PROVE  \A i \in 1 .. Len(Append(q, Head(responses))) :
                 Append(q, Head(responses))[i].verdict = "cancelled"
                   => Append(q, Head(responses))[i].id \in fired
    <3>1. /\ Len(Append(q, Head(responses))) = Len(q) + 1 /\ Len(q) \in Nat
          /\ \A i \in 1 .. Len(q) : Append(q, Head(responses))[i] = q[i]
          /\ Append(q, Head(responses))[Len(q) + 1] = Head(responses)
      BY <2>2, AppendProperties, LenProperties
    <3> QED
      BY <2>4, <2>5, <3>1
  <2>6. /\ \A i \in 1 .. Len(stdout') :
             stdout'[i].verdict = "cancelled" => stdout'[i].id \in fired
        /\ \A i \in 1 .. Len(written') :
             written'[i].verdict = "cancelled" => written'[i].id \in fired
    <3>1. CASE WriterWrites
      <4>1. stdout' = Append(stdout, Head(responses))
            /\ written' = Append(written, Head(responses))
        BY <3>1 DEF WriterWrites
      <4> QED
        BY <4>1, <2>5, <1>0 DEF VerdictTrail
    <3>2. CASE WriterFails
      BY <3>2 DEF WriterFails, VerdictTrail
    <3> QED
      BY <1>6, <3>1, <3>2
  <2> QED
    BY <2>1, <2>3, <2>6 DEF VerdictTrail, Answered
<1>7. CASE WriterStops
  BY <1>7 DEF WriterStops, VerdictTrail, Answered
<1> QED
  BY <1>1, <1>2, <1>3, <1>4, <1>5, <1>6, <1>7
     DEF PipelineStep, WorkerStep, WriterStep

\* Accepting a frame or a cancel gives it the next place.
LEMMA PlacesAccept ==
    ASSUME Typed, Positions, FiredTrail, AcceptRequest \/ AcceptCancel
    PROVE  Positions' /\ FiredTrail'
<1> DEFINE x == Head(stdin)
           n == Len(accepted)
<1>1. NextFrame /\ x.op \in Operations
  BY DEF AcceptRequest, AcceptCancel, Operations
<1>2. x \in Requests /\ x # BadFrame
  <2>1. BadFrame.op \notin Operations
    BY DEF BadFrame, Operations
  <2> QED
    BY <1>1, <2>1, HeadIsFrame
<1>3. /\ stdin \in Seq(Requests \union {BadFrame}) /\ stdin # <<>>
      /\ accepted \in Seq(Requests) /\ n \in Nat
  BY <1>1, LenProperties DEF Typed, ServeTypeOK, NextFrame
<1>4. /\ stdin' = Tail(stdin) /\ accepted' = Append(accepted, x)
  BY DEF AcceptRequest, AcceptCancel
<1>5. /\ Len(stdin') = Len(stdin) - 1 /\ Len(stdin) \in Nat \ {0}
      /\ \A i \in 1 .. Len(stdin') : stdin'[i] = stdin[i + 1]
      /\ x = stdin[1]
  BY <1>3, <1>4, HeadTailProperties, EmptySeq
<1>6. /\ Len(accepted') = n + 1
      /\ \A i \in 1 .. n : accepted'[i] = accepted[i]
      /\ accepted'[n + 1] = x
  BY <1>2, <1>3, <1>4, AppendProperties
<1> HIDE DEF x, n
<1>7. x.id = n + 1
  BY <1>2, <1>5 DEF Positions, n
<1>8. \A i \in 1 .. Len(accepted') : accepted'[i].id = i
  BY <1>3, <1>6, <1>7 DEF Positions, n
<1>9. ASSUME NEW i \in 1 .. Len(stdin'), stdin'[i] # BadFrame
      PROVE  stdin'[i].id = Len(accepted') + i
  <2>1. stdin'[i] = stdin[i + 1] /\ i + 1 \in 1 .. Len(stdin)
    BY <1>5
  <2>2. stdin[i + 1].id = n + (i + 1)
    BY <1>9, <2>1 DEF Positions, n
  <2> QED
    BY <1>3, <1>6, <2>1, <2>2
<1>10. Positions'
  BY <1>8, <1>9 DEF Positions
<1>11. cancels' \subseteq 1 .. Len(accepted')
  <2>1. cancels' \subseteq cancels \union {x.id}
    BY DEF AcceptRequest, AcceptCancel, x
  <2>2. cancels \subseteq 1 .. n
    BY DEF FiredTrail, n
  <2>3. 1 .. n \subseteq 1 .. n + 1 /\ n + 1 \in 1 .. n + 1
    BY <1>3
  <2> QED
    BY <2>1, <2>2, <2>3, <1>6, <1>7
<1>12. ASSUME NEW f \in fired'
       PROVE  \E j \in 1 .. Len(accepted') :
                accepted'[j].op = "cancel" /\ accepted'[j].target = f /\ f < j
  <2>1. CASE f \in fired
    <3>1. PICK j \in 1 .. n :
            accepted[j].op = "cancel" /\ accepted[j].target = f /\ f < j
      BY <2>1 DEF FiredTrail, n
    <3> QED
      BY <1>3, <1>6, <3>1
  <2>2. CASE f \notin fired
    <3>1. x.op = "cancel" /\ f = x.target /\ f \in cancels
      BY <1>12, <2>2 DEF AcceptRequest, AcceptCancel, x
    <3>2. f \in 1 .. n
      BY <3>1 DEF FiredTrail, n
    <3> QED
      BY <1>3, <1>6, <3>1, <3>2
  <2> QED
    BY <2>1, <2>2
<1> QED
  BY <1>10, <1>11, <1>12 DEF FiredTrail

\* Every step keeps the identities at their places and the trail of what fired.
LEMMA PlacesStep ==
    ASSUME Typed, Positions, FiredTrail, PipelineStep
    PROVE  Positions' /\ FiredTrail'
<1>1. CASE ~(AcceptRequest \/ AcceptCancel)
  <2>1. UNCHANGED <<stdin, accepted, fired>> /\ cancels' \subseteq cancels
    BY <1>1 DEF PipelineStep, MainStep, StopReading, ServeReturns, WorkerStep,
                WorkerPops, WorkerComputes, WorkerReleases, WorkerResponds,
                WorkerStops, WriterStep, WriterWrites, WriterFails, WriterStops
  <2> QED
    BY <2>1 DEF Positions, FiredTrail
<1> QED
  BY <1>1, PlacesAccept

\* The invariant holds in the beginning.
LEMMA PipelineInit == ServeInit => PipelineInvariant
<1> SUFFICES ASSUME ServeInit PROVE PipelineInvariant
  OBVIOUS
<1>1. Typed
  BY TypedInit
<1>2. Drained /\ Positions /\ VerdictTrail /\ FiredTrail
  BY DEF ServeInit, Drained, Positions, VerdictTrail, FiredTrail, Answered, Idle
<1>3. Ids(<<>>) = <<>>
  BY DEF Ids
<1>4. Ids(InWorker) = <<>>
  BY <1>1, InWorkerShape DEF ServeInit, Idle, Busy
<1>5. /\ Ids(written) = <<>> /\ Ids(accepted) = <<>>
      /\ Ids(responses) = <<>> /\ Ids(jobs) = <<>>
  BY <1>3 DEF ServeInit
<1>6. <<>> \in Seq(Nat) /\ <<>> \o <<>> = <<>>
  BY EmptySeq, ConcatEmptySeq
<1>7. IsPrefix(<<>>, <<>> \o <<>>)
  BY <1>6, PrefixConcat
<1>8. IsPrefix(Ids(written), Ids(accepted))
  BY <1>5, <1>6, <1>7
<1>9. Orderly
  BY <1>4, <1>5, <1>6, <1>8 DEF Orderly, Flow
<1> QED
  BY <1>1, <1>2, <1>9 DEF PipelineInvariant

\* A frame the client writes takes the next place of the input.
LEMMA PipelineFrameStep ==
    ASSUME PipelineInvariant, PipelineFrame
    PROVE  PipelineInvariant'
<1>0. Typed /\ stdin \in Seq(Requests \union {BadFrame}) /\ Len(stdin) \in Nat
      /\ Len(accepted) \in Nat
  BY LenProperties DEF PipelineInvariant, Typed, ServeTypeOK
<1>1. PICK op \in Operations \union {"malformed"}, target \in 0 .. MaxFrames :
        stdin' = Append(stdin,
          IF op = "malformed" THEN BadFrame
          ELSE [id |-> FramesSent + 1, op |-> op, target |-> target])
  BY DEF PipelineFrame
<1> DEFINE x == IF op = "malformed" THEN BadFrame
                ELSE [id |-> FramesSent + 1, op |-> op, target |-> target]
<1>2. /\ x \in Requests \union {BadFrame}
      /\ x # BadFrame => x.id = Len(accepted) + Len(stdin) + 1
  <2>1. FramesSent + 1 \in 1 .. MaxFrames
        /\ FramesSent = Len(accepted) + Len(stdin)
    BY <1>0, ServeAssumption DEF PipelineFrame, FramesSent
  <2>2. CASE op = "malformed"
    BY <2>2
  <2>3. CASE op # "malformed"
    BY <2>1, <2>3 DEF Requests
  <2> QED
    BY <2>2, <2>3
<1> HIDE DEF x
<1>3. /\ stdin' \in Seq(Requests \union {BadFrame})
      /\ Len(stdin') = Len(stdin) + 1
      /\ \A i \in 1 .. Len(stdin) : stdin'[i] = stdin[i]
      /\ stdin'[Len(stdin) + 1] = x
  BY <1>0, <1>1, <1>2, AppendProperties DEF x
<1>4. UNCHANGED <<inputEnd, mainLoop, cancels, fired, jobs, worker, responses,
                  writer, arena, stdout, accepted, written>>
  BY DEF PipelineFrame
<1>5. Typed'
  <2>1. ServeTypeOK'
    BY <1>0, <1>3, <1>4 DEF Typed, ServeTypeOK
  <2> QED
    BY <2>1, <1>0, <1>4 DEF Typed, WorkerShape, Busy, Answered
<1>6. Positions'
  <2>1. \A i \in 1 .. Len(accepted') : accepted'[i].id = i
    BY <1>4 DEF PipelineInvariant, Positions
  <2>2. ASSUME NEW i \in 1 .. Len(stdin'), stdin'[i] # BadFrame
        PROVE  stdin'[i].id = Len(accepted') + i
    <3>1. CASE i \in 1 .. Len(stdin)
      BY <1>0, <1>3, <1>4, <2>2, <3>1 DEF PipelineInvariant, Positions
    <3>2. CASE i = Len(stdin) + 1
      BY <1>0, <1>2, <1>3, <1>4, <2>2, <3>2
    <3> QED
      BY <1>0, <1>3, <3>1, <3>2
  <2> QED
    BY <2>1, <2>2 DEF Positions
<1>7. Drained' /\ VerdictTrail' /\ FiredTrail'
  BY <1>4 DEF PipelineInvariant, Drained, VerdictTrail, FiredTrail, Answered
<1>8. Orderly'
  <2>1. Ids(written)' = Ids(written) /\ Ids(accepted)' = Ids(accepted) /\ Flow' = Flow
    BY <1>4 DEF Flow, InWorker
  <2>2. IsPrefix(Ids(written), Ids(accepted))'
    BY <2>1 DEF PipelineInvariant, Orderly
  <2> QED
    BY <1>4, <2>1, <2>2 DEF PipelineInvariant, Orderly
<1> QED
  BY <1>5, <1>6, <1>7, <1>8 DEF PipelineInvariant

\* Closing the input, or doing nothing, changes no queue.
LEMMA PipelineStutter ==
    ASSUME PipelineInvariant, CloseInput \/ UNCHANGED serveVars
    PROVE  PipelineInvariant'
<1>1. UNCHANGED <<stdin, mainLoop, cancels, fired, jobs, worker, responses,
                  writer, arena, stdout, accepted, written>>
  BY DEF CloseInput, serveVars
<1>2. inputEnd' \in BOOLEAN
  BY DEF CloseInput, serveVars, PipelineInvariant, Typed, ServeTypeOK
<1>3. Typed'
  <2>1. ServeTypeOK'
    BY <1>1, <1>2 DEF PipelineInvariant, Typed, ServeTypeOK
  <2> QED
    BY <2>1, <1>1 DEF PipelineInvariant, Typed, WorkerShape, Busy, Answered
<1>4. Drained' /\ VerdictTrail' /\ FiredTrail' /\ Positions'
  BY <1>1 DEF PipelineInvariant, Drained, VerdictTrail, FiredTrail, Positions, Answered
<1>5. Orderly'
  <2>1. Ids(written)' = Ids(written) /\ Ids(accepted)' = Ids(accepted) /\ Flow' = Flow
    BY <1>1 DEF Flow, InWorker
  <2>2. IsPrefix(Ids(written), Ids(accepted))'
    BY <2>1 DEF PipelineInvariant, Orderly
  <2> QED
    BY <1>1, <2>1, <2>2 DEF PipelineInvariant, Orderly
<1> QED
  BY <1>3, <1>4, <1>5 DEF PipelineInvariant

\* The invariant of serve's four goroutines holds in every reachable state.
THEOREM PipelineHolds == ServeSpec => []PipelineInvariant
<1>1. ServeInit => PipelineInvariant
  BY PipelineInit
<1>2. PipelineInvariant /\ [ServeNext]_serveVars => PipelineInvariant'
  <2> SUFFICES ASSUME PipelineInvariant, [ServeNext]_serveVars
               PROVE  PipelineInvariant'
    OBVIOUS
  <2>1. CASE PipelineStep
    <3>1. Typed /\ Drained /\ Orderly /\ Positions /\ VerdictTrail /\ FiredTrail
      BY DEF PipelineInvariant
    <3>2. Typed' /\ Drained' /\ Orderly'
      BY <2>1, <3>1, TypedStep, DrainedStep, OrderlyStep
    <3>3. Positions' /\ FiredTrail'
      BY <2>1, <3>1, PlacesStep
    <3>4. VerdictTrail'
      BY <2>1, <3>1, VerdictStep
    <3> QED
      BY <3>2, <3>3, <3>4 DEF PipelineInvariant
  <2>2. CASE PipelineFrame
    BY <2>2, PipelineFrameStep
  <2>3. CASE CloseInput \/ UNCHANGED serveVars
    BY <2>3, PipelineStutter
  <2> QED
    BY <2>1, <2>2, <2>3 DEF ServeNext, PipelineStep
<1> QED
  BY <1>1, <1>2, PTL DEF ServeSpec

\* The pipeline's type invariant, for every number of frames.
THEOREM ServeTypeCorrect == ServeSpec => []ServeTypeOK
<1>1. PipelineInvariant => ServeTypeOK
  BY DEF PipelineInvariant, Typed
<1> QED
  BY <1>1, PipelineHolds, PTL

\* serve answers in arrival order, exactly once, whatever its goroutines'
\* interleaving and however many frames the client has in flight.
THEOREM AnswersInArrivalOrder == ServeSpec => []ArrivalOrder
<1>1. ASSUME PipelineInvariant PROVE ArrivalOrder
  <2>1. Typed /\ Orderly
    BY <1>1 DEF PipelineInvariant
  <2> DEFINE w == Ids(written)
             r == Ids(responses)
             k == Ids(InWorker)
             j == Ids(jobs)
  <2>2. w \in Seq(Nat) /\ r \in Seq(Nat) /\ k \in Seq(Nat) /\ j \in Seq(Nat)
    BY <2>1, QueueIds
  <2> HIDE DEF w, r, k, j
  <2>3. ((w \o r) \o k) \o j = w \o (r \o (k \o j))
    <3>1. \A a, b, c, d \in Seq(Nat) : ((a \o b) \o c) \o d = a \o (b \o (c \o d))
      BY FourQueues
    <3>2. \A c, d \in Seq(Nat) : ((w \o r) \o c) \o d = w \o (r \o (c \o d))
      BY <2>2, <3>1, Zenon
    <3> QED
      BY <2>2, <3>2, Zenon
  <2>4. /\ IsPrefix(Ids(written), Ids(accepted))
        /\ writer # "failed" => Ids(accepted) = w \o (r \o (k \o j))
    BY <2>1, Zenon DEF Orderly, Flow, w, r, k, j
  <2>5. writer # "failed" => Ids(accepted) = ((w \o r) \o k) \o j
    BY <2>3, <2>4, Zenon
  <2> QED
    BY <2>4, <2>5, Zenon DEF ArrivalOrder, w, r, k, j
<1> QED
  BY <1>1, PipelineHolds, PTL

\* A request is answered "cancelled" only because of a cancel frame that names
\* it and was sent after it.
THEOREM CancelsHitTheirTarget == ServeSpec => []OnlyTargetsCancelled
<1>1. ASSUME PipelineInvariant PROVE OnlyTargetsCancelled
  <2>1. Typed /\ Orderly /\ Positions /\ VerdictTrail /\ FiredTrail
    BY <1>1 DEF PipelineInvariant
  <2>2. /\ written \in Seq(Responses) /\ accepted \in Seq(Requests)
        /\ DOMAIN written = 1 .. Len(written) /\ DOMAIN accepted = 1 .. Len(accepted)
        /\ Len(written) \in Nat /\ Len(accepted) \in Nat
    BY <2>1, LenProperties DEF Typed, ServeTypeOK
  <2>3. /\ Len(Ids(written)) = Len(written)
        /\ \A i \in 1 .. Len(written) : Ids(written)[i] = written[i].id
    BY <2>2, IdsSeq, Identified
  <2>4. /\ Len(Ids(accepted)) = Len(accepted)
        /\ \A i \in 1 .. Len(accepted) : Ids(accepted)[i] = accepted[i].id
    BY <2>2, IdsSeq, Identified
  <2>5. /\ Len(Ids(written)) <= Len(Ids(accepted))
        /\ \A i \in 1 .. Len(Ids(written)) : Ids(written)[i] = Ids(accepted)[i]
    <3>1. Ids(written) \in Seq(Nat) /\ Ids(accepted) \in Seq(Nat)
      BY <2>1, QueueIds
    <3> QED
      BY <2>1, <3>1, PrefixByPlace DEF Orderly
  <2>6. \A i \in 1 .. Len(written) : written[i].id = i
    BY <2>1, <2>2, <2>3, <2>4, <2>5 DEF Positions
  <2>7. ASSUME NEW i \in 1 .. Len(written), written[i].verdict = "cancelled"
        PROVE  \E j \in 1 .. Len(accepted) :
                 accepted[j].op = "cancel" /\ accepted[j].target = written[i].id /\ i < j
    <3>1. written[i].id \in fired
      BY <2>1, <2>7 DEF VerdictTrail
    <3> QED
      BY <2>1, <2>6, <3>1 DEF FiredTrail
  <2> QED
    BY <2>2, <2>7 DEF OnlyTargetsCancelled
<1> QED
  BY <1>1, PipelineHolds, PTL

\* When serve returns without a write error, no accepted request is left
\* without its answer.
THEOREM DrainsBeforeReturning == ServeSpec => []DrainAnswersAll
<1>1. ASSUME PipelineInvariant PROVE DrainAnswersAll
  <2>1. SUFFICES ASSUME writer = "done" PROVE Len(written) = Len(accepted)
    BY DEF DrainAnswersAll
  <2>2. Typed /\ Orderly /\ Drained
    BY <1>1 DEF PipelineInvariant
  <2>3. worker.at = "done" /\ responses = <<>> /\ jobs = <<>>
    BY <2>1, <2>2 DEF Drained
  <2>4. Ids(<<>>) = <<>>
    BY DEF Ids
  <2>5. Ids(InWorker) = <<>> /\ Ids(responses) = <<>> /\ Ids(jobs) = <<>>
    BY <2>2, <2>3, <2>4, InWorkerShape DEF Busy
  <2>6. <<>> \in Seq(Nat) /\ <<>> \o <<>> = <<>>
    BY EmptySeq, ConcatEmptySeq
  <2>7. Ids(written) \o Flow = Ids(written)
    BY <2>2, <2>5, <2>6, QueueIds, ConcatEmptySeq DEF Flow
  <2>8. Ids(accepted) = Ids(written)
    BY <2>1, <2>2, <2>7 DEF Orderly
  <2>9. Len(Ids(written)) = Len(written) /\ Len(Ids(accepted)) = Len(accepted)
    BY <2>2, IdsSeq, Identified DEF Typed, ServeTypeOK
  <2> QED
    BY <2>8, <2>9
<1> QED
  BY <1>1, PipelineHolds, PTL

-----------------------------------------------------------------------------
(* Shapes of the client's state. *)

CallOps == {"update", "analyze", "symbols"}
Callers == [at : {"idle", "registered", "waiting", "restarting",
                  "handshaking", "joining"},
            request : Requests \union {NoRequest}, restarts : BOOLEAN]
Messages == [kind : {"empty", "lost", "ok", "error", "cancelled"},
             id : 0 .. MaxFrames]
Startups == [link : {"open", "choked", "starting", "none"},
             frame : {NoFrame, "expected", "incompatible", "garbled"},
             thread : {"reading", "sending", "done"},
             channel : {NoFrame, "expected", "incompatible", "garbled"}]

InCall == caller.at \in {"registered", "waiting"}

ClientShape ==
    /\ alive \in BOOLEAN /\ readerUp \in BOOLEAN
    /\ epoch \in Nat \ {0} /\ nextId \in 1 .. MaxFrames + 1
    /\ caller \in Callers
    /\ caller.at # "idle" =>
         caller.request \in Requests /\ caller.request.op \in CallOps
    /\ inbox \in Messages
    /\ canceller \in [target : 0 .. MaxFrames, epoch : Nat]
    /\ startup \in Startups
    /\ calls \in Nat /\ cancelCalls \in Nat /\ crashes \in Nat

\* Each call opens at most one connection more, so the bounds bound it all.
Counters ==
    /\ calls <= MaxCalls /\ cancelCalls <= MaxCancels /\ crashes <= MaxCrashes
    /\ epoch <= calls + 1
    /\ caller.restarts /\ caller.at # "idle" /\ startup.link # "starting" => epoch <= calls
    /\ caller.at # "idle" => 1 <= calls
    /\ aimed \subseteq 1 .. calls

\* Where the call is tells what the link is.
Phases ==
    /\ caller.at \in {"handshaking", "joining"} <=> startup.link = "starting"
    /\ startup.link \in {"starting", "none"} => ~readerUp
    /\ startup.link = "none" => caller.at = "idle"
    /\ caller.at = "restarting" => caller.restarts
    /\ startup.link = "open" /\ ~readerUp => ~alive

\* No frame is anywhere between the client's write and its read.
Quiet == stdin = <<>> /\ jobs = <<>> /\ ~Busy /\ responses = <<>> /\ stdout = <<>>

\* The row: the identities of all the frames between the client's write and
\* its read, the next one to be read first.
Row == Ids(stdout) \o (Flow \o Ids(stdin))
Distinct(s) == \A i, j \in 1 .. Len(s) : s[i] = s[j] => i = j
Elems(s) == {s[i] : i \in 1 .. Len(s)}

RowSound ==
    /\ Distinct(Row)
    /\ \A x \in Elems(Row) : x \in Nat /\ x < nextId
    /\ InCall => caller.request.id < nextId
    /\ caller.at = "registered" => caller.request.id \notin Elems(Row)
    /\ startup.link = "starting" => Quiet

\* What can be pending, and what the channel may hold.
Channel ==
    /\ pending \subseteq IF InCall THEN {caller.request.id} ELSE {}
    /\ \/ inbox = NoMessage
       \/ inbox = Lost /\ ~readerUp /\ pending = {}
       \/ /\ inbox.kind \in {"ok", "error", "cancelled"}
          /\ caller.at = "waiting" /\ inbox.id = caller.request.id
          /\ pending = {} /\ inbox.id \notin Elems(Row)
          /\ inbox.kind = "cancelled" => inbox.id \in fired
    /\ InCall /\ inbox = NoMessage /\ startup.link # "choked" =>
         \/ readerUp /\ caller.request.id \in pending
         \/ caller.at = "registered" /\ ~alive

\* One call at a time: everything on the way that is not a cancel or its
\* acknowledgement belongs to the call that waits, and the arena holds the
\* rows of a response that names it.
Mine(x) == caller.at = "waiting" /\ x = caller.request.id
OwnRequest(q) == q.op # "cancel" => Mine(q.id)
OwnResponse(r) == r.arena => arena = r.id /\ Mine(r.id)

Upstream == \A i \in 1 .. Len(stdin) : OwnRequest(stdin[i])
Downstream ==
    /\ \A i \in 1 .. Len(jobs) : OwnRequest(jobs[i])
    /\ Busy => OwnRequest(worker.request)
    /\ Answered => OwnResponse(worker.reply)
    /\ \A i \in 1 .. Len(responses) : OwnResponse(responses[i])
    /\ \A i \in 1 .. Len(stdout) : OwnResponse(stdout[i])

OneCall == readerUp => Upstream /\ Downstream

\* A target names the call in progress only if the call was aimed at.
Aims(t) ==
    t \in Nat /\ t < nextId /\ (InCall /\ t = caller.request.id => calls \in aimed)

Aimed ==
    /\ \A i \in 1 .. Len(stdin) : stdin[i].op = "cancel" => Aims(stdin[i].target)
    /\ \A f \in fired : Aims(f)

AimTrail ==
    /\ Aimed
    /\ active \in IF InCall THEN {0, caller.request.id} ELSE {0}
    /\ canceller.epoch <= epoch
    /\ canceller.epoch = epoch => Aims(canceller.target)
    /\ startup.link = "starting" => canceller.epoch < epoch /\ fired = {}

ConnectionInvariant ==
    /\ Typed /\ VerdictTrail
    /\ ClientShape /\ Counters /\ Phases
    /\ RowSound /\ Channel /\ OneCall /\ AimTrail

-----------------------------------------------------------------------------
(* Rows without repetition. *)

\* Appending adds one element.
LEMMA ElemsAppend ==
    ASSUME NEW s \in Seq(Nat), NEW x \in Nat
    PROVE  Elems(Append(s, x)) = Elems(s) \union {x}
<1>1. /\ Len(s) \in Nat /\ Len(Append(s, x)) = Len(s) + 1
      /\ \A i \in 1 .. Len(s) : Append(s, x)[i] = s[i]
      /\ Append(s, x)[Len(s) + 1] = x
  BY AppendProperties, LenProperties
<1>2. ASSUME NEW y \in Elems(Append(s, x)) PROVE y \in Elems(s) \union {x}
  <2>1. PICK i \in 1 .. Len(s) + 1 : y = Append(s, x)[i]
    BY <1>1, <1>2 DEF Elems
  <2> QED
    BY <1>1, <2>1 DEF Elems
<1>3. ASSUME NEW y \in Elems(s) PROVE y \in Elems(Append(s, x))
  <2>1. PICK i \in 1 .. Len(s) : y = s[i]
    BY <1>3 DEF Elems
  <2>2. i \in 1 .. Len(Append(s, x)) /\ y = Append(s, x)[i]
    BY <1>1, <2>1
  <2> QED
    BY <2>2 DEF Elems
<1>4. x \in Elems(Append(s, x))
  <2>1. Len(s) + 1 \in 1 .. Len(Append(s, x))
    BY <1>1
  <2> QED
    BY <1>1, <2>1 DEF Elems
<1> QED
  BY <1>2, <1>3, <1>4

\* A new element keeps a sequence free of repetitions.
LEMMA DistinctAppend ==
    ASSUME NEW s \in Seq(Nat), NEW x \in Nat, Distinct(s), x \notin Elems(s)
    PROVE  Distinct(Append(s, x))
<1>1. /\ Len(s) \in Nat /\ Len(Append(s, x)) = Len(s) + 1
      /\ \A i \in 1 .. Len(s) : Append(s, x)[i] = s[i]
      /\ Append(s, x)[Len(s) + 1] = x
  BY AppendProperties, LenProperties
<1>2. \A i \in 1 .. Len(s) : s[i] # x
  BY DEF Elems
<1>3. \A i \in 1 .. Len(s) + 1 : i \in 1 .. Len(s) \/ i = Len(s) + 1
  BY <1>1
<1> QED
  BY <1>1, <1>2, <1>3 DEF Distinct

\* Taking the first frame leaves no other with its identity.
LEMMA DistinctTail ==
    ASSUME NEW s \in Seq(Nat), s # <<>>, Distinct(s)
    PROVE  /\ Distinct(Tail(s))
           /\ Elems(Tail(s)) \subseteq Elems(s)
           /\ Head(s) \notin Elems(Tail(s)) /\ Head(s) \in Elems(s)
<1>1. /\ Len(s) \in Nat \ {0} /\ Len(Tail(s)) = Len(s) - 1
      /\ \A i \in 1 .. Len(Tail(s)) : Tail(s)[i] = s[i + 1]
      /\ Head(s) = s[1]
  BY HeadTailProperties, EmptySeq
<1>2. \A i \in 1 .. Len(Tail(s)) : i + 1 \in 1 .. Len(s) /\ i + 1 # 1
  BY <1>1
<1>3. 1 \in 1 .. Len(s)
  BY <1>1
<1>4. Distinct(Tail(s))
  <2>1. SUFFICES ASSUME NEW i \in 1 .. Len(Tail(s)), NEW j \in 1 .. Len(Tail(s)),
                        Tail(s)[i] = Tail(s)[j]
                 PROVE  i = j
    BY DEF Distinct
  <2>2. i + 1 = j + 1
    BY <1>1, <1>2, <2>1 DEF Distinct
  <2> QED
    BY <2>2
<1>5. \A i \in 1 .. Len(Tail(s)) : Tail(s)[i] # s[1]
  BY <1>1, <1>2, <1>3 DEF Distinct
<1> QED
  BY <1>1, <1>2, <1>3, <1>4, <1>5 DEF Elems

\* A frame dropped in the middle of the row.
LEMMA DistinctDrop ==
    ASSUME NEW s \in Seq(Nat), NEW t \in Seq(Nat), t # <<>>, Distinct(s \o t)
    PROVE  /\ Distinct(s \o Tail(t))
           /\ Elems(s \o Tail(t)) \subseteq Elems(s \o t)
<1>1. /\ Tail(t) \in Seq(Nat) /\ Len(Tail(t)) = Len(t) - 1
      /\ \A i \in 1 .. Len(Tail(t)) : Tail(t)[i] = t[i + 1]
      /\ Len(t) \in Nat \ {0} /\ Len(s) \in Nat
  BY HeadTailProperties, EmptySeq, LenProperties
<1> DEFINE u == s \o t
           v == s \o Tail(t)
           at(i) == IF i <= Len(s) THEN i ELSE i + 1
<1>2. /\ Len(u) = Len(s) + Len(t)
      /\ \A i \in 1 .. Len(s) + Len(t) :
            u[i] = IF i <= Len(s) THEN s[i] ELSE t[i - Len(s)]
  BY ConcatProperties
<1>3. /\ Len(v) = Len(s) + Len(Tail(t))
      /\ \A i \in 1 .. Len(s) + Len(Tail(t)) :
            v[i] = IF i <= Len(s) THEN s[i] ELSE Tail(t)[i - Len(s)]
  BY <1>1, ConcatProperties
<1> HIDE DEF u, v
<1>4. ASSUME NEW i \in 1 .. Len(v)
      PROVE  at(i) \in 1 .. Len(u) /\ v[i] = u[at(i)]
  <2>1. i \in Nat /\ at(i) \in 1 .. Len(u)
    BY <1>1, <1>2, <1>3
  <2>2. CASE i <= Len(s)
    BY <1>1, <1>2, <1>3, <2>1, <2>2
  <2>3. CASE i > Len(s)
    <3>1. v[i] = Tail(t)[i - Len(s)] /\ i - Len(s) \in 1 .. Len(Tail(t))
      <4>1. /\ i \in 1 .. Len(s) + Len(Tail(t)) /\ ~(i <= Len(s))
            /\ i - Len(s) \in 1 .. Len(Tail(t))
        BY <1>1, <1>3, <2>3
      <4> QED
        BY <1>3, <4>1
    <3>2. v[i] = t[i - Len(s) + 1]
      BY <1>1, <3>1
    <3>3. u[i + 1] = t[i + 1 - Len(s)]
      <4>1. i + 1 \in 1 .. Len(s) + Len(t) /\ ~(i + 1 <= Len(s))
        BY <1>1, <1>3, <2>1, <2>3
      <4> QED
        BY <1>2, <4>1
    <3>4. i - Len(s) + 1 = i + 1 - Len(s) /\ at(i) = i + 1
      BY <1>1, <2>1, <2>3
    <3> QED
      BY <2>1, <3>2, <3>3, <3>4
  <2> QED
    BY <2>1, <2>2, <2>3, <1>1
<1>5. \A i, j \in 1 .. Len(v) : at(i) = at(j) => i = j
  BY <1>1, <1>3
<1>6. Distinct(v)
  <2>1. SUFFICES ASSUME NEW i \in 1 .. Len(v), NEW j \in 1 .. Len(v), v[i] = v[j]
                 PROVE  i = j
    BY DEF Distinct
  <2>2. u[at(i)] = u[at(j)] /\ at(i) \in 1 .. Len(u) /\ at(j) \in 1 .. Len(u)
    BY <1>4, <2>1
  <2>3. Distinct(u)
    BY DEF u
  <2> HIDE DEF at
  <2>4. at(i) = at(j)
    BY <2>2, <2>3 DEF Distinct
  <2> QED
    BY <1>5, <2>4
<1>7. Elems(v) \subseteq Elems(u)
  <2>1. SUFFICES ASSUME NEW i \in 1 .. Len(v) PROVE v[i] \in Elems(u)
    BY DEF Elems
  <2>2. at(i) \in 1 .. Len(u) /\ v[i] = u[at(i)]
    BY <1>4
  <2> HIDE DEF at
  <2> QED
    BY <2>2 DEF Elems
<1> QED
  BY <1>6, <1>7 DEF u, v

\* The places of two queues in a row.
Joined(row, a, b) ==
    /\ row \in Seq(Nat) /\ Len(row) = Len(a) + Len(b)
    /\ \A i \in 1 .. Len(a) : row[i] = a[i]
    /\ \A i \in 1 .. Len(b) : row[Len(a) + i] = b[i]

\* The places of two queues joined.
LEMMA TwoPlaces ==
    ASSUME NEW a \in Seq(Nat), NEW b \in Seq(Nat)
    PROVE  Joined(a \o b, a, b) /\ a \o b \in Seq(Nat)
<1> DEFINE row == a \o b
<1>1. /\ row \in Seq(Nat) /\ Len(row) = Len(a) + Len(b)
      /\ \A i \in 1 .. Len(a) + Len(b) :
            row[i] = IF i <= Len(a) THEN a[i] ELSE b[i - Len(a)]
  BY ConcatProperties
<1> HIDE DEF row
<1>2. Len(a) \in Nat /\ Len(b) \in Nat
  BY LenProperties
<1>3. \A i \in 1 .. Len(a) : row[i] = a[i]
  BY <1>1, <1>2
<1>4. ASSUME NEW i \in 1 .. Len(b) PROVE row[Len(a) + i] = b[i]
  <2>1. /\ Len(a) + i \in 1 .. Len(a) + Len(b) /\ ~(Len(a) + i <= Len(a))
        /\ Len(a) + i - Len(a) = i
    BY <1>2
  <2> QED
    BY <1>1, <2>1
<1>5. Joined(row, a, b)
  BY <1>1, <1>3, <1>4 DEF Joined
<1> QED
  BY <1>1, <1>5, Zenon DEF row

\* The places of a row of five queues.
LEMMA FivePlaces ==
    ASSUME NEW o \in Seq(Nat), NEW r \in Seq(Nat), NEW k \in Seq(Nat),
           NEW j \in Seq(Nat), NEW n \in Seq(Nat),
           NEW kj, Joined(kj, k, j), NEW f, Joined(f, r, kj),
           NEW g, Joined(g, f, n), NEW row, Joined(row, o, g)
    PROVE  /\ row \in Seq(Nat)
           /\ Len(row) = Len(o) + Len(r) + Len(k) + Len(j) + Len(n)
           /\ \A i \in 1 .. Len(o) : row[i] = o[i]
           /\ \A i \in 1 .. Len(r) : row[Len(o) + i] = r[i]
           /\ \A i \in 1 .. Len(k) : row[Len(o) + Len(r) + i] = k[i]
           /\ \A i \in 1 .. Len(j) : row[Len(o) + Len(r) + Len(k) + i] = j[i]
           /\ \A i \in 1 .. Len(n) :
                row[Len(o) + Len(r) + Len(k) + Len(j) + i] = n[i]
<1>0. Len(o) \in Nat /\ Len(r) \in Nat /\ Len(k) \in Nat /\ Len(j) \in Nat
      /\ Len(n) \in Nat
  BY LenProperties
<1>1. /\ kj \in Seq(Nat) /\ Len(kj) = Len(k) + Len(j)
      /\ \A i \in 1 .. Len(k) : kj[i] = k[i]
      /\ \A i \in 1 .. Len(j) : kj[Len(k) + i] = j[i]
  BY DEF Joined
<1>2. /\ f \in Seq(Nat) /\ Len(f) = Len(r) + Len(kj)
      /\ \A i \in 1 .. Len(r) : f[i] = r[i]
      /\ \A i \in 1 .. Len(kj) : f[Len(r) + i] = kj[i]
  BY DEF Joined
<1>3. /\ g \in Seq(Nat) /\ Len(g) = Len(f) + Len(n)
      /\ \A i \in 1 .. Len(f) : g[i] = f[i]
      /\ \A i \in 1 .. Len(n) : g[Len(f) + i] = n[i]
  BY DEF Joined
<1>4. /\ row \in Seq(Nat) /\ Len(row) = Len(o) + Len(g)
      /\ \A i \in 1 .. Len(o) : row[i] = o[i]
      /\ \A i \in 1 .. Len(g) : row[Len(o) + i] = g[i]
  BY DEF Joined
<1>5. /\ Len(kj) \in Nat /\ Len(f) = Len(r) + Len(k) + Len(j)
      /\ Len(g) = Len(r) + Len(k) + Len(j) + Len(n)
  BY <1>0, <1>1, <1>2, <1>3
<1>6. ASSUME NEW i \in 1 .. Len(f) PROVE row[Len(o) + i] = f[i]
  <2>1. i \in 1 .. Len(g)
    BY <1>0, <1>5
  <2> QED
    BY <1>3, <1>4, <2>1
<1>7. ASSUME NEW i \in 1 .. Len(r) PROVE row[Len(o) + i] = r[i]
  <2>1. i \in 1 .. Len(f)
    BY <1>0, <1>5
  <2> QED
    BY <1>2, <1>6, <2>1
<1>8. ASSUME NEW i \in 1 .. Len(kj) PROVE row[Len(o) + Len(r) + i] = kj[i]
  <2>1. Len(r) + i \in 1 .. Len(f) /\ i \in Nat
    BY <1>0, <1>1, <1>5
  <2>2. row[Len(o) + (Len(r) + i)] = f[Len(r) + i]
    BY <1>6, <2>1
  <2>3. Len(o) + (Len(r) + i) = Len(o) + Len(r) + i
    BY <1>0, <2>1
  <2> QED
    BY <1>2, <2>2, <2>3
<1>9. ASSUME NEW i \in 1 .. Len(k) PROVE row[Len(o) + Len(r) + i] = k[i]
  <2>1. i \in 1 .. Len(kj)
    BY <1>0, <1>1
  <2> QED
    BY <1>1, <1>8, <2>1
<1>10. ASSUME NEW i \in 1 .. Len(j) PROVE row[Len(o) + Len(r) + Len(k) + i] = j[i]
  <2>1. Len(k) + i \in 1 .. Len(kj) /\ i \in Nat
    BY <1>0, <1>1
  <2>2. row[Len(o) + Len(r) + (Len(k) + i)] = kj[Len(k) + i]
    BY <1>8, <2>1
  <2>3. Len(o) + Len(r) + (Len(k) + i) = Len(o) + Len(r) + Len(k) + i
    BY <1>0, <2>1
  <2> QED
    BY <1>1, <2>2, <2>3
<1>11. ASSUME NEW i \in 1 .. Len(n)
       PROVE  row[Len(o) + Len(r) + Len(k) + Len(j) + i] = n[i]
  <2>1. Len(f) + i \in 1 .. Len(g) /\ i \in Nat
    BY <1>0, <1>3, <1>5
  <2>2. row[Len(o) + (Len(f) + i)] = g[Len(f) + i]
    BY <1>4, <2>1
  <2>3. Len(o) + (Len(f) + i) = Len(o) + Len(r) + Len(k) + Len(j) + i
    BY <1>0, <1>5, <2>1
  <2> QED
    BY <1>3, <2>2, <2>3
<1>12. Len(row) = Len(o) + Len(r) + Len(k) + Len(j) + Len(n)
  BY <1>0, <1>4, <1>5
<1> QED
  BY <1>4, <1>7, <1>9, <1>10, <1>11, <1>12

-----------------------------------------------------------------------------
(* The row, place by place and step by step. *)

\* All the queues of the Row are sequences of identities.
LEMMA RowSeq ==
    ASSUME Typed
    PROVE  /\ Ids(stdout) \in Seq(Nat) /\ Flow \in Seq(Nat) /\ Ids(stdin) \in Seq(Nat)
           /\ Flow \o Ids(stdin) \in Seq(Nat) /\ Row \in Seq(Nat)
<1>1. Ids(stdout) \in Seq(Nat) /\ Flow \in Seq(Nat) /\ Ids(stdin) \in Seq(Nat)
  BY QueueIds
<1>2. Flow \o Ids(stdin) \in Seq(Nat)
  BY <1>1, ConcatProperties
<1>3. Row \in Seq(Nat)
  BY <1>1, <1>2, ConcatProperties DEF Row
<1> QED
  BY <1>1, <1>2, <1>3

\* Where each queue lies in the Row.
LEMMA RowPlaces ==
    ASSUME Typed
    PROVE  LET lo == Len(stdout)
               lr == Len(responses)
               lk == IF Busy THEN 1 ELSE 0
               lj == Len(jobs)
           IN  /\ lo \in Nat /\ lr \in Nat /\ lj \in Nat /\ Len(stdin) \in Nat
               /\ Len(Row) = lo + lr + lk + lj + Len(stdin)
               /\ \A i \in 1 .. lo : Row[i] = stdout[i].id
               /\ \A i \in 1 .. lr : Row[lo + i] = responses[i].id
               /\ Busy => Row[lo + lr + 1] = worker.request.id
               /\ \A i \in 1 .. lj : Row[lo + lr + lk + i] = jobs[i].id
               /\ \A i \in 1 .. Len(stdin) : Row[lo + lr + lk + lj + i] = stdin[i].id
<1> DEFINE o == Ids(stdout)
           r == Ids(responses)
           k == Ids(InWorker)
           j == Ids(jobs)
           n == Ids(stdin)
           kj == k \o j
           f == r \o kj
           g == f \o n
           row == o \o g
<1>1. o \in Seq(Nat) /\ r \in Seq(Nat) /\ k \in Seq(Nat) /\ j \in Seq(Nat)
      /\ n \in Seq(Nat)
  BY QueueIds
<1>2. row = Row
  BY DEF Row, Flow
<1>3. Joined(kj, k, j) /\ Joined(f, r, kj) /\ Joined(g, f, n) /\ Joined(row, o, g)
  <2> HIDE DEF o, r, k, j, n
  <2>1. kj \in Seq(Nat) /\ Joined(kj, k, j)
    BY <1>1, TwoPlaces
  <2> HIDE DEF kj
  <2>2. f \in Seq(Nat) /\ Joined(f, r, kj)
    BY <1>1, <2>1, TwoPlaces
  <2> HIDE DEF f
  <2>3. g \in Seq(Nat) /\ Joined(g, f, n)
    BY <1>1, <2>2, TwoPlaces
  <2> HIDE DEF g
  <2>4. Joined(row, o, g)
    BY <1>1, <2>3, TwoPlaces
  <2> QED
    BY <2>1, <2>2, <2>3, <2>4
<1>4. /\ Len(o) = Len(stdout) /\ \A i \in 1 .. Len(stdout) : o[i] = stdout[i].id
  BY IdsSeq, Identified DEF Typed, ServeTypeOK
<1>5. /\ Len(r) = Len(responses)
      /\ \A i \in 1 .. Len(responses) : r[i] = responses[i].id
  BY IdsSeq, Identified DEF Typed, ServeTypeOK
<1>6. /\ Len(j) = Len(jobs) /\ \A i \in 1 .. Len(jobs) : j[i] = jobs[i].id
  BY IdsSeq, Identified DEF Typed, ServeTypeOK
<1>7. /\ Len(n) = Len(stdin) /\ \A i \in 1 .. Len(stdin) : n[i] = stdin[i].id
  BY IdsSeq, Identified DEF Typed, ServeTypeOK
<1>8. k = IF Busy THEN <<worker.request.id>> ELSE <<>>
  BY InWorkerShape
<1>9. /\ Len(stdout) \in Nat /\ Len(responses) \in Nat /\ Len(jobs) \in Nat
      /\ Len(stdin) \in Nat
  BY LenProperties DEF Typed, ServeTypeOK
<1> HIDE DEF o, r, k, j, n, kj, f, g, row
<1>10. Len(k) = (IF Busy THEN 1 ELSE 0) /\ (Busy => k[1] = worker.request.id)
  BY <1>8
<1>11. /\ Len(row) = Len(o) + Len(r) + Len(k) + Len(j) + Len(n)
       /\ \A i \in 1 .. Len(o) : row[i] = o[i]
       /\ \A i \in 1 .. Len(r) : row[Len(o) + i] = r[i]
       /\ \A i \in 1 .. Len(k) : row[Len(o) + Len(r) + i] = k[i]
       /\ \A i \in 1 .. Len(j) : row[Len(o) + Len(r) + Len(k) + i] = j[i]
       /\ \A i \in 1 .. Len(n) :
            row[Len(o) + Len(r) + Len(k) + Len(j) + i] = n[i]
  BY <1>1, <1>3, FivePlaces
<1> QED
  BY <1>2, <1>4, <1>5, <1>6, <1>7, <1>9, <1>10, <1>11

\* Every frame on the way is an element of the row.
LEMMA RowHolds ==
    ASSUME Typed
    PROVE  /\ \A i \in 1 .. Len(stdout) : stdout[i].id \in Elems(Row)
           /\ \A i \in 1 .. Len(responses) : responses[i].id \in Elems(Row)
           /\ Busy => worker.request.id \in Elems(Row)
           /\ \A i \in 1 .. Len(jobs) : jobs[i].id \in Elems(Row)
           /\ \A i \in 1 .. Len(stdin) : stdin[i].id \in Elems(Row)
<1> DEFINE lo == Len(stdout)
           lr == Len(responses)
           lk == IF Busy THEN 1 ELSE 0
           lj == Len(jobs)
<1>1. /\ lo \in Nat /\ lr \in Nat /\ lj \in Nat /\ Len(stdin) \in Nat /\ lk \in Nat
      /\ Len(Row) = lo + lr + lk + lj + Len(stdin)
      /\ Busy => lk = 1
  BY RowPlaces
<1>2. /\ \A i \in 1 .. lo : Row[i] = stdout[i].id
      /\ \A i \in 1 .. lr : Row[lo + i] = responses[i].id
      /\ Busy => Row[lo + lr + 1] = worker.request.id
      /\ \A i \in 1 .. lj : Row[lo + lr + lk + i] = jobs[i].id
      /\ \A i \in 1 .. Len(stdin) : Row[lo + lr + lk + lj + i] = stdin[i].id
  BY RowPlaces
<1> HIDE DEF lo, lr, lk, lj
<1>3. /\ \A i \in 1 .. lo : i \in 1 .. Len(Row)
      /\ \A i \in 1 .. lr : lo + i \in 1 .. Len(Row)
      /\ Busy => lo + lr + 1 \in 1 .. Len(Row)
      /\ \A i \in 1 .. lj : lo + lr + lk + i \in 1 .. Len(Row)
      /\ \A i \in 1 .. Len(stdin) : lo + lr + lk + lj + i \in 1 .. Len(Row)
  BY <1>1
<1>4. \A p \in 1 .. Len(Row) : Row[p] \in Elems(Row)
  BY DEF Elems
<1>5. /\ \A i \in 1 .. lo : stdout[i].id \in Elems(Row)
      /\ \A i \in 1 .. lr : responses[i].id \in Elems(Row)
  BY <1>2, <1>3, <1>4
<1>6. Busy => worker.request.id \in Elems(Row)
  BY <1>2, <1>3, <1>4
<1>7. \A i \in 1 .. lj : jobs[i].id \in Elems(Row)
  BY <1>2, <1>3, <1>4
<1>8. \A i \in 1 .. Len(stdin) : stdin[i].id \in Elems(Row)
  BY <1>2, <1>3, <1>4
<1> QED
  BY <1>5, <1>6, <1>7, <1>8 DEF lo, lr, lj

\* What the worker computes, or takes next, is not answered yet.
LEMMA RowSeparates ==
    ASSUME Typed, Distinct(Row)
    PROVE  /\ Busy => /\ \A i \in 1 .. Len(stdout) : stdout[i].id # worker.request.id
                      /\ \A i \in 1 .. Len(responses) :
                           responses[i].id # worker.request.id
           /\ jobs # <<>> => /\ \A i \in 1 .. Len(stdout) : stdout[i].id # Head(jobs).id
                             /\ \A i \in 1 .. Len(responses) :
                                  responses[i].id # Head(jobs).id
<1> DEFINE lo == Len(stdout)
           lr == Len(responses)
           lk == IF Busy THEN 1 ELSE 0
           lj == Len(jobs)
<1>1. /\ lo \in Nat /\ lr \in Nat /\ lj \in Nat /\ Len(stdin) \in Nat /\ lk \in Nat
      /\ Len(Row) = lo + lr + lk + lj + Len(stdin)
      /\ Busy => lk = 1
  BY RowPlaces
<1>2. /\ \A i \in 1 .. lo : Row[i] = stdout[i].id
      /\ \A i \in 1 .. lr : Row[lo + i] = responses[i].id
      /\ Busy => Row[lo + lr + 1] = worker.request.id
      /\ \A i \in 1 .. lj : Row[lo + lr + lk + i] = jobs[i].id
  BY RowPlaces
<1>3. jobs # <<>> => lj # 0 /\ Head(jobs) = jobs[1]
  BY EmptySeq DEF Typed, ServeTypeOK
<1> HIDE DEF lo, lr, lk, lj
<1>4. ASSUME NEW p \in 1 .. Len(Row), p > lo + lr
      PROVE  /\ \A i \in 1 .. lo : stdout[i].id # Row[p]
             /\ \A i \in 1 .. lr : responses[i].id # Row[p]
  <2>1. /\ \A i \in 1 .. lo : i \in 1 .. Len(Row) /\ i # p
        /\ \A i \in 1 .. lr : lo + i \in 1 .. Len(Row) /\ lo + i # p
    BY <1>1, <1>4
  <2>2. \A i \in 1 .. Len(Row) : i # p => Row[i] # Row[p]
    BY DEF Distinct
  <2> QED
    BY <1>2, <2>1, <2>2
<1>5. ASSUME Busy
      PROVE  /\ \A i \in 1 .. lo : stdout[i].id # worker.request.id
             /\ \A i \in 1 .. lr : responses[i].id # worker.request.id
  <2>1. lo + lr + 1 \in 1 .. Len(Row) /\ lo + lr + 1 > lo + lr
    BY <1>1, <1>5
  <2> QED
    BY <1>2, <1>4, <1>5, <2>1
<1>6. ASSUME jobs # <<>>
      PROVE  /\ \A i \in 1 .. lo : stdout[i].id # Head(jobs).id
             /\ \A i \in 1 .. lr : responses[i].id # Head(jobs).id
  <2>1. /\ 1 \in 1 .. lj /\ lo + lr + lk + 1 \in 1 .. Len(Row)
        /\ lo + lr + lk + 1 > lo + lr
    BY <1>1, <1>3, <1>6
  <2>2. Row[lo + lr + lk + 1] = Head(jobs).id
    BY <1>2, <1>3, <1>6, <2>1
  <2> QED
    BY <1>4, <2>1, <2>2
<1> QED
  BY <1>5, <1>6 DEF lo, lr

\* The producer's steps move the row or drop from it.
LEMMA RowPipeline ==
    ASSUME Typed, Distinct(Row), PipelineStep
    PROVE  Distinct(Row)' /\ (Elems(Row))' \subseteq Elems(Row)
<1> DEFINE o == Ids(stdout)
           n == Ids(stdin)
<1>0. o \in Seq(Nat) /\ Flow \in Seq(Nat) /\ n \in Seq(Nat) /\ Flow \o n \in Seq(Nat)
  BY RowSeq
<1>1. CASE AcceptRequest \/ AcceptCancel
  <2>1. Flow' = Append(Flow, Head(n)) /\ n # <<>> /\ n' = Tail(n)
    BY <1>1, FlowAccepts
  <2>2. o' = o
    BY <1>1 DEF AcceptRequest, AcceptCancel
  <2>3. Append(Flow, Head(n)) \o Tail(n) = Flow \o n
    BY <1>0, <2>1, MoveAcross
  <2>4. Row' = Row
    BY <2>1, <2>2, <2>3 DEF Row
  <2> QED
    BY <2>4
<1>2. CASE WorkerStep
  <2>1. Flow' = Flow
    BY <1>2, FlowWorks
  <2>2. stdin' = stdin /\ stdout' = stdout
    BY <1>2 DEF WorkerStep, WorkerPops, WorkerComputes, WorkerReleases,
                WorkerResponds, WorkerStops
  <2>3. Row' = Row
    BY <2>1, <2>2 DEF Row
  <2> QED
    BY <2>3
<1>3. CASE StopReading \/ ServeReturns \/ WriterStops
  <2>1. UNCHANGED <<stdin, stdout, responses, worker, jobs>>
    BY <1>3 DEF StopReading, ServeReturns, WriterStops
  <2>2. Row' = Row
    BY <2>1 DEF Row, Flow, InWorker
  <2> QED
    BY <2>2
<1>4. CASE WriterWrites \/ WriterFails
  <2>1. /\ Flow # <<>> /\ Flow' = Tail(Flow)
        /\ WriterWrites => o' = Append(o, Head(Flow))
    BY <1>4, FlowWrites
  <2>2. n' = n
    BY <1>4 DEF WriterWrites, WriterFails
  <2>3. /\ Flow \o n # <<>> /\ Head(Flow \o n) = Head(Flow)
        /\ Tail(Flow \o n) = Tail(Flow) \o n
    BY <1>0, <2>1, TakeFirst
  <2>4. CASE WriterWrites
    <3>1. Append(o, Head(Flow \o n)) \o Tail(Flow \o n) = o \o (Flow \o n)
      BY <1>0, <2>3, MoveAcross
    <3>2. Row' = Row
      BY <2>1, <2>2, <2>3, <2>4, <3>1 DEF Row
    <3> QED
      BY <3>2
  <2>5. CASE WriterFails
    <3>1. o' = o
      BY <2>5 DEF WriterFails
    <3>2. Row' = o \o Tail(Flow \o n)
      BY <2>1, <2>2, <2>3, <3>1 DEF Row
    <3>3. /\ Distinct(o \o Tail(Flow \o n))
          /\ Elems(o \o Tail(Flow \o n)) \subseteq Elems(o \o (Flow \o n))
      BY <1>0, <2>3, DistinctDrop DEF Row
    <3> QED
      BY <3>2, <3>3 DEF Row
  <2> QED
    BY <1>4, <2>4, <2>5
<1> QED
  BY <1>1, <1>2, <1>3, <1>4 DEF PipelineStep, MainStep, WriterStep

\* Reading a response takes the head of the row.
LEMMA RowReads ==
    ASSUME Typed, Distinct(Row), stdout # <<>>, stdout' = Tail(stdout),
           UNCHANGED <<stdin, jobs, worker, responses>>
    PROVE  /\ Distinct(Row)' /\ (Elems(Row))' \subseteq Elems(Row)
           /\ Head(stdout).id \in Elems(Row) /\ Head(stdout).id \notin (Elems(Row))'
<1> DEFINE o == Ids(stdout)
           g == Flow \o Ids(stdin)
<1>1. o \in Seq(Nat) /\ g \in Seq(Nat) /\ Row \in Seq(Nat) /\ stdout \in Seq(Responses)
  BY RowSeq DEF Typed, ServeTypeOK
<1>2. o # <<>> /\ Head(o) = Head(stdout).id /\ o' = Tail(o)
  BY <1>1, IdsTail, Identified
<1>3. g' = g
  BY DEF Flow, InWorker
<1>4. o \o g # <<>> /\ Head(o \o g) = Head(o) /\ Tail(o \o g) = Tail(o) \o g
  BY <1>1, <1>2, TakeFirst
<1>5. Row # <<>> /\ Head(Row) = Head(stdout).id /\ Row' = Tail(Row)
  BY <1>2, <1>3, <1>4 DEF Row
<1>6. /\ Distinct(Tail(Row)) /\ Elems(Tail(Row)) \subseteq Elems(Row)
      /\ Head(Row) \notin Elems(Tail(Row)) /\ Head(Row) \in Elems(Row)
  BY <1>1, <1>5, DistinctTail
<1> QED
  BY <1>5, <1>6

\* Writing a frame appends to the row.
LEMMA RowGrows ==
    ASSUME Typed, Distinct(Row), NEW q \in Requests, stdin' = Append(stdin, q),
           q.id \notin Elems(Row), UNCHANGED <<jobs, worker, responses, stdout>>
    PROVE  Distinct(Row)' /\ (Elems(Row))' = Elems(Row) \union {q.id}
<1> DEFINE o == Ids(stdout)
           n == Ids(stdin)
<1>0. /\ o \in Seq(Nat) /\ Flow \in Seq(Nat) /\ n \in Seq(Nat)
      /\ Flow \o n \in Seq(Nat) /\ Row \in Seq(Nat)
      /\ stdin \in Seq(Requests \union {BadFrame}) /\ q.id \in Nat
  BY RowSeq, Identified DEF Typed, ServeTypeOK
<1>1. n' = Append(n, q.id)
  BY <1>0, IdsAppend, Identified
<1>2. o' = o /\ Flow' = Flow
  BY DEF Flow, InWorker
<1>3. Flow \o Append(n, q.id) = Append(Flow \o n, q.id)
  BY <1>0, AppendLast
<1>4. o \o Append(Flow \o n, q.id) = Append(o \o (Flow \o n), q.id)
  BY <1>0, AppendLast
<1>5. Row' = Append(Row, q.id)
  BY <1>1, <1>2, <1>3, <1>4 DEF Row
<1> QED
  BY <1>0, <1>5, DistinctAppend, ElemsAppend

-----------------------------------------------------------------------------
(* Facts shared by the steps. *)

\* A step of the client that touches no queue.
LEMMA SameQueues ==
    ASSUME Typed, VerdictTrail,
           UNCHANGED <<stdin, mainLoop, cancels, fired, jobs, worker, responses,
                       writer, arena, stdout, accepted, written>>,
           inputEnd' \in BOOLEAN
    PROVE  /\ Typed' /\ VerdictTrail' /\ Row' = Row
           /\ (Quiet' <=> Quiet) /\ (Busy' <=> Busy) /\ (Answered' <=> Answered)
<1>1. ServeTypeOK'
  BY DEF Typed, ServeTypeOK
<1>2. Typed'
  BY <1>1 DEF Typed, WorkerShape, Busy, Answered
<1>3. VerdictTrail'
  BY DEF VerdictTrail, Answered
<1>4. Row' = Row
  BY DEF Row, Flow, InWorker
<1>5. (Quiet' <=> Quiet) /\ (Busy' <=> Busy) /\ (Answered' <=> Answered)
  BY DEF Quiet, Busy, Answered
<1> QED
  BY <1>2, <1>3, <1>4, <1>5

\* A caller that only moves on.
LEMMA CallerMoves ==
    ASSUME caller \in Callers,
           NEW at \in {"idle", "registered", "waiting", "restarting",
                       "handshaking", "joining"},
           caller' = [caller EXCEPT !.at = at]
    PROVE  /\ caller' \in Callers /\ caller'.at = at
           /\ caller'.request = caller.request /\ caller'.restarts = caller.restarts
<1>1. caller' \in Callers
  BY Zenon DEF Callers
<1>2. caller'.at = at /\ caller'.request = caller.request
  BY DEF Callers
<1>3. caller'.restarts = caller.restarts
  BY DEF Callers
<1> QED
  BY <1>1, <1>2, <1>3

\* No call, no message and a lost one are values of their types.
LEMMA NoCallShape ==
    /\ NoCall \in Callers /\ NoCall.at = "idle" /\ NoMessage \in Messages
    /\ Lost \in Messages /\ NoMessage # Lost
<1>1. NoCall \in Callers
  BY Zenon DEF NoCall, Callers
<1>2. NoCall.at = "idle"
  BY DEF NoCall
<1>3. NoMessage \in Messages /\ Lost \in Messages
  BY ServeAssumption DEF NoMessage, Lost, Messages
<1>4. NoMessage # Lost
  BY DEF NoMessage, Lost
<1> QED
  BY <1>1, <1>2, <1>3, <1>4

\* What send leaves behind before it writes.
Registered(op) ==
    /\ nextId \in 1 .. MaxFrames /\ nextId' = nextId + 1
    /\ active' \in {active, nextId}
    /\ pending' = pending \union {nextId}
    /\ inbox' = NoMessage
    /\ caller' \in Callers /\ caller'.at = "registered"
    /\ caller'.request \in Requests
    /\ caller'.request.id = nextId /\ caller'.request.op = op

\* What registering a request leaves.
LEMMA RegisterShape ==
    ASSUME nextId \in 1 .. MaxFrames + 1, NEW op \in CallOps, NEW restarts \in BOOLEAN,
           Register(op, restarts)
    PROVE  Registered(op) /\ caller'.restarts = restarts
<1> DEFINE q == [id |-> nextId, op |-> op, target |-> 0]
<1>1. nextId \in 1 .. MaxFrames /\ nextId' = nextId + 1
      /\ active' \in {active, nextId}
      /\ pending' = pending \union {nextId} /\ inbox' = NoMessage
  BY ServeAssumption DEF Register
<1>2. q \in Requests /\ q.id = nextId /\ q.op = op
  BY <1>1, ServeAssumption DEF Requests, Operations, CallOps
<1>3. caller' = [at |-> "registered", restarts |-> restarts, request |-> q]
  BY DEF Register
<1> HIDE DEF q
<1>4. caller' \in Callers
  BY <1>2, <1>3, Zenon DEF Callers
<1>5. caller'.at = "registered" /\ caller'.request = q
  BY <1>3
<1>6. caller'.restarts = restarts
  BY <1>3, Zenon
<1> QED
  BY <1>1, <1>2, <1>4, <1>5, <1>6 DEF Registered

\* What is on the way still belongs to the call that waits.
LEMMA DownstreamKept ==
    ASSUME Typed, Downstream, UNCHANGED <<jobs, worker, responses, arena, stdout>>,
           \A x \in Elems(Row) :
             Mine(x) => caller'.at = "waiting" /\ x = caller'.request.id
    PROVE  Downstream'
<1>1. ASSUME NEW q, q.id \in Elems(Row), OwnRequest(q)
      PROVE  q.op # "cancel" => caller'.at = "waiting" /\ q.id = caller'.request.id
  BY <1>1 DEF OwnRequest
<1>2. ASSUME NEW r, r.id \in Elems(Row), OwnResponse(r)
      PROVE  r.arena => /\ arena' = r.id
                        /\ caller'.at = "waiting" /\ r.id = caller'.request.id
  BY <1>2 DEF OwnResponse
<1>3. /\ \A i \in 1 .. Len(jobs) : OwnRequest(jobs[i])'
      /\ Busy => OwnRequest(worker.request)'
  BY <1>1, RowHolds DEF Downstream, OwnRequest, Mine
<1>4. /\ \A i \in 1 .. Len(responses) : OwnResponse(responses[i])'
      /\ \A i \in 1 .. Len(stdout) : OwnResponse(stdout[i])'
  BY <1>2, RowHolds DEF Downstream, OwnResponse, Mine
<1>5. Answered => OwnResponse(worker.reply)'
  <2>1. Answered => worker.reply.id \in Elems(Row)
    BY RowHolds DEF Typed, WorkerShape, Answered, Busy
  <2> QED
    BY <1>2, <2>1 DEF Downstream, OwnResponse, Mine
<1> QED
  BY <1>3, <1>4, <1>5 DEF Downstream, Busy, Answered

\* A call can end, or not have begun, only while nothing of its own is on the
\* way.
LEMMA OneCallKept ==
    ASSUME Typed, OneCall,
           UNCHANGED <<stdin, jobs, worker, responses, arena, stdout>>,
           readerUp' => readerUp,
           readerUp' => \A x \in Elems(Row) :
             Mine(x) => caller'.at = "waiting" /\ x = caller'.request.id
    PROVE  OneCall'
<1>1. SUFFICES ASSUME readerUp' PROVE Upstream' /\ Downstream'
  BY DEF OneCall
<1>2. Upstream /\ Downstream
  BY <1>1 DEF OneCall
<1>3. Downstream'
  BY <1>1, <1>2, DownstreamKept
<1>4. Upstream'
  BY <1>1, <1>2, RowHolds DEF Upstream, OwnRequest, Mine
<1> QED
  BY <1>3, <1>4

\* Targets stay aimed at what they were aimed at.
LEMMA AimKept ==
    ASSUME AimTrail, UNCHANGED <<stdin, fired>>, \A t : Aims(t) => Aims(t)'
    PROVE  Aimed'
<1>1. ASSUME NEW i \in 1 .. Len(stdin), stdin[i].op = "cancel"
      PROVE  Aims(stdin[i].target)'
  <2>1. Aims(stdin[i].target)
    BY <1>1 DEF AimTrail, Aimed
  <2>2. ASSUME NEW t, Aims(t) PROVE Aims(t)'
    BY <2>2
  <2>3. \A t : t = stdin[i].target => Aims(t)'
    BY <2>1, <2>2
  <2> QED
    BY <2>3 DEF Aims, InCall
<1>2. \A f \in fired' : Aims(f)'
  BY DEF AimTrail, Aimed
<1> QED
  BY <1>1, <1>2 DEF Aimed

-----------------------------------------------------------------------------
(* The caller's steps. *)

\* A call takes the next identity, so it is new to the Row.
LEMMA BeginCallStep ==
    ASSUME ConnectionInvariant, BeginCall
    PROVE  ConnectionInvariant'
<1>0. Typed /\ VerdictTrail /\ ClientShape /\ Counters /\ Phases /\ RowSound
      /\ Channel /\ OneCall /\ AimTrail
  BY DEF ConnectionInvariant
<1>1. PICK op \in CallOps : Register(op, op # "symbols")
  BY DEF BeginCall, CallOps
<1>2. Registered(op)
  <2>1. (op # "symbols") \in BOOLEAN
    BY Zenon
  <2>2. nextId \in 1 .. MaxFrames + 1
    BY <1>0 DEF ClientShape
  <2> QED
    BY <1>1, <2>1, <2>2, RegisterShape, Zenon
<1>3. /\ caller.at = "idle" /\ startup.link \in {"open", "choked"}
      /\ calls < MaxCalls /\ calls' = calls + 1
      /\ UNCHANGED <<alive, epoch, readerUp, canceller, aimed, cancelCalls,
                     crashes, startup, inputEnd>>
      /\ UNCHANGED <<stdin, mainLoop, cancels, fired, jobs, worker, responses,
                     writer, arena, stdout, accepted, written>>
  BY DEF BeginCall, serveVars
<1>4. inputEnd' \in BOOLEAN
  BY <1>0, <1>3 DEF Typed, ServeTypeOK
<1>5. Typed' /\ VerdictTrail' /\ Row' = Row /\ (Quiet' <=> Quiet)
  BY <1>0, <1>3, <1>4, SameQueues
<1>6. ClientShape'
  BY <1>0, <1>2, <1>3, NoCallShape, ServeAssumption DEF ClientShape, Registered
<1>7. Counters'
  <2>1. calls \in Nat /\ MaxCalls \in Nat /\ epoch \in Nat
    BY <1>0, ConnectionAssumption DEF ClientShape
  <2>2. calls' <= MaxCalls /\ epoch' <= calls' /\ epoch' <= calls' + 1 /\ 1 <= calls'
    BY <1>0, <1>3, <2>1 DEF Counters
  <2>3. aimed' \subseteq 1 .. calls'
    BY <1>0, <1>3, <2>1 DEF Counters
  <2> QED
    BY <1>0, <1>3, <2>2, <2>3 DEF Counters
<1>8. Phases'
  BY <1>0, <1>2, <1>3 DEF Phases, Registered
<1>9. RowSound'
  BY <1>0, <1>2, <1>3, <1>5 DEF RowSound, Registered, InCall, ClientShape
<1>10. Channel'
  BY <1>0, <1>2, <1>3 DEF Channel, Registered, InCall, Phases
<1>11. OneCall'
  <2>1. \A x : ~Mine(x)
    BY <1>3 DEF Mine
  <2> QED
    BY <1>0, <1>3, <2>1, OneCallKept
<1>12. AimTrail'
  <2>1. \A t : Aims(t) => Aims(t)'
    BY <1>0, <1>2, <1>3 DEF Aims, Registered, InCall, ClientShape
  <2>2. Aimed'
    BY <1>0, <1>3, <2>1, AimKept
  <2>3. canceller.epoch = epoch => Aims(canceller.target)'
    BY <1>0, <1>2, <1>3 DEF AimTrail, Aims, Registered, InCall, ClientShape
  <2> QED
    BY <1>0, <1>2, <1>3, <2>2, <2>3 DEF AimTrail, Registered, InCall
<1> QED
  BY <1>5, <1>6, <1>7, <1>8, <1>9, <1>10, <1>11, <1>12 DEF ConnectionInvariant

Leaving ==
    \/ caller' = NoCall
    \/ caller.restarts /\ caller' = [caller EXCEPT !.at = "restarting"]

\* A call that ends or goes on to restart: its request is no longer pending,
\* no answer to it is on the way.
LEMMA CallLeaves ==
    ASSUME ConnectionInvariant, InCall, caller.at = "registered" \/ inbox # NoMessage,
           ClearActive,
           Leaving,
           pending' = {}, inbox' \in {NoMessage, Lost}, inbox' = Lost => inbox = Lost,
           UNCHANGED <<serveVars, alive, epoch, nextId, readerUp,
                       canceller, calls, aimed, cancelCalls, crashes, startup>>
    PROVE  ConnectionInvariant'
<1>0. Typed /\ VerdictTrail /\ ClientShape /\ Counters /\ Phases /\ RowSound
      /\ Channel /\ OneCall /\ AimTrail
  BY DEF ConnectionInvariant
<1>1. /\ UNCHANGED <<alive, epoch, nextId, readerUp, canceller, calls, aimed,
                     cancelCalls, crashes, startup, inputEnd>>
      /\ UNCHANGED <<stdin, mainLoop, cancels, fired, jobs, worker, responses,
                     writer, arena, stdout, accepted, written>>
  BY DEF serveVars
<1>2. inputEnd' \in BOOLEAN
  BY <1>0, <1>1 DEF Typed, ServeTypeOK
<1>3. Typed' /\ VerdictTrail' /\ Row' = Row /\ (Quiet' <=> Quiet)
  BY <1>0, <1>1, <1>2, SameQueues
<1>4. /\ caller' \in Callers /\ caller'.at \in {"idle", "restarting"}
      /\ caller'.at = "restarting" =>
           caller'.request = caller.request /\ caller'.restarts /\ caller.restarts
  <2>1. CASE caller' = NoCall
    BY <2>1, NoCallShape
  <2>2. CASE caller.restarts /\ caller' = [caller EXCEPT !.at = "restarting"]
    <3>1. /\ caller' \in Callers /\ caller'.at = "restarting"
          /\ caller'.request = caller.request /\ caller'.restarts = caller.restarts
      BY <1>0, <2>2, CallerMoves DEF ClientShape
    <3> QED
      BY <2>2, <3>1
  <2> QED
    BY <2>1, <2>2 DEF Leaving
<1>5. ClientShape'
  BY <1>0, <1>1, <1>4, NoCallShape DEF ClientShape, InCall
<1>6. Counters'
  BY <1>0, <1>1, <1>4 DEF Counters, InCall
<1>7. Phases'
  BY <1>0, <1>1, <1>4 DEF Phases, InCall
<1>8. RowSound'
  BY <1>0, <1>1, <1>3, <1>4 DEF RowSound, InCall
<1>9. Channel'
  <2>1. ~InCall' /\ Lost.kind = "lost" /\ NoMessage # Lost
    BY <1>4, NoCallShape DEF InCall, Lost
  <2>2. inbox' = Lost => ~readerUp
    BY <1>0, <2>1 DEF Channel
  <2> QED
    BY <1>1, <2>1, <2>2 DEF Channel
<1>10. OneCall'
  <2>1. readerUp => \A x \in Elems(Row) : ~Mine(x)
    <3>1. CASE caller.at = "registered"
      BY <3>1 DEF Mine
    <3>2. CASE inbox # NoMessage
      BY <1>0, <3>2 DEF Channel, Mine
    <3> QED
      BY <3>1, <3>2
  <2> QED
    BY <1>0, <1>1, <2>1, OneCallKept
<1>11. AimTrail'
  <2>1. ~InCall'
    BY <1>4 DEF InCall
  <2>2. \A t : Aims(t) => Aims(t)'
    BY <1>1, <2>1 DEF Aims
  <2>3. Aimed'
    BY <1>0, <1>1, <2>2, AimKept
  <2>4. canceller.epoch = epoch => Aims(canceller.target)'
    BY <1>0, <1>1, <2>1 DEF AimTrail, Aims
  <2>5. active' = 0
    BY <1>0 DEF AimTrail, ClearActive
  <2> QED
    BY <1>0, <1>1, <2>1, <2>3, <2>4, <2>5 DEF AimTrail
<1> QED
  BY <1>3, <1>5, <1>6, <1>7, <1>8, <1>9, <1>10, <1>11 DEF ConnectionInvariant

\* A frame that could not be written leaves nothing in the Row.
LEMMA WriteFailsStep ==
    ASSUME ConnectionInvariant, WriteFails
    PROVE  ConnectionInvariant'
<1>1. InCall /\ caller.at = "registered"
  BY DEF WriteFails, InCall
<1>2. pending' = {} /\ inbox' = inbox
  BY <1>1 DEF WriteFails, ConnectionInvariant, Channel
<1>3. inbox \in {NoMessage, Lost}
  BY <1>1 DEF ConnectionInvariant, Channel
<1>4. Leaving
  BY DEF WriteFails, Fail, Leaving
<1>5. ClearActive /\ UNCHANGED <<serveVars, alive, epoch, nextId, readerUp,
                       canceller, calls, aimed, cancelCalls, crashes, startup>>
  BY DEF WriteFails
<1> QED
  BY <1>1, <1>2, <1>3, <1>4, <1>5, CallLeaves

\* The caller takes the answer that carries the identity it registered.
LEMMA CollectStep ==
    ASSUME ConnectionInvariant, Collect
    PROVE  ConnectionInvariant'
<1>1. InCall /\ inbox # NoMessage
  BY DEF Collect, InCall
<1>2. pending' = {} /\ inbox' = NoMessage
  BY <1>1 DEF Collect, ConnectionInvariant, Channel
<1>3. Leaving
  BY DEF Collect, Fail, Leaving
<1>4. ClearActive /\ UNCHANGED <<serveVars, alive, epoch, nextId, readerUp,
                       canceller, calls, aimed, cancelCalls, crashes, startup>>
  BY DEF Collect
<1> QED
  BY <1>1, <1>2, <1>3, <1>4, CallLeaves, NoCallShape

\* The request goes out: it takes the last place of the row.
LEMMA WriteRequestStep ==
    ASSUME ConnectionInvariant, WriteRequest
    PROVE  ConnectionInvariant'
<1>0. Typed /\ VerdictTrail /\ ClientShape /\ Counters /\ Phases /\ RowSound
      /\ Channel /\ OneCall /\ AimTrail
  BY DEF ConnectionInvariant
<1> DEFINE q == caller.request
<1>1. /\ caller.at = "registered" /\ alive /\ stdin' = Append(stdin, q)
      /\ caller' = [caller EXCEPT !.at = "waiting"]
      /\ UNCHANGED <<inputEnd, mainLoop, cancels, fired, jobs, worker, responses,
                     writer, arena, stdout, accepted, written>>
      /\ UNCHANGED <<alive, epoch, nextId, active, pending, readerUp, inbox,
                     canceller, calls, aimed, cancelCalls, crashes, startup>>
  BY DEF WriteRequest
<1>2. q \in Requests /\ q.op \in CallOps /\ q.id \notin Elems(Row)
  BY <1>0, <1>1 DEF ClientShape, RowSound
<1>3. /\ caller' \in Callers /\ caller'.at = "waiting"
      /\ caller'.request = q /\ caller'.restarts = caller.restarts
  BY <1>0, <1>1, CallerMoves DEF ClientShape
<1> HIDE DEF q
<1>4. /\ stdin \in Seq(Requests \union {BadFrame}) /\ Len(stdin) \in Nat
      /\ stdin' \in Seq(Requests \union {BadFrame})
      /\ Len(stdin') = Len(stdin) + 1
      /\ \A i \in 1 .. Len(stdin) : stdin'[i] = stdin[i]
      /\ stdin'[Len(stdin) + 1] = q
  <2>1. stdin \in Seq(Requests \union {BadFrame})
    BY <1>0 DEF Typed, ServeTypeOK
  <2> QED
    BY <1>1, <1>2, <2>1, AppendProperties, LenProperties
<1>5. Typed'
  <2>1. ServeTypeOK'
    BY <1>0, <1>1, <1>4 DEF Typed, ServeTypeOK
  <2> QED
    BY <1>0, <1>1, <2>1 DEF Typed, WorkerShape, Busy, Answered
<1>6. VerdictTrail'
  BY <1>0, <1>1 DEF VerdictTrail, Answered
<1>7. Distinct(Row)' /\ (Elems(Row))' = Elems(Row) \union {q.id}
  BY <1>0, <1>1, <1>2, RowGrows DEF RowSound
<1>8. InCall /\ InCall' /\ startup.link # "starting"
  BY <1>0, <1>1, <1>3 DEF InCall, Phases
<1>9. ClientShape'
  BY <1>0, <1>1, <1>2, <1>3 DEF ClientShape
<1>10. Counters'
  BY <1>0, <1>1, <1>3 DEF Counters
<1>11. Phases'
  BY <1>0, <1>1, <1>3 DEF Phases
<1>12. RowSound'
  <2>1. \A x \in (Elems(Row))' : x \in Nat /\ x < nextId
    BY <1>0, <1>2, <1>7, <1>8, Identified DEF RowSound, q
  <2> QED
    BY <1>0, <1>1, <1>3, <1>7, <1>8, <2>1 DEF RowSound, q
<1>13. Channel'
  <2>1. inbox \in {NoMessage, Lost}
    BY <1>0, <1>1 DEF Channel
  <2>2. inbox = Lost => ~readerUp /\ pending = {}
    BY <1>0, NoCallShape DEF Channel, Lost
  <2>3. inbox = NoMessage /\ startup.link # "choked" => readerUp /\ q.id \in pending
    BY <1>0, <1>1, <1>8 DEF Channel, q
  <2>4. pending \subseteq {q.id}
    BY <1>0, <1>8 DEF Channel, q
  <2> QED
    BY <1>1, <1>3, <1>8, <2>1, <2>2, <2>3, <2>4 DEF Channel
<1>14. OneCall'
  <2>1. SUFFICES ASSUME readerUp PROVE Upstream' /\ Downstream'
    BY <1>1 DEF OneCall
  <2>2. Upstream /\ Downstream /\ \A x : ~Mine(x)
    BY <1>0, <1>1, <2>1 DEF OneCall, Mine
  <2>3. Downstream'
    BY <1>0, <1>1, <2>2, DownstreamKept
  <2>4. \A i \in 1 .. Len(stdin) : stdin[i].op = "cancel"
    BY <2>2 DEF Upstream, OwnRequest
  <2>5. ASSUME NEW i \in 1 .. Len(stdin')
        PROVE  stdin'[i].op # "cancel" =>
                 caller'.at = "waiting" /\ stdin'[i].id = caller'.request.id
    BY <1>3, <1>4, <2>4
  <2> QED
    BY <2>3, <2>5 DEF Upstream, OwnRequest, Mine
<1>15. AimTrail'
  <2>1. \A t : Aims(t) => Aims(t)'
    BY <1>1, <1>3, <1>8 DEF Aims, q
  <2>2. ASSUME NEW i \in 1 .. Len(stdin'), stdin'[i].op = "cancel"
        PROVE  /\ stdin'[i].target \in Nat /\ stdin'[i].target < nextId'
               /\ InCall' /\ stdin'[i].target = caller'.request.id => calls' \in aimed'
    <3>1. i \in 1 .. Len(stdin) /\ stdin'[i] = stdin[i]
      BY <1>2, <1>4, <2>2 DEF CallOps
    <3>2. Aims(stdin[i].target)
      BY <1>0, <2>2, <3>1 DEF AimTrail, Aimed
    <3> QED
      BY <1>1, <1>3, <1>8, <3>1, <3>2 DEF Aims, q
  <2>3. \A f \in fired' : Aims(f)'
    BY <1>0, <1>1, <2>1 DEF AimTrail, Aimed
  <2>4. Aimed'
    BY <2>2, <2>3 DEF Aimed, Aims
  <2>5. canceller.epoch = epoch => Aims(canceller.target)'
    BY <1>0, <1>1, <1>3, <1>8 DEF AimTrail, Aims, q
  <2> QED
    BY <1>0, <1>1, <1>3, <1>8, <2>4, <2>5 DEF AimTrail, q
<1> QED
  BY <1>5, <1>6, <1>9, <1>10, <1>11, <1>12, <1>13, <1>14, <1>15
     DEF ConnectionInvariant

\* A cancel frame goes out, naming the request that was active when its handle
\* looked.
LEMMA WriteCancelStep ==
    ASSUME ConnectionInvariant, WriteCancel
    PROVE  ConnectionInvariant'
<1>0. Typed /\ VerdictTrail /\ ClientShape /\ Counters /\ Phases /\ RowSound
      /\ Channel /\ OneCall /\ AimTrail
  BY DEF ConnectionInvariant
<1> DEFINE q == [id |-> nextId, op |-> "cancel", target |-> canceller.target]
<1>1. /\ canceller.epoch = epoch /\ stdin' = Append(stdin, q)
      /\ nextId <= MaxFrames /\ nextId' = nextId + 1 /\ canceller' = NoCancel
      /\ UNCHANGED <<inputEnd, mainLoop, cancels, fired, jobs, worker, responses,
                     writer, arena, stdout, accepted, written>>
      /\ UNCHANGED <<alive, epoch, active, pending, readerUp, caller, inbox,
                     calls, aimed, cancelCalls, crashes, startup>>
  BY DEF WriteCancel
<1>2. /\ q \in Requests /\ q.id = nextId /\ q.op = "cancel"
      /\ q.target = canceller.target /\ nextId \in Nat
  BY <1>0, <1>1, ServeAssumption DEF ClientShape, Requests, Operations
<1>3. nextId \notin Elems(Row)
  BY <1>0, <1>2 DEF RowSound
<1> HIDE DEF q
<1>4. /\ stdin \in Seq(Requests \union {BadFrame}) /\ Len(stdin) \in Nat
      /\ stdin' \in Seq(Requests \union {BadFrame})
      /\ Len(stdin') = Len(stdin) + 1
      /\ \A i \in 1 .. Len(stdin) : stdin'[i] = stdin[i]
      /\ stdin'[Len(stdin) + 1] = q
  <2>1. stdin \in Seq(Requests \union {BadFrame})
    BY <1>0 DEF Typed, ServeTypeOK
  <2> QED
    BY <1>1, <1>2, <2>1, AppendProperties, LenProperties
<1>5. Typed'
  <2>1. ServeTypeOK'
    BY <1>0, <1>1, <1>4 DEF Typed, ServeTypeOK
  <2> QED
    BY <1>0, <1>1, <2>1 DEF Typed, WorkerShape, Busy, Answered
<1>6. VerdictTrail'
  BY <1>0, <1>1 DEF VerdictTrail, Answered
<1>7. Distinct(Row)' /\ (Elems(Row))' = Elems(Row) \union {nextId}
  BY <1>0, <1>1, <1>2, <1>3, RowGrows DEF RowSound
<1>8. (InCall' <=> InCall) /\ startup.link # "starting"
      /\ (InCall => caller.request.id \in Nat /\ caller.request.id < nextId)
  BY <1>0, <1>1, Identified DEF InCall, AimTrail, ClientShape, RowSound
<1>9. ClientShape'
  <2>1. nextId' \in 1 .. MaxFrames + 1
    BY <1>0, <1>1, <1>2, ServeAssumption DEF ClientShape
  <2>2. canceller' \in [target : 0 .. MaxFrames, epoch : Nat]
    BY <1>1, ServeAssumption DEF NoCancel
  <2> QED
    BY <1>0, <1>1, <2>1, <2>2 DEF ClientShape
<1>10. Counters'
  BY <1>0, <1>1 DEF Counters
<1>11. Phases'
  BY <1>0, <1>1 DEF Phases
<1>12. RowSound'
  <2>1. \A x \in (Elems(Row))' : x \in Nat /\ x < nextId + 1
    BY <1>0, <1>2, <1>7 DEF RowSound
  <2>2. caller.at = "registered" => caller.request.id \notin (Elems(Row))'
    BY <1>0, <1>2, <1>7, <1>8 DEF RowSound, InCall
  <2>3. InCall => caller.request.id < nextId + 1
    BY <1>2, <1>8
  <2> QED
    BY <1>1, <1>7, <1>8, <2>1, <2>2, <2>3 DEF RowSound
<1>13. Channel'
  <2>1. caller.at = "waiting" /\ inbox.id = caller.request.id
          /\ inbox.id \notin Elems(Row) => inbox.id \notin (Elems(Row))'
    BY <1>2, <1>7, <1>8 DEF InCall
  <2> QED
    BY <1>0, <1>1, <1>8, <2>1 DEF Channel
<1>14. OneCall'
  <2>1. SUFFICES ASSUME readerUp PROVE Upstream' /\ Downstream'
    BY <1>1 DEF OneCall
  <2>2. Upstream /\ Downstream
    BY <1>0, <2>1 DEF OneCall
  <2>3. \A x \in Elems(Row) : Mine(x) => caller'.at = "waiting" /\ x = caller'.request.id
    BY <1>1 DEF Mine
  <2>4. Downstream'
    BY <1>0, <1>1, <2>2, <2>3, DownstreamKept
  <2>5. ASSUME NEW i \in 1 .. Len(stdin')
        PROVE  stdin'[i].op # "cancel" =>
                 caller'.at = "waiting" /\ stdin'[i].id = caller'.request.id
    BY <1>1, <1>2, <1>4, <2>2 DEF Upstream, OwnRequest, Mine
  <2> QED
    BY <2>4, <2>5 DEF Upstream, OwnRequest, Mine
<1>15. AimTrail'
  <2>1. \A t : Aims(t) => Aims(t)'
    BY <1>1, <1>2, <1>8 DEF Aims
  <2>2. ASSUME NEW i \in 1 .. Len(stdin'), stdin'[i].op = "cancel"
        PROVE  /\ stdin'[i].target \in Nat /\ stdin'[i].target < nextId'
               /\ InCall' /\ stdin'[i].target = caller'.request.id => calls' \in aimed'
    <3>1. CASE i \in 1 .. Len(stdin)
      <4>1. stdin'[i] = stdin[i] /\ Aims(stdin[i].target)
        BY <1>0, <1>4, <2>2, <3>1 DEF AimTrail, Aimed
      <4> QED
        BY <1>1, <1>2, <1>8, <4>1 DEF Aims
    <3>2. CASE i = Len(stdin) + 1
      <4>1. stdin'[i].target = canceller.target /\ Aims(canceller.target)
        BY <1>0, <1>1, <1>2, <1>4, <3>2 DEF AimTrail
      <4> QED
        BY <1>1, <1>2, <1>8, <4>1 DEF Aims
    <3> QED
      BY <1>4, <3>1, <3>2
  <2>3. \A f \in fired' : Aims(f)'
    BY <1>0, <1>1, <2>1 DEF AimTrail, Aimed
  <2>4. Aimed'
    BY <2>2, <2>3 DEF Aimed, Aims
  <2>5. canceller'.epoch <= epoch' /\ canceller'.epoch # epoch'
    BY <1>0, <1>1 DEF NoCancel, ClientShape
  <2> QED
    BY <1>0, <1>1, <1>8, <2>4, <2>5 DEF AimTrail
<1> QED
  BY <1>5, <1>6, <1>9, <1>10, <1>11, <1>12, <1>13, <1>14, <1>15
     DEF ConnectionInvariant

-----------------------------------------------------------------------------
(* Opening a connection again. *)

\* A producer that has just started has nothing in flight.
LEMMA EmptyRow ==
    ASSUME stdin' = <<>>, jobs' = <<>>, worker' = Idle, responses' = <<>>, stdout' = <<>>
    PROVE  Row' = <<>> /\ Quiet' /\ ~Busy' /\ ~Answered'
<1>1. Ids(<<>>) = <<>> /\ <<>> \o <<>> = <<>>
  BY EmptySeq, ConcatEmptySeq DEF Ids
<1>2. InWorker' = <<>> /\ ~Busy' /\ ~Answered'
  BY DEF InWorker, Busy, Answered, Idle
<1>3. Quiet'
  BY <1>2 DEF Quiet
<1>4. Ids(stdout)' = <<>> /\ Ids(responses)' = <<>> /\ Ids(InWorker)' = <<>>
      /\ Ids(jobs)' = <<>> /\ Ids(stdin)' = <<>>
  BY <1>1, <1>2
<1>5. Row' = <<>> \o ((<<>> \o (<<>> \o <<>>)) \o <<>>)
  BY <1>4 DEF Row, Flow
<1> QED
  BY <1>1, <1>2, <1>3, <1>5

\* The empty sequence repeats nothing and holds nothing.
LEMMA NothingThere == Distinct(<<>>) /\ Elems(<<>>) = {}
BY DEF Distinct, Elems

\* A new connection begins with empty pipes and a new arena.
LEMMA SpawnStep ==
    ASSUME ConnectionInvariant, Spawn
    PROVE  ConnectionInvariant'
<1>0. ClientShape /\ Counters /\ Phases /\ AimTrail
  BY DEF ConnectionInvariant
<1>1. /\ caller.at = "restarting" /\ epoch' = epoch + 1 /\ alive' = TRUE
      /\ readerUp' = FALSE /\ nextId' = 1 /\ active' = 0 /\ pending' = {}
      /\ inbox' = NoMessage /\ caller' = [caller EXCEPT !.at = "handshaking"]
      /\ UNCHANGED <<canceller, calls, aimed, cancelCalls, crashes>>
  BY DEF Spawn
<1>2. /\ stdin' = <<>> /\ inputEnd' = FALSE
      /\ mainLoop' = "reading" /\ cancels' = {} /\ fired' = {}
      /\ jobs' = <<>> /\ worker' = Idle /\ responses' = <<>>
      /\ writer' = "running" /\ arena' = 0 /\ stdout' = <<>>
      /\ accepted' = <<>> /\ written' = <<>>
  BY DEF Spawn
<1>3. startup' = [link |-> "starting", frame |-> NoFrame, thread |-> "reading",
                  channel |-> NoFrame]
  BY DEF Spawn
<1>4. Typed'
  <2>1. inputEnd' \in BOOLEAN
    BY <1>2
  <2>2. worker' \in [at : {"idle", "computing", "computed", "released", "done"},
                     request : Requests \union {NoRequest},
                     reply : Responses \union {NoReply}]
    BY <1>2 DEF Idle
  <2>3. ServeTypeOK'
    BY <1>2, <2>1, <2>2, ServeAssumption DEF ServeTypeOK
  <2> QED
    BY <1>2, <2>3 DEF Typed, WorkerShape, Busy, Answered, Idle
<1>5. Row' = <<>> /\ Quiet' /\ ~Busy' /\ ~Answered'
  BY <1>2, EmptyRow
<1>6. VerdictTrail'
  BY <1>2, <1>5 DEF VerdictTrail
<1>7. /\ caller' \in Callers /\ caller'.at = "handshaking"
      /\ caller'.request = caller.request /\ caller'.restarts = caller.restarts
  BY <1>0, <1>1, CallerMoves DEF ClientShape
<1>8. startup' \in Startups /\ startup'.link = "starting"
  BY <1>3 DEF Startups
<1>9. ~InCall'
  BY <1>7 DEF InCall
<1>10. ClientShape'
  <2>1. alive' \in BOOLEAN /\ readerUp' \in BOOLEAN
    BY <1>1
  <2>2. epoch' \in Nat \ {0} /\ nextId' \in 1 .. MaxFrames + 1
    BY <1>0, <1>1, ServeAssumption DEF ClientShape
  <2> QED
    BY <1>0, <1>1, <1>7, <1>8, <2>1, <2>2, NoCallShape DEF ClientShape
<1>11. Counters'
  <2>1. epoch <= calls /\ epoch \in Nat /\ calls \in Nat
    BY <1>0, <1>1 DEF Counters, Phases, ClientShape
  <2>2. epoch' <= calls' + 1
    BY <1>1, <2>1
  <2> QED
    BY <1>0, <1>1, <1>8, <2>2 DEF Counters
<1>12. Phases'
  BY <1>1, <1>7, <1>8 DEF Phases
<1>13. RowSound'
  BY <1>5, <1>7, <1>9, NothingThere DEF RowSound
<1>14. Channel'
  BY <1>1, <1>9 DEF Channel
<1>15. OneCall'
  BY <1>1 DEF OneCall
<1>16. AimTrail'
  <2>1. canceller'.epoch <= epoch' /\ canceller'.epoch < epoch' /\ canceller'.epoch # epoch'
    BY <1>0, <1>1 DEF AimTrail, ClientShape
  <2>2. Aimed'
    BY <1>2 DEF Aimed
  <2> QED
    BY <1>1, <1>2, <1>9, <2>1, <2>2 DEF AimTrail
<1> QED
  BY <1>4, <1>6, <1>10, <1>11, <1>12, <1>13, <1>14, <1>15, <1>16
     DEF ConnectionInvariant

\* The call gives up its connection, or has none to begin with.
LEMMA AbandonStep ==
    ASSUME ConnectionInvariant,
           caller.at \in {"restarting", "handshaking", "joining"},
           Abandon, readerUp' = FALSE, alive' \in BOOLEAN, inputEnd' \in BOOLEAN,
           pending' = {}, UNCHANGED <<inbox, active>>,
           UNCHANGED <<stdin, mainLoop, cancels, fired, jobs, worker, responses,
                       writer, arena, stdout, accepted, written>>,
           UNCHANGED <<epoch, nextId, canceller, calls, aimed, cancelCalls, crashes>>
    PROVE  ConnectionInvariant'
<1>0. Typed /\ VerdictTrail /\ ClientShape /\ Counters /\ Phases /\ RowSound
      /\ Channel /\ OneCall /\ AimTrail
  BY DEF ConnectionInvariant
<1>1. /\ caller' = NoCall /\ caller' \in Callers /\ caller'.at = "idle" /\ ~InCall' /\ ~InCall
  BY NoCallShape DEF Abandon, InCall
<1>2. startup' \in Startups /\ startup'.link = "none"
  BY <1>0 DEF Abandon, ClientShape, Startups
<1>3. Typed' /\ VerdictTrail' /\ Row' = Row /\ (Quiet' <=> Quiet)
  BY <1>0, SameQueues
<1>4. ClientShape'
  <2>1. readerUp' \in BOOLEAN
    OBVIOUS
  <2> QED
    BY <1>0, <1>1, <1>2, <2>1 DEF ClientShape
<1>5. Counters'
  BY <1>0, <1>1 DEF Counters
<1>6. Phases'
  BY <1>1, <1>2 DEF Phases
<1>7. RowSound'
  BY <1>0, <1>1, <1>2, <1>3 DEF RowSound
<1>8. Channel'
  <2>1. inbox = NoMessage \/ inbox = Lost
    BY <1>0 DEF Channel
  <2> QED
    BY <1>1, <2>1 DEF Channel
<1>9. OneCall'
  BY DEF OneCall
<1>10. AimTrail'
  <2>1. \A t : Aims(t) => Aims(t)'
    BY <1>1 DEF Aims
  <2>2. Aimed'
    BY <1>0, <2>1, AimKept
  <2>3. canceller.epoch = epoch => Aims(canceller.target)'
    BY <1>0, <1>1 DEF AimTrail, Aims
  <2> QED
    BY <1>0, <1>1, <1>2, <2>2, <2>3 DEF AimTrail
<1> QED
  BY <1>3, <1>4, <1>5, <1>6, <1>7, <1>8, <1>9, <1>10 DEF ConnectionInvariant

\* A connection that could not be opened leaves no reader and no waiter.
LEMMA SpawnFailsStep ==
    ASSUME ConnectionInvariant, SpawnFails \/ JoinHandshake
    PROVE  ConnectionInvariant'
<1>1. /\ caller.at \in {"restarting", "joining"} /\ Abandon
      /\ UNCHANGED <<serveVars, epoch, nextId, active, inbox, canceller, calls,
                     aimed, cancelCalls, crashes>>
  BY DEF SpawnFails, JoinHandshake
<1>2. readerUp' = FALSE
  <2>1. CASE SpawnFails
    BY <2>1 DEF SpawnFails
  <2>2. CASE JoinHandshake
    <3>1. readerUp' = readerUp /\ ~readerUp /\ readerUp \in BOOLEAN
      BY <2>2 DEF JoinHandshake, ConnectionInvariant, Phases, ClientShape
    <3> QED
      BY <3>1
  <2> QED
    BY <2>1, <2>2
<1>3. pending' = {}
  BY DEF SpawnFails, JoinHandshake, ConnectionInvariant, Channel, InCall
<1>4. alive' \in BOOLEAN
  BY DEF SpawnFails, JoinHandshake, ConnectionInvariant, ClientShape
<1>5. /\ UNCHANGED <<stdin, mainLoop, cancels, fired, jobs, worker, responses,
                     writer, arena, stdout, accepted, written>>
      /\ inputEnd' \in BOOLEAN
  BY <1>1 DEF serveVars, ConnectionInvariant, Typed, ServeTypeOK
<1> QED
  BY <1>1, <1>2, <1>3, <1>4, <1>5, AbandonStep

\* The expected handshake opens the connection on an empty row.
LEMMA OpenStep ==
    ASSUME ConnectionInvariant, RecvHandshake, startup.channel = "expected"
    PROVE  ConnectionInvariant'
<1>0. Typed /\ VerdictTrail /\ ClientShape /\ Counters /\ Phases /\ RowSound
      /\ Channel /\ OneCall /\ AimTrail
  BY DEF ConnectionInvariant
<1> DEFINE op == caller.request.op
<1>1. /\ caller.at = "handshaking" /\ startup' = [startup EXCEPT !.link = "open"]
      /\ readerUp' = TRUE /\ Register(op, FALSE)
      /\ UNCHANGED <<alive, inputEnd>>
      /\ UNCHANGED <<stdin, mainLoop, cancels, fired, jobs, worker, responses,
                     writer, arena, stdout, accepted, written>>
      /\ UNCHANGED <<epoch, canceller, calls, aimed, cancelCalls, crashes>>
  BY DEF RecvHandshake
<1>2. op \in CallOps
  BY <1>0, <1>1 DEF ClientShape
<1>3. Registered(op) /\ caller'.restarts = FALSE
  <2>1. nextId \in 1 .. MaxFrames + 1 /\ FALSE \in BOOLEAN
    BY <1>0 DEF ClientShape
  <2> QED
    BY <1>1, <1>2, <2>1, RegisterShape, Zenon
<1> HIDE DEF op
<1>4. inputEnd' \in BOOLEAN
  BY <1>0, <1>1 DEF Typed, ServeTypeOK
<1>5. Typed' /\ VerdictTrail' /\ Row' = Row /\ (Busy' <=> Busy) /\ (Answered' <=> Answered)
  BY <1>0, <1>1, <1>4, SameQueues
<1>6. startup.link = "starting" /\ Quiet /\ ~InCall /\ InCall'
  BY <1>0, <1>1, <1>3 DEF Phases, RowSound, InCall, Registered
<1>7. startup' \in Startups /\ startup'.link = "open"
  BY <1>0, <1>1 DEF ClientShape, Startups
<1>8. ClientShape'
  <2>1. readerUp' \in BOOLEAN
    BY <1>1
  <2>2. nextId' \in 1 .. MaxFrames + 1
    BY <1>3, ServeAssumption DEF Registered
  <2> QED
    BY <1>0, <1>1, <1>2, <1>3, <1>7, <2>1, <2>2, NoCallShape DEF ClientShape, Registered
<1>9. Counters'
  BY <1>0, <1>1, <1>3 DEF Counters
<1>10. Phases'
  BY <1>1, <1>3, <1>7 DEF Phases, Registered
<1>11. RowSound'
  BY <1>0, <1>3, <1>5, <1>7 DEF RowSound, Registered, InCall, ClientShape
<1>12. Channel'
  BY <1>0, <1>1, <1>3, <1>6 DEF Channel, Registered
<1>13. OneCall'
  <2>1. /\ Len(stdin') = 0 /\ Len(jobs') = 0 /\ Len(responses') = 0 /\ Len(stdout') = 0
        /\ ~Busy' /\ ~Answered'
    BY <1>1, <1>5, <1>6 DEF Quiet, Busy, Answered
  <2> QED
    BY <2>1 DEF OneCall, Upstream, Downstream
<1>14. AimTrail'
  <2>1. Aimed'
    <3>1. Len(stdin') = 0 /\ fired' = {}
      BY <1>0, <1>1, <1>6 DEF Quiet, AimTrail
    <3> QED
      BY <3>1 DEF Aimed
  <2>2. canceller'.epoch <= epoch' /\ canceller'.epoch # epoch'
    BY <1>0, <1>1, <1>6 DEF AimTrail, ClientShape
  <2> QED
    BY <1>0, <1>3, <1>6, <1>7, <2>1, <2>2 DEF AimTrail, Registered
<1> QED
  BY <1>5, <1>8, <1>9, <1>10, <1>11, <1>12, <1>13, <1>14 DEF ConnectionInvariant

\* The handshake that arrives in time starts the reader before the request is sent.
LEMMA RecvHandshakeStep ==
    ASSUME ConnectionInvariant, RecvHandshake
    PROVE  ConnectionInvariant'
<1>1. CASE startup.channel = "expected"
  BY <1>1, OpenStep
<1>2. CASE startup.channel # "expected"
  <2>1. /\ caller.at = "handshaking" /\ Abandon
        /\ UNCHANGED <<readerUp, nextId, active, pending, inbox>>
        /\ UNCHANGED <<stdin, mainLoop, cancels, fired, jobs, worker, responses,
                       writer, arena, stdout, accepted, written>>
        /\ UNCHANGED <<epoch, canceller, calls, aimed, cancelCalls, crashes>>
    BY <1>2 DEF RecvHandshake
  <2>2. alive' = (alive /\ startup.channel = "garbled") /\ inputEnd' = TRUE
    BY <1>2 DEF RecvHandshake
  <2>3. alive' \in BOOLEAN /\ inputEnd' \in BOOLEAN
    BY <2>2, Zenon
  <2>4. readerUp' = FALSE /\ pending' = {}
    BY <2>1 DEF ConnectionInvariant, Phases, ClientShape, Channel, InCall
  <2> QED
    BY <2>1, <2>3, <2>4, AbandonStep
<1> QED
  BY <1>1, <1>2

\* A step that leaves the queues, the connection and its channel alone: the
\* startup thread's, a death of the producer, a cancelling thread that looks
\* or gives up, a call refused for want of a connection.
LEMMA CalmStep ==
    ASSUME ConnectionInvariant,
           UNCHANGED <<serveVars, epoch, nextId, active, pending, readerUp, inbox>>,
           alive' \in BOOLEAN, alive' => alive,
           startup' \in Startups, startup'.link = startup.link,
           \/ caller' = caller
           \/ caller.at = "handshaking" /\ caller' = [caller EXCEPT !.at = "joining"],
           calls' \in Nat, cancelCalls' \in Nat, crashes' \in Nat, Counters',
           calls' = calls \/ caller.at = "idle", aimed \subseteq aimed',
           \/ canceller' \in {canceller, NoCancel}
           \/ /\ canceller' = [target |-> active, epoch |-> epoch]
              /\ active # 0 /\ calls \in aimed'
    PROVE  ConnectionInvariant'
<1>0. Typed /\ VerdictTrail /\ ClientShape /\ Counters /\ Phases /\ RowSound
      /\ Channel /\ OneCall /\ AimTrail
  BY DEF ConnectionInvariant
<1>1. /\ UNCHANGED <<epoch, nextId, active, pending, readerUp, inbox>>
      /\ UNCHANGED <<stdin, mainLoop, cancels, fired, jobs, worker, responses,
                     writer, arena, stdout, accepted, written>>
      /\ inputEnd' \in BOOLEAN
  BY <1>0 DEF serveVars, Typed, ServeTypeOK
<1>2. Typed' /\ VerdictTrail' /\ Row' = Row /\ (Quiet' <=> Quiet)
  BY <1>0, <1>1, SameQueues
<1>3. /\ caller' \in Callers /\ caller'.request = caller.request
      /\ caller'.restarts = caller.restarts
      /\ \/ caller'.at = caller.at
         \/ caller.at = "handshaking" /\ caller'.at = "joining"
  <2>1. CASE caller' = caller
    BY <1>0, <2>1 DEF ClientShape
  <2>2. CASE caller.at = "handshaking" /\ caller' = [caller EXCEPT !.at = "joining"]
    <3>1. caller \in Callers
      BY <1>0 DEF ClientShape
    <3> QED
      BY <2>2, <3>1, CallerMoves
  <2> QED
    BY <2>1, <2>2
<1>4. /\ (InCall' <=> InCall) /\ (InCall => calls' = calls)
      /\ (InCall => caller.request.id \in 1 .. MaxFrames)
  BY <1>0, <1>3 DEF InCall, ClientShape, Requests
<1>5. canceller' \in [target : 0 .. MaxFrames, epoch : Nat]
  <2>1. active \in 0 .. MaxFrames /\ epoch \in Nat
    BY <1>0, <1>4, ServeAssumption DEF AimTrail, ClientShape
  <2>2. NoCancel \in [target : 0 .. MaxFrames, epoch : Nat]
    BY ServeAssumption DEF NoCancel
  <2> QED
    BY <1>0, <2>1, <2>2 DEF ClientShape
<1>6. ClientShape'
  <2>1. readerUp' \in BOOLEAN
    BY <1>0, <1>1 DEF ClientShape
  <2> QED
    BY <1>0, <1>1, <1>3, <1>5, <2>1 DEF ClientShape
<1>7. Phases'
  BY <1>0, <1>1, <1>3 DEF Phases
<1>8. RowSound'
  BY <1>0, <1>1, <1>2, <1>3, <1>4 DEF RowSound
<1>9. Channel'
  BY <1>0, <1>1, <1>2, <1>3, <1>4 DEF Channel
<1>10. OneCall'
  <2>1. \A x \in Elems(Row) : Mine(x) => caller'.at = "waiting" /\ x = caller'.request.id
    BY <1>3 DEF Mine
  <2> QED
    BY <1>0, <1>1, <2>1, OneCallKept
<1>11. AimTrail'
  <2>1. \A t : Aims(t) => Aims(t)'
    BY <1>1, <1>3, <1>4 DEF Aims
  <2>2. Aimed'
    BY <1>0, <1>1, <2>1, AimKept
  <2>3. CASE canceller' = canceller
    <3>1. canceller.epoch = epoch => Aims(canceller.target)'
      BY <1>0, <1>1, <1>3, <1>4, <2>3 DEF AimTrail, Aims
    <3> QED
      BY <1>0, <1>1, <1>3, <1>4, <2>2, <2>3, <3>1 DEF AimTrail
  <2>4. CASE canceller' = NoCancel
    <3>1. /\ canceller'.epoch <= epoch /\ canceller'.epoch # epoch
          /\ canceller'.epoch < epoch
      BY <1>0, <2>4 DEF NoCancel, ClientShape
    <3> QED
      BY <1>0, <1>1, <1>3, <1>4, <2>2, <3>1 DEF AimTrail
  <2>5. CASE /\ canceller' = [target |-> active, epoch |-> epoch]
             /\ active # 0 /\ calls \in aimed'
    <3>1. InCall /\ active = caller.request.id /\ caller.request.id \in Nat
          /\ caller.request.id < nextId
      BY <1>0, <1>4, <2>5 DEF AimTrail, RowSound
    <3>2. canceller'.target = caller.request.id /\ canceller'.epoch = epoch
      BY <2>5, <3>1
    <3>3. Aims(canceller.target)'
      BY <1>1, <1>4, <2>5, <3>1, <3>2 DEF Aims
    <3>4. startup.link # "starting" /\ epoch <= epoch
      BY <1>0, <3>1 DEF Phases, InCall, ClientShape
    <3> QED
      BY <1>0, <1>1, <1>3, <1>4, <2>2, <3>2, <3>3, <3>4 DEF AimTrail
  <2> QED
    BY <2>3, <2>4, <2>5
<1> QED
  BY <1>2, <1>6, <1>7, <1>8, <1>9, <1>10, <1>11 DEF ConnectionInvariant

\* Steps that move nothing through the Row.
LEMMA CalmSteps ==
    ASSUME ConnectionInvariant,
           \/ CallClosed \/ HandshakeTimeout \/ ChildReports \/ HandshakeStep
           \/ LoadActive \/ CancelFails \/ ProducerExits \/ Crash \/ UNCHANGED vars
    PROVE  ConnectionInvariant'
<1>0. ClientShape /\ Counters /\ Phases /\ AimTrail
  BY DEF ConnectionInvariant
<1>1. /\ calls \in Nat /\ cancelCalls \in Nat /\ crashes \in Nat /\ epoch \in Nat
      /\ startup \in Startups /\ alive \in BOOLEAN
      /\ MaxCalls \in Nat /\ MaxCancels \in Nat /\ MaxCrashes \in Nat
  BY <1>0, ConnectionAssumption DEF ClientShape
<1>2. CASE CallClosed
  <2>1. /\ caller.at = "idle" /\ calls < MaxCalls /\ calls' = calls + 1
        /\ UNCHANGED <<serveVars, epoch, nextId, active, pending, readerUp, inbox>>
        /\ UNCHANGED <<alive, caller, canceller, aimed, cancelCalls, crashes, startup>>
    BY <1>2 DEF CallClosed
  <2>2. Counters'
    <3>1. calls' <= MaxCalls /\ epoch' <= calls' + 1
      BY <1>0, <1>1, <2>1 DEF Counters
    <3>2. aimed' \subseteq 1 .. calls'
      BY <1>0, <1>1, <2>1 DEF Counters
    <3> QED
      BY <1>0, <2>1, <3>1, <3>2 DEF Counters
  <2>3. alive' \in BOOLEAN /\ (alive' => alive) /\ calls' \in Nat
    BY <1>1, <2>1
  <2> QED
    BY <1>1, <2>1, <2>2, <2>3, CalmStep
<1>3. CASE HandshakeTimeout
  <2>1. /\ caller.at = "handshaking" /\ alive' = FALSE
        /\ caller' = [caller EXCEPT !.at = "joining"]
        /\ UNCHANGED <<serveVars, epoch, nextId, active, pending, readerUp, inbox>>
        /\ UNCHANGED <<canceller, calls, aimed, cancelCalls, crashes, startup>>
    BY <1>3 DEF HandshakeTimeout
  <2>2. startup.link = "starting"
    BY <1>0, <2>1 DEF Phases
  <2>3. Counters'
    BY <1>0, <2>1, <2>2 DEF Counters
  <2>4. alive' \in BOOLEAN
    BY <2>1
  <2> QED
    BY <1>1, <2>1, <2>3, <2>4, CalmStep
<1>4. CASE ChildReports \/ HandshakeStep
  <2>1. /\ UNCHANGED <<serveVars, epoch, nextId, active, pending, readerUp, inbox>>
        /\ UNCHANGED <<alive, caller, canceller, calls, aimed, cancelCalls, crashes>>
    BY <1>4 DEF ChildReports, HandshakeStep, HandshakeRead, HandshakeSend
  <2>2. startup' \in Startups /\ startup'.link = startup.link
    <3>1. CASE ChildReports
      BY <1>1, <3>1 DEF ChildReports, Startups
    <3>2. CASE HandshakeRead
      BY <1>1, <3>2 DEF HandshakeRead, Startups
    <3>3. CASE HandshakeSend
      BY <1>1, <3>3 DEF HandshakeSend, Startups
    <3> QED
      BY <1>4, <3>1, <3>2, <3>3 DEF HandshakeStep
  <2>3. Counters'
    BY <1>0, <2>1, <2>2 DEF Counters
  <2>4. alive' \in BOOLEAN /\ (alive' => alive)
    BY <1>1, <2>1
  <2> QED
    BY <1>1, <2>1, <2>2, <2>3, <2>4, CalmStep
<1>5. CASE LoadActive
  <2>1. /\ cancelCalls < MaxCancels /\ active # 0
        /\ canceller' = [target |-> active, epoch |-> epoch]
        /\ aimed' = aimed \union {calls} /\ cancelCalls' = cancelCalls + 1
        /\ UNCHANGED <<serveVars, epoch, nextId, active, pending, readerUp, inbox>>
        /\ UNCHANGED <<alive, caller, calls, crashes, startup>>
    BY <1>5 DEF LoadActive
  <2>2. calls \in 1 .. calls
    <3>1. InCall
      BY <1>0, <2>1 DEF AimTrail
    <3>2. 1 <= calls
      BY <1>0, <3>1 DEF Counters, InCall
    <3> QED
      BY <1>1, <3>2
  <2>3. Counters'
    <3>1. cancelCalls' <= MaxCancels
      BY <1>1, <2>1
    <3> QED
      BY <1>0, <2>1, <2>2, <3>1 DEF Counters
  <2>4. alive' \in BOOLEAN /\ (alive' => alive) /\ cancelCalls' \in Nat
    BY <1>1, <2>1
  <2> QED
    BY <1>1, <2>1, <2>3, <2>4, CalmStep
<1>6. CASE CancelFails
  <2>1. /\ canceller' = NoCancel
        /\ UNCHANGED <<serveVars, epoch, nextId, active, pending, readerUp, inbox>>
        /\ UNCHANGED <<alive, caller, calls, aimed, cancelCalls, crashes, startup>>
    BY <1>6 DEF CancelFails
  <2>2. Counters'
    BY <1>0, <2>1 DEF Counters
  <2>3. alive' \in BOOLEAN /\ (alive' => alive)
    BY <1>1, <2>1
  <2> QED
    BY <1>1, <2>1, <2>2, <2>3, CalmStep
<1>7. CASE ProducerExits \/ Crash
  <2>1. /\ alive' = FALSE /\ crashes' \in Nat /\ crashes' <= MaxCrashes
        /\ UNCHANGED <<serveVars, epoch, nextId, active, pending, readerUp, inbox>>
        /\ UNCHANGED <<caller, canceller, calls, aimed, cancelCalls, startup>>
    BY <1>0, <1>1, <1>7 DEF ProducerExits, Crash, Counters
  <2>2. Counters'
    BY <1>0, <2>1 DEF Counters
  <2>3. alive' \in BOOLEAN
    BY <2>1
  <2> QED
    BY <1>1, <2>1, <2>2, <2>3, CalmStep
<1>8. CASE UNCHANGED vars
  <2>1. /\ UNCHANGED <<serveVars, epoch, nextId, active, pending, readerUp, inbox>>
        /\ UNCHANGED <<alive, caller, canceller, calls, aimed, cancelCalls, crashes, startup>>
    BY <1>8 DEF vars, clientVars
  <2>2. Counters'
    BY <1>0, <2>1 DEF Counters
  <2>3. alive' \in BOOLEAN /\ (alive' => alive)
    BY <1>1, <2>1
  <2> QED
    BY <1>1, <2>1, <2>2, <2>3, CalmStep
<1> QED
  BY <1>2, <1>3, <1>4, <1>5, <1>6, <1>7, <1>8

-----------------------------------------------------------------------------
(* The reader thread. *)

\* A response leaves the pipe.
LEMMA PipeRead ==
    ASSUME Typed, VerdictTrail, stdout # <<>>, stdout' = Tail(stdout),
           UNCHANGED <<stdin, inputEnd, mainLoop, cancels, fired, jobs, worker,
                       responses, writer, arena, accepted, written>>
    PROVE  /\ Typed' /\ VerdictTrail'
           /\ Head(stdout) \in Responses /\ Head(stdout) = stdout[1]
           /\ Len(stdout) \in Nat \ {0} /\ Len(stdout') = Len(stdout) - 1
           /\ \A i \in 1 .. Len(stdout') : stdout'[i] = stdout[i + 1]
<1>1. stdout \in Seq(Responses)
  BY DEF Typed, ServeTypeOK
<1>2. /\ Head(stdout) \in Responses /\ Head(stdout) = stdout[1]
      /\ Len(stdout) \in Nat \ {0} /\ Len(stdout') = Len(stdout) - 1
      /\ \A i \in 1 .. Len(stdout') : stdout'[i] = stdout[i + 1]
      /\ stdout' \in Seq(Responses)
  BY <1>1, HeadTailProperties, EmptySeq
<1>3. Typed'
  <2>1. ServeTypeOK'
    BY <1>2 DEF Typed, ServeTypeOK
  <2> QED
    BY <2>1 DEF Typed, WorkerShape, Busy, Answered
<1>4. \A i \in 1 .. Len(stdout') :
        stdout'[i].verdict = "cancelled" => stdout'[i].id \in fired
  BY <1>2 DEF VerdictTrail
<1>5. VerdictTrail'
  BY <1>4 DEF VerdictTrail, Answered
<1> QED
  BY <1>2, <1>3, <1>5

\* The parts of the invariant that do not depend on what the reader does to
\* the channel.
LEMMA ReaderKeepsAim ==
    ASSUME AimTrail, UNCHANGED <<stdin, fired, epoch, nextId, active, caller,
                                 canceller, calls, aimed>>,
           startup'.link = "starting" => startup.link = "starting"
    PROVE  AimTrail'
<1>1. InCall' <=> InCall
  BY DEF InCall
<1>2. \A t : Aims(t) => Aims(t)'
  BY <1>1 DEF Aims
<1>3. Aimed'
  BY <1>2, AimKept
<1>4. canceller.epoch = epoch => Aims(canceller.target)'
  BY <1>1 DEF AimTrail, Aims
<1> QED
  BY <1>1, <1>3, <1>4 DEF AimTrail

\* The reader delivers the first answer of the Row to its own request.
LEMMA ReadResponseStep ==
    ASSUME ConnectionInvariant, ReadResponse
    PROVE  ConnectionInvariant'
<1>0. Typed /\ VerdictTrail /\ ClientShape /\ Counters /\ Phases /\ RowSound
      /\ Channel /\ OneCall /\ AimTrail
  BY DEF ConnectionInvariant
<1> DEFINE h == Head(stdout)
<1>1. /\ readerUp /\ stdout # <<>> /\ stdout' = Tail(stdout)
      /\ UNCHANGED <<stdin, inputEnd, mainLoop, cancels, fired, jobs, worker,
                     responses, writer, arena, accepted, written>>
      /\ UNCHANGED <<alive, epoch, nextId, active, caller, canceller, calls,
                     aimed, cancelCalls, crashes, startup>>
  BY DEF ReadResponse
<1>2. /\ Typed' /\ VerdictTrail' /\ h \in Responses /\ h = stdout[1]
      /\ Len(stdout) \in Nat \ {0} /\ Len(stdout') = Len(stdout) - 1
      /\ \A i \in 1 .. Len(stdout') : stdout'[i] = stdout[i + 1]
  BY <1>0, <1>1, PipeRead
<1>3. Upstream /\ Downstream
  BY <1>0, <1>1 DEF OneCall
<1>4. OwnResponse(h)
  BY <1>2, <1>3 DEF Downstream
<1>5. Attached(h)
  BY <1>4 DEF OwnResponse, Attached
<1>6. /\ readerUp' = readerUp /\ pending' = pending \ {h.id}
      /\ inbox' = IF h.id \in pending THEN Message(h) ELSE inbox
  BY <1>5 DEF ReadResponse
<1>7. /\ Distinct(Row)' /\ (Elems(Row))' \subseteq Elems(Row)
      /\ h.id \in Elems(Row) /\ h.id \notin (Elems(Row))'
  BY <1>0, <1>1, RowReads DEF RowSound
<1>8. /\ h.id \in 1 .. MaxFrames /\ h.verdict \in {"ok", "error", "cancelled"}
      /\ (h.verdict = "cancelled" => h.id \in fired)
  <2>1. h.id \in 1 .. MaxFrames /\ h.verdict \in {"ok", "error", "cancelled"}
    BY <1>2 DEF Responses
  <2>2. h.verdict = "cancelled" => h.id \in fired
    BY <1>0, <1>2 DEF VerdictTrail
  <2> QED
    BY <2>1, <2>2
<1> HIDE DEF h
<1>9. /\ Message(h).kind = h.verdict /\ Message(h).id = h.id
      /\ Message(h) \in Messages /\ Message(h) # NoMessage
  BY <1>8, ServeAssumption DEF Message, Messages, NoMessage
<1>10. (InCall' <=> InCall) /\ startup.link # "starting"
  BY <1>0, <1>1 DEF InCall, Phases
<1>11. ClientShape'
  <2>1. inbox' \in Messages
    BY <1>0, <1>6, <1>9 DEF ClientShape
  <2>2. alive' \in BOOLEAN /\ readerUp' \in BOOLEAN
    BY <1>0, <1>1, <1>6 DEF ClientShape
  <2> QED
    BY <1>0, <1>1, <2>1, <2>2 DEF ClientShape
<1>12. Counters'
  BY <1>0, <1>1 DEF Counters
<1>13. Phases'
  BY <1>0, <1>1, <1>6 DEF Phases
<1>14. RowSound'
  BY <1>0, <1>1, <1>7, <1>10 DEF RowSound
<1>15. Channel'
  <2>1. CASE h.id \in pending
    <3>1. InCall /\ h.id = caller.request.id /\ pending' = {} /\ inbox' = Message(h)
      BY <1>0, <1>6, <2>1 DEF Channel
    <3>2. caller.at = "waiting"
      BY <1>0, <1>7, <3>1 DEF RowSound, InCall
    <3> QED
      BY <1>1, <1>7, <1>8, <1>9, <1>10, <3>1, <3>2 DEF Channel
  <2>2. CASE h.id \notin pending
    <3>1. pending' = pending /\ inbox' = inbox
      BY <1>6, <2>2
    <3> QED
      BY <1>0, <1>1, <1>6, <1>7, <1>10, <3>1 DEF Channel
  <2> QED
    BY <2>1, <2>2
<1>16. OneCall'
  <2>1. \A i \in 1 .. Len(stdout') : OwnResponse(stdout[i + 1])
    BY <1>2, <1>3 DEF Downstream
  <2>2. \A r : OwnResponse(r) => OwnResponse(r)'
    BY <1>1 DEF OwnResponse, Mine
  <2>3. ASSUME NEW i \in 1 .. Len(stdout')
        PROVE  stdout'[i].arena => arena' = stdout'[i].id
                 /\ caller'.at = "waiting" /\ stdout'[i].id = caller'.request.id
    BY <1>1, <1>2, <2>1 DEF OwnResponse, Mine
  <2>4. Upstream'
    BY <1>1, <1>3 DEF Upstream, OwnRequest, Mine
  <2>5. Downstream'
    <3>1. /\ \A i \in 1 .. Len(jobs') : OwnRequest(jobs[i])'
          /\ Busy' => OwnRequest(worker.request)'
      BY <1>1, <1>3 DEF Downstream, OwnRequest, Mine, Busy
    <3>2. /\ Answered' => OwnResponse(worker.reply)'
          /\ \A i \in 1 .. Len(responses') : OwnResponse(responses[i])'
      BY <1>1, <1>3 DEF Downstream, OwnResponse, Mine, Answered
    <3>3. \A i \in 1 .. Len(stdout') : OwnResponse(stdout[i])'
      BY <2>3 DEF OwnResponse, Mine
    <3> QED
      BY <3>1, <3>2, <3>3 DEF Downstream
  <2> QED
    BY <2>4, <2>5 DEF OneCall
<1>17. AimTrail'
  BY <1>0, <1>1, ReaderKeepsAim
<1> QED
  BY <1>2, <1>11, <1>12, <1>13, <1>14, <1>15, <1>16, <1>17 DEF ConnectionInvariant

\* A reader that leaves fails what is pending first.
LEMMA ReaderLeavesStep ==
    ASSUME ConnectionInvariant, ReadMalformed \/ ReadEnd
    PROVE  ConnectionInvariant'
<1>0. Typed /\ VerdictTrail /\ ClientShape /\ Counters /\ Phases /\ RowSound
      /\ Channel /\ OneCall /\ AimTrail
  BY DEF ConnectionInvariant
<1>1. /\ readerUp /\ ReaderLeaves
      /\ UNCHANGED <<stdin, inputEnd, mainLoop, cancels, fired, jobs, worker,
                     responses, writer, arena, accepted, written>>
      /\ UNCHANGED <<alive, epoch, nextId, active, caller, canceller, calls,
                     aimed, cancelCalls, crashes>>
  BY DEF ReadMalformed, ReadEnd, serveVars
<1>2. /\ Typed' /\ VerdictTrail'
      /\ Distinct(Row)' /\ (Elems(Row))' \subseteq Elems(Row)
  <2>1. CASE ReadMalformed
    <3>1. stdout # <<>> /\ stdout' = Tail(stdout)
      BY <2>1 DEF ReadMalformed
    <3>2. Typed' /\ VerdictTrail'
      BY <1>0, <1>1, <3>1, PipeRead
    <3>3. Distinct(Row)' /\ (Elems(Row))' \subseteq Elems(Row)
      BY <1>0, <1>1, <3>1, RowReads DEF RowSound
    <3> QED
      BY <3>2, <3>3
  <2>2. CASE ReadEnd
    <3>1. stdout' = stdout /\ inputEnd' \in BOOLEAN
      BY <1>0, <2>2 DEF ReadEnd, serveVars, Typed, ServeTypeOK
    <3>2. Typed' /\ VerdictTrail' /\ Row' = Row
      BY <1>0, <1>1, <3>1, SameQueues
    <3> QED
      BY <1>0, <3>2 DEF RowSound
  <2> QED
    BY <2>1, <2>2
<1>3. /\ startup' \in Startups
      /\ \/ startup'.link = "choked"
         \/ startup'.link = startup.link /\ ~alive
  <2>1. CASE ReadMalformed
    BY <1>0, <2>1 DEF ReadMalformed, ClientShape, Startups
  <2>2. CASE ReadEnd
    BY <1>0, <2>2 DEF ReadEnd, ClientShape
  <2> QED
    BY <2>1, <2>2
<1>4. (InCall' <=> InCall) /\ startup.link \notin {"starting", "none"}
  BY <1>0, <1>1 DEF InCall, Phases
<1>5. /\ readerUp' = FALSE /\ pending' = {}
      /\ inbox' = IF InCall /\ caller.request.id \in pending THEN Lost ELSE inbox
  BY <1>1 DEF ReaderLeaves, InCall
<1>6. ClientShape'
  <2>1. inbox' \in Messages
    BY <1>0, <1>5, NoCallShape DEF ClientShape
  <2>2. alive' \in BOOLEAN /\ readerUp' \in BOOLEAN
    BY <1>0, <1>1, <1>5 DEF ClientShape
  <2> QED
    BY <1>0, <1>1, <1>3, <2>1, <2>2 DEF ClientShape
<1>7. Counters'
  BY <1>0, <1>1, <1>3, <1>4 DEF Counters
<1>8. Phases'
  BY <1>0, <1>1, <1>3, <1>4, <1>5 DEF Phases
<1>9. RowSound'
  BY <1>0, <1>1, <1>2, <1>3, <1>4 DEF RowSound
<1>10. Channel'
  <2>1. CASE InCall /\ caller.request.id \in pending
    BY <1>5, <2>1, NoCallShape DEF Channel
  <2>2. CASE ~(InCall /\ caller.request.id \in pending)
    <3>1. inbox' = inbox /\ pending' = {} /\ readerUp' = FALSE
      BY <1>5, <2>2
    <3>2. InCall /\ inbox = NoMessage /\ startup'.link # "choked" =>
            caller.at = "registered" /\ ~alive
      BY <1>0, <1>3, <2>2 DEF Channel
    <3>3. \/ inbox = NoMessage
          \/ inbox = Lost
          \/ /\ inbox.kind \in {"ok", "error", "cancelled"}
             /\ caller.at = "waiting" /\ inbox.id = caller.request.id
             /\ inbox.id \notin (Elems(Row))'
             /\ inbox.kind = "cancelled" => inbox.id \in fired
      BY <1>0, <1>2 DEF Channel
    <3> QED
      BY <1>1, <1>4, <3>1, <3>2, <3>3 DEF Channel
  <2> QED
    BY <2>1, <2>2
<1>11. OneCall'
  BY <1>5 DEF OneCall
<1>12. AimTrail'
  BY <1>0, <1>1, <1>3, ReaderKeepsAim
<1> QED
  BY <1>2, <1>6, <1>7, <1>8, <1>9, <1>10, <1>11, <1>12 DEF ConnectionInvariant

-----------------------------------------------------------------------------
(* The producer's steps. *)

\* With nothing on the way, the producer's goroutines have nothing to do.
LEMMA QuietStays ==
    ASSUME Quiet, PipelineStep
    PROVE  Quiet' /\ fired' = fired
<1>1. ~NextFrame
  BY DEF Quiet, NextFrame
<1>2. CASE MainStep
  BY <1>1, <1>2 DEF MainStep, AcceptRequest, AcceptCancel, StopReading, ServeReturns,
                    Quiet, Busy
<1>3. CASE WorkerStep
  <2>1. WorkerStops
    BY <1>3 DEF WorkerStep, WorkerPops, WorkerComputes, WorkerReleases,
                WorkerResponds, Quiet, Busy
  <2>2. worker'.at = "done"
    BY <2>1 DEF WorkerStops, Idle
  <2> QED
    BY <2>1, <2>2 DEF WorkerStops, Quiet, Busy
<1>4. CASE WriterStep
  BY <1>4 DEF WriterStep, WriterWrites, WriterFails, WriterStops, Quiet, Busy
<1> QED
  BY <1>2, <1>3, <1>4 DEF PipelineStep

\* Accepting takes one frame off the input, and fires at most its target.
LEMMA TakesFrame ==
    ASSUME Typed, AcceptRequest \/ AcceptCancel
    PROVE  /\ Len(stdin) \in Nat \ {0} /\ Len(stdin') = Len(stdin) - 1
           /\ \A i \in 1 .. Len(stdin') : stdin'[i] = stdin[i + 1]
           /\ Head(stdin) = stdin[1]
           /\ fired \subseteq fired'
           /\ \A f \in fired' : f \in fired \/ (Head(stdin).op = "cancel"
                                                 /\ f = Head(stdin).target)
<1>1. stdin \in Seq(Requests \union {BadFrame}) /\ stdin # <<>> /\ stdin' = Tail(stdin)
  BY DEF Typed, ServeTypeOK, AcceptRequest, AcceptCancel, NextFrame
<1>2. /\ Len(stdin) \in Nat \ {0} /\ Len(stdin') = Len(stdin) - 1
      /\ \A i \in 1 .. Len(stdin') : stdin'[i] = stdin[i + 1]
      /\ Head(stdin) = stdin[1]
  BY <1>1, HeadTailProperties, EmptySeq
<1> QED
  BY <1>2 DEF AcceptRequest, AcceptCancel

\* The producer fires only what the frames it takes are aimed at.
LEMMA ProducerAims ==
    ASSUME Typed, AimTrail, PipelineStep, UNCHANGED clientVars,
           startup.link = "starting" => Quiet
    PROVE  AimTrail' /\ fired \subseteq fired'
<1>1. UNCHANGED <<epoch, nextId, active, caller, canceller, calls, aimed, startup>>
  BY DEF clientVars
<1>2. InCall' <=> InCall
  BY <1>1 DEF InCall
<1>3. \A t : Aims(t) => Aims(t)'
  BY <1>1, <1>2 DEF Aims
<1>4. Aimed' /\ fired \subseteq fired'
  <2>1. CASE AcceptRequest \/ AcceptCancel
    <3>1. /\ Len(stdin) \in Nat \ {0} /\ Len(stdin') = Len(stdin) - 1
          /\ \A i \in 1 .. Len(stdin') : stdin'[i] = stdin[i + 1]
          /\ Head(stdin) = stdin[1]
          /\ fired \subseteq fired'
          /\ \A f \in fired' : f \in fired \/ (Head(stdin).op = "cancel"
                                                 /\ f = Head(stdin).target)
      BY <2>1, TakesFrame
    <3>2. \A i \in 1 .. Len(stdin) : stdin[i].op = "cancel" => Aims(stdin[i].target)
      BY DEF AimTrail, Aimed
    <3>3. ASSUME NEW i \in 1 .. Len(stdin'), stdin'[i].op = "cancel"
          PROVE  Aims(stdin[i].target)'
      <4>1. i + 1 \in 1 .. Len(stdin) /\ stdin'[i] = stdin[i + 1]
        BY <3>1
      <4>2. Aims(stdin[i + 1].target)
        BY <3>2, <3>3, <4>1
      <4> QED
        BY <1>1, <1>2, <4>1, <4>2 DEF Aims
    <3>4. ASSUME NEW f \in fired' PROVE Aims(f)
      <4>1. CASE f \in fired
        BY <4>1 DEF AimTrail, Aimed
      <4>2. CASE Head(stdin).op = "cancel" /\ f = Head(stdin).target
        <5>1. 1 \in 1 .. Len(stdin)
          BY <3>1
        <5> QED
          BY <3>1, <3>2, <4>2, <5>1
      <4> QED
        BY <3>1, <4>1, <4>2
    <3>5. ASSUME NEW f \in fired' PROVE Aims(f)'
      BY <1>3, <3>4
    <3> QED
      BY <3>1, <3>3, <3>5 DEF Aimed
  <2>2. CASE UNCHANGED <<stdin, fired>>
    BY <1>3, <2>2, AimKept
  <2>3. (AcceptRequest \/ AcceptCancel) \/ UNCHANGED <<stdin, fired>>
    BY DEF PipelineStep, MainStep, StopReading, ServeReturns, WorkerStep,
           WorkerPops, WorkerComputes, WorkerReleases, WorkerResponds, WorkerStops,
           WriterStep, WriterWrites, WriterFails, WriterStops
  <2> QED
    BY <2>1, <2>2, <2>3
<1>5. canceller.epoch = epoch => Aims(canceller.target)'
  BY <1>1, <1>2 DEF AimTrail, Aims
<1>6. startup.link = "starting" => fired' = fired
  BY QuietStays
<1> QED
  BY <1>1, <1>2, <1>4, <1>5, <1>6 DEF AimTrail

\* An answer that names the arena is the waiting call's, so no request of that
\* call is behind it: clearing or refilling the arena takes nothing from it.
LEMMA ArenaFree ==
    ASSUME Typed, Distinct(Row), Downstream, NEW q,
           \/ jobs # <<>> /\ q = Head(jobs)
           \/ Busy /\ q = worker.request,
           UsesArena(q)
    PROVE  /\ \A i \in 1 .. Len(responses) : ~responses[i].arena
           /\ \A i \in 1 .. Len(stdout) : ~stdout[i].arena
<1>1. OwnRequest(q)
  <2>1. CASE jobs # <<>> /\ q = Head(jobs)
    <3>1. jobs[1] = q /\ 1 \in 1 .. Len(jobs)
      BY <2>1, EmptySeq, LenProperties DEF Typed, ServeTypeOK
    <3> QED
      BY <3>1 DEF Downstream
  <2>2. CASE Busy /\ q = worker.request
    BY <2>2 DEF Downstream
  <2> QED
    BY <2>1, <2>2
<1>2. q.op # "cancel"
  BY DEF UsesArena
<1>3. q.id = caller.request.id
  BY <1>1, <1>2 DEF OwnRequest, Mine
<1>4. /\ \A i \in 1 .. Len(responses) : responses[i].id # q.id
      /\ \A i \in 1 .. Len(stdout) : stdout[i].id # q.id
  BY RowSeparates
<1> QED
  BY <1>3, <1>4 DEF Downstream, OwnResponse, Mine

\* Accepting a frame keeps what the caller may expect of its request.
LEMMA AcceptKeepsOwn ==
    ASSUME Typed, Upstream, Downstream, UNCHANGED caller, AcceptRequest \/ AcceptCancel
    PROVE  Upstream' /\ Downstream'
<1>1. /\ Len(stdin) \in Nat \ {0} /\ Len(stdin') = Len(stdin) - 1
      /\ \A i \in 1 .. Len(stdin') : stdin'[i] = stdin[i + 1]
      /\ Head(stdin) = stdin[1]
  BY TakesFrame
<1>2. jobs' = Append(jobs, Head(stdin)) /\ UNCHANGED <<worker, responses, arena, stdout>>
  BY DEF AcceptRequest, AcceptCancel
<1>3. jobs \in Seq(Requests) /\ Head(stdin) \in Requests
  <2>1. NextFrame /\ Head(stdin).op \in Operations
    BY DEF AcceptRequest, AcceptCancel, Operations
  <2> QED
    BY <2>1, HeadIsFrame DEF Typed, ServeTypeOK
<1>4. /\ Len(jobs) \in Nat /\ Len(jobs') = Len(jobs) + 1
      /\ \A i \in 1 .. Len(jobs) : jobs'[i] = jobs[i]
      /\ jobs'[Len(jobs) + 1] = Head(stdin)
  BY <1>2, <1>3, AppendProperties, LenProperties
<1>5. Upstream'
  <2>1. ASSUME NEW i \in 1 .. Len(stdin') PROVE OwnRequest(stdin[i])'
    <3>1. i + 1 \in 1 .. Len(stdin)
      BY <1>1
    <3>2. OwnRequest(stdin[i + 1])
      BY <3>1 DEF Upstream
    <3> QED
      BY <1>1, <3>2 DEF OwnRequest, Mine
  <2> QED
    BY <2>1 DEF Upstream
<1>6. ASSUME NEW i \in 1 .. Len(jobs') PROVE OwnRequest(jobs[i])'
  <2>1. CASE i \in 1 .. Len(jobs)
    <3>1. OwnRequest(jobs[i])
      BY <2>1 DEF Downstream
    <3> QED
      BY <1>4, <2>1, <3>1 DEF OwnRequest, Mine
  <2>2. CASE i = Len(jobs) + 1
    <3>1. OwnRequest(stdin[1])
      BY <1>1 DEF Upstream
    <3> QED
      BY <1>1, <1>4, <2>2, <3>1 DEF OwnRequest, Mine
  <2> QED
    BY <1>4, <2>1, <2>2
<1>7. /\ Busy' => OwnRequest(worker.request)'
      /\ Answered' => OwnResponse(worker.reply)'
  BY <1>2 DEF Downstream, OwnRequest, OwnResponse, Mine, Busy, Answered
<1>8. /\ \A i \in 1 .. Len(responses') : OwnResponse(responses[i])'
      /\ \A i \in 1 .. Len(stdout') : OwnResponse(stdout[i])'
  BY <1>2 DEF Downstream, OwnResponse, Mine
<1> QED
  BY <1>5, <1>6, <1>7, <1>8 DEF Downstream

\* A step of the worker answers the request it took.
LEMMA WorkerKeepsOwn ==
    ASSUME Typed, Distinct(Row), Downstream, UNCHANGED caller, WorkerStep
    PROVE  Downstream'
<1>0. /\ jobs \in Seq(Requests) /\ responses \in Seq(Responses)
      /\ Len(jobs) \in Nat /\ Len(responses) \in Nat /\ stdout' = stdout
  BY LenProperties DEF Typed, ServeTypeOK, WorkerStep, WorkerPops, WorkerComputes,
                       WorkerReleases, WorkerResponds, WorkerStops
<1>1. CASE WorkerPops
  <2>1. /\ worker.at = "idle" /\ jobs # <<>> /\ jobs' = Tail(jobs)
        /\ worker' = [Idle EXCEPT !.at = "computing", !.request = Head(jobs)]
        /\ arena' = IF UsesArena(Head(jobs)) THEN 0 ELSE arena
        /\ UNCHANGED responses
    BY <1>1 DEF WorkerPops
  <2>2. /\ Len(jobs) # 0 /\ Len(jobs') = Len(jobs) - 1 /\ Head(jobs) = jobs[1]
        /\ \A i \in 1 .. Len(jobs') : jobs'[i] = jobs[i + 1]
    BY <1>0, <2>1, HeadTailProperties, EmptySeq
  <2>3. worker'.at = "computing" /\ worker'.request = Head(jobs)
    BY <2>1 DEF Idle
  <2>4. \A i \in 1 .. Len(jobs) : OwnRequest(jobs[i])
    BY DEF Downstream
  <2>5. ASSUME NEW i \in 1 .. Len(jobs') PROVE OwnRequest(jobs[i])'
    <3>1. i + 1 \in 1 .. Len(jobs)
      BY <1>0, <2>2
    <3>2. OwnRequest(jobs[i + 1])
      BY <2>4, <3>1
    <3> QED
      BY <2>2, <3>2 DEF OwnRequest, Mine
  <2>6. OwnRequest(worker.request)'
    <3>1. OwnRequest(jobs[1])
      BY <1>0, <2>2, <2>4
    <3> QED
      BY <2>2, <2>3, <3>1 DEF OwnRequest, Mine
  <2>7. /\ \A i \in 1 .. Len(responses') : OwnResponse(responses[i])'
        /\ \A i \in 1 .. Len(stdout') : OwnResponse(stdout[i])'
    <3>1. CASE UsesArena(Head(jobs))
      <4>1. /\ \A i \in 1 .. Len(responses) : ~responses[i].arena
            /\ \A i \in 1 .. Len(stdout) : ~stdout[i].arena
        BY <2>1, <3>1, ArenaFree
      <4> QED
        BY <1>0, <2>1, <4>1 DEF OwnResponse
    <3>2. CASE ~UsesArena(Head(jobs))
      BY <1>0, <2>1, <3>2 DEF Downstream, OwnResponse, Mine
    <3> QED
      BY <3>1, <3>2
  <2>8. ~Answered'
    BY <2>3 DEF Answered
  <2> QED
    BY <2>5, <2>6, <2>7, <2>8 DEF Downstream
<1>2. CASE WorkerComputes
  <2>1. PICK verdict \in Verdicts(worker.request), committed \in BOOLEAN :
          /\ committed => UsesArena(worker.request)
          /\ arena' = IF committed THEN worker.request.id ELSE arena
          /\ worker' = [worker EXCEPT
               !.at = "computed",
               !.reply = [id |-> worker.request.id, verdict |-> verdict,
                          arena |-> committed /\ verdict = "ok"]]
    BY <1>2 DEF WorkerComputes
  <2>2. UNCHANGED <<jobs, responses>> /\ worker.at = "computing" /\ Busy
    BY <1>2 DEF WorkerComputes, Busy
  <2> DEFINE named == committed /\ verdict = "ok"
             reply == [id |-> worker.request.id, verdict |-> verdict, arena |-> named]
  <2>3. /\ worker'.at = "computed" /\ worker'.request = worker.request
        /\ worker'.reply = reply
    <3> HIDE DEF reply
    <3>1. worker' = [worker EXCEPT !.at = "computed", !.reply = reply]
      BY <2>1 DEF reply
    <3>2. worker \in [at : {"idle", "computing", "computed", "released", "done"},
                      request : Requests \union {NoRequest},
                      reply : Responses \union {NoReply}]
      BY DEF Typed, ServeTypeOK
    <3> QED
      BY <3>1, <3>2
  <2>4. reply.id = worker.request.id /\ (reply.arena => committed)
    <3>1. reply.arena = named
      BY Zenon
    <3>2. reply.id = worker.request.id
      BY Zenon
    <3> QED
      BY <3>1, <3>2
  <2> HIDE DEF reply
  <2>5. OwnRequest(worker.request)
    BY <2>2 DEF Downstream
  <2>6. OwnResponse(worker.reply)'
    <3>1. SUFFICES ASSUME worker'.reply.arena
                   PROVE  arena' = worker'.reply.id /\ Mine(worker.reply.id)'
      BY DEF OwnResponse
    <3>2. committed
      BY <2>3, <2>4, <3>1
    <3>3. worker.request.op # "cancel"
      BY <2>1, <3>2 DEF UsesArena
    <3>4. Mine(worker.request.id)
      BY <2>5, <3>3 DEF OwnRequest
    <3> QED
      BY <2>1, <2>3, <2>4, <3>2, <3>4 DEF Mine
  <2>7. /\ \A i \in 1 .. Len(responses') : OwnResponse(responses[i])'
        /\ \A i \in 1 .. Len(stdout') : OwnResponse(stdout[i])'
    <3>1. CASE committed
      <4>1. /\ \A i \in 1 .. Len(responses) : ~responses[i].arena
            /\ \A i \in 1 .. Len(stdout) : ~stdout[i].arena
        BY <2>1, <2>2, <3>1, ArenaFree
      <4> QED
        BY <1>0, <2>2, <4>1 DEF OwnResponse
    <3>2. CASE ~committed
      BY <1>0, <2>1, <2>2, <3>2 DEF Downstream, OwnResponse, Mine
    <3> QED
      BY <3>1, <3>2
  <2>8. /\ \A i \in 1 .. Len(jobs') : OwnRequest(jobs[i])'
        /\ OwnRequest(worker.request)'
    BY <2>2, <2>3, <2>5 DEF Downstream, OwnRequest, Mine
  <2> QED
    BY <2>6, <2>7, <2>8 DEF Downstream
<1>3. CASE WorkerReleases
  <2>1. /\ worker.at = "computed" /\ worker' = [worker EXCEPT !.at = "released"]
        /\ UNCHANGED <<jobs, responses, arena>>
    BY <1>3 DEF WorkerReleases
  <2>2. worker'.request = worker.request /\ worker'.reply = worker.reply
    BY <2>1 DEF Typed, ServeTypeOK
  <2>3. Busy /\ Answered
    BY <2>1 DEF Busy, Answered
  <2>4. OwnRequest(worker.request)' /\ OwnResponse(worker.reply)'
    BY <2>1, <2>2, <2>3 DEF Downstream, OwnRequest, OwnResponse, Mine
  <2>5. /\ \A i \in 1 .. Len(jobs') : OwnRequest(jobs[i])'
        /\ \A i \in 1 .. Len(responses') : OwnResponse(responses[i])'
        /\ \A i \in 1 .. Len(stdout') : OwnResponse(stdout[i])'
    BY <1>0, <2>1 DEF Downstream, OwnRequest, OwnResponse, Mine
  <2> QED
    BY <2>4, <2>5 DEF Downstream
<1>4. CASE WorkerResponds
  <2>1. /\ worker.at = "released" /\ worker' = Idle
        /\ responses' = Append(responses, worker.reply) /\ UNCHANGED <<jobs, arena>>
    BY <1>4 DEF WorkerResponds
  <2>2. worker.reply \in Responses /\ Answered
    BY <2>1 DEF Typed, WorkerShape, Answered
  <2>3. /\ Len(responses') = Len(responses) + 1
        /\ \A i \in 1 .. Len(responses) : responses'[i] = responses[i]
        /\ responses'[Len(responses) + 1] = worker.reply
    BY <1>0, <2>1, <2>2, AppendProperties
  <2>4. ASSUME NEW i \in 1 .. Len(responses') PROVE OwnResponse(responses[i])'
    <3>1. CASE i \in 1 .. Len(responses)
      BY <2>1, <2>3, <3>1 DEF Downstream, OwnResponse, Mine
    <3>2. CASE i = Len(responses) + 1
      BY <2>1, <2>2, <2>3, <3>2 DEF Downstream, OwnResponse, Mine
    <3> QED
      BY <1>0, <2>3, <3>1, <3>2
  <2>5. /\ \A i \in 1 .. Len(jobs') : OwnRequest(jobs[i])'
        /\ \A i \in 1 .. Len(stdout') : OwnResponse(stdout[i])'
    BY <1>0, <2>1 DEF Downstream, OwnRequest, OwnResponse, Mine
  <2>6. ~Busy' /\ ~Answered'
    BY <2>1 DEF Busy, Answered, Idle
  <2> QED
    BY <2>4, <2>5, <2>6 DEF Downstream
<1>5. CASE WorkerStops
  <2>1. worker' = [Idle EXCEPT !.at = "done"] /\ UNCHANGED <<jobs, responses, arena>>
    BY <1>5 DEF WorkerStops
  <2>2. ~Busy' /\ ~Answered'
    BY <2>1 DEF Busy, Answered, Idle
  <2>3. /\ \A i \in 1 .. Len(jobs') : OwnRequest(jobs[i])'
        /\ \A i \in 1 .. Len(responses') : OwnResponse(responses[i])'
        /\ \A i \in 1 .. Len(stdout') : OwnResponse(stdout[i])'
    BY <1>0, <2>1 DEF Downstream, OwnRequest, OwnResponse, Mine
  <2> QED
    BY <2>2, <2>3 DEF Downstream
<1> QED
  BY <1>1, <1>2, <1>3, <1>4, <1>5 DEF WorkerStep

\* Writing keeps what the caller may expect of its answer.
LEMMA WriterKeepsOwn ==
    ASSUME Typed, Downstream, UNCHANGED caller,
           WriterStep \/ StopReading \/ ServeReturns
    PROVE  Downstream'
<1>0. UNCHANGED <<jobs, worker, arena>>
  BY DEF WriterStep, WriterWrites, WriterFails, WriterStops, StopReading, ServeReturns
<1>1. /\ \A i \in 1 .. Len(jobs') : OwnRequest(jobs[i])'
      /\ Busy' => OwnRequest(worker.request)'
  BY <1>0 DEF Downstream, OwnRequest, Mine, Busy
<1>2. Answered' => OwnResponse(worker.reply)'
  BY <1>0 DEF Downstream, OwnResponse, Mine, Answered
<1>3. CASE WriterWrites \/ WriterFails
  <2>1. /\ responses \in Seq(Responses) /\ stdout \in Seq(Responses)
        /\ responses # <<>> /\ responses' = Tail(responses)
        /\ stdout' = stdout \/ stdout' = Append(stdout, Head(responses))
    BY <1>3 DEF Typed, ServeTypeOK, WriterWrites, WriterFails
  <2>2. /\ Len(responses) \in Nat \ {0} /\ Len(responses') = Len(responses) - 1
        /\ \A i \in 1 .. Len(responses') : responses'[i] = responses[i + 1]
        /\ Head(responses) = responses[1] /\ Head(responses) \in Responses
    BY <2>1, HeadTailProperties, EmptySeq
  <2>3. ASSUME NEW i \in 1 .. Len(responses') PROVE OwnResponse(responses[i])'
    <3>1. i + 1 \in 1 .. Len(responses)
      BY <2>2
    <3>2. OwnResponse(responses[i + 1])
      BY <3>1 DEF Downstream
    <3> QED
      BY <1>0, <2>2, <3>2 DEF OwnResponse, Mine
  <2>4. ASSUME NEW i \in 1 .. Len(stdout') PROVE OwnResponse(stdout[i])'
    <3>1. CASE stdout' = stdout
      BY <1>0, <3>1 DEF Downstream, OwnResponse, Mine
    <3>2. CASE stdout' = Append(stdout, Head(responses))
      <4>1. /\ Len(stdout) \in Nat /\ Len(stdout') = Len(stdout) + 1
            /\ \A k \in 1 .. Len(stdout) : stdout'[k] = stdout[k]
            /\ stdout'[Len(stdout) + 1] = responses[1]
        BY <2>1, <2>2, <3>2, AppendProperties, LenProperties
      <4>2. CASE i \in 1 .. Len(stdout)
        BY <1>0, <4>1, <4>2 DEF Downstream, OwnResponse, Mine
      <4>3. CASE i = Len(stdout) + 1
        <5>1. OwnResponse(responses[1])
          BY <2>2 DEF Downstream
        <5> QED
          BY <1>0, <4>1, <4>3, <5>1 DEF OwnResponse, Mine
      <4> QED
        BY <4>1, <4>2, <4>3
    <3> QED
      BY <2>1, <3>1, <3>2
  <2> QED
    BY <1>1, <1>2, <2>3, <2>4 DEF Downstream
<1>4. CASE UNCHANGED <<responses, stdout>>
  <2>1. /\ \A i \in 1 .. Len(responses') : OwnResponse(responses[i])'
        /\ \A i \in 1 .. Len(stdout') : OwnResponse(stdout[i])'
    BY <1>0, <1>4 DEF Downstream, OwnResponse, Mine
  <2> QED
    BY <1>1, <1>2, <2>1 DEF Downstream
<1> QED
  BY <1>3, <1>4 DEF WriterStep, WriterStops, StopReading, ServeReturns

\* Every step of the serve loop keeps the invariant of the composition.
LEMMA ProducerStepKeeps ==
    ASSUME ConnectionInvariant, PipelineStep, UNCHANGED clientVars
    PROVE  ConnectionInvariant'
<1>0. Typed /\ VerdictTrail /\ ClientShape /\ Counters /\ Phases /\ RowSound
      /\ Channel /\ OneCall /\ AimTrail
  BY DEF ConnectionInvariant
<1>1. /\ UNCHANGED <<epoch, nextId, active, pending, caller, inbox, canceller, calls>>
      /\ UNCHANGED <<alive, readerUp, aimed, cancelCalls, crashes, startup>>
  BY DEF clientVars
<1>2. Typed' /\ VerdictTrail'
  BY <1>0, TypedStep, VerdictStep
<1>3. Distinct(Row)' /\ (Elems(Row))' \subseteq Elems(Row)
  BY <1>0, RowPipeline DEF RowSound
<1>4. AimTrail' /\ fired \subseteq fired'
  BY <1>0, ProducerAims DEF RowSound
<1>5. InCall' <=> InCall
  BY <1>1 DEF InCall
<1>6. ClientShape'
  <2>1. alive' \in BOOLEAN /\ readerUp' \in BOOLEAN
    BY <1>0, <1>1 DEF ClientShape
  <2> QED
    BY <1>0, <1>1, <2>1 DEF ClientShape
<1>7. Counters'
  BY <1>0, <1>1 DEF Counters
<1>8. Phases'
  BY <1>0, <1>1 DEF Phases
<1>9. RowSound'
  <2>1. startup.link = "starting" => Quiet'
    BY <1>0, QuietStays DEF RowSound
  <2> QED
    BY <1>0, <1>1, <1>3, <1>5, <2>1 DEF RowSound
<1>10. Channel'
  BY <1>0, <1>1, <1>3, <1>4, <1>5 DEF Channel
<1>11. OneCall'
  <2>1. SUFFICES ASSUME readerUp PROVE Upstream' /\ Downstream'
    BY <1>1 DEF OneCall
  <2>2. Upstream /\ Downstream
    BY <1>0, <2>1 DEF OneCall
  <2>3. CASE AcceptRequest \/ AcceptCancel
    BY <1>0, <1>1, <2>2, <2>3, AcceptKeepsOwn
  <2>4. CASE WorkerStep \/ WriterStep \/ StopReading \/ ServeReturns
    <3>1. Downstream'
      BY <1>0, <1>1, <2>2, <2>4, WorkerKeepsOwn, WriterKeepsOwn DEF RowSound
    <3>2. stdin' = stdin
      BY <2>4 DEF WorkerStep, WorkerPops, WorkerComputes, WorkerReleases,
                  WorkerResponds, WorkerStops, WriterStep, WriterWrites,
                  WriterFails, WriterStops, StopReading, ServeReturns
    <3>3. Upstream'
      BY <1>1, <2>2, <3>2 DEF Upstream, OwnRequest, Mine
    <3> QED
      BY <3>1, <3>3
  <2> QED
    BY <2>3, <2>4 DEF PipelineStep, MainStep
<1> QED
  BY <1>2, <1>4, <1>6, <1>7, <1>8, <1>9, <1>10, <1>11 DEF ConnectionInvariant

-----------------------------------------------------------------------------
(* The theorems. *)

\* A first connection, with nothing on the way.
LEMMA ConnectionStarts == ConnectionInit => ConnectionInvariant
<1> SUFFICES ASSUME ConnectionInit PROVE ConnectionInvariant
  OBVIOUS
<1>1. ServeInit /\ Typed
  BY TypedInit DEF ConnectionInit
<1>2. /\ stdin = <<>> /\ jobs = <<>> /\ worker = Idle /\ responses = <<>>
      /\ stdout = <<>> /\ written = <<>> /\ fired = {}
  BY <1>1 DEF ServeInit
<1>3. /\ alive = TRUE /\ epoch = 1 /\ nextId = 1 /\ active = 0 /\ pending = {}
      /\ readerUp = TRUE /\ caller = NoCall /\ inbox = NoMessage
      /\ canceller = NoCancel /\ calls = 0 /\ aimed = {} /\ cancelCalls = 0
      /\ crashes = 0
  BY DEF ConnectionInit
<1>4. startup = [link |-> "open", frame |-> "expected", thread |-> "done",
                 channel |-> "expected"]
  BY DEF ConnectionInit
<1>5. startup \in Startups /\ startup.link = "open"
  BY <1>4 DEF Startups
<1>6. ~Busy /\ ~Answered /\ ~InCall /\ caller.at = "idle" /\ caller \in Callers
  BY <1>2, <1>3, NoCallShape DEF Busy, Answered, InCall, Idle
<1>7. Row = <<>>
  <2>1. Ids(<<>>) = <<>> /\ <<>> \o <<>> = <<>>
    BY EmptySeq, ConcatEmptySeq DEF Ids
  <2>2. InWorker = <<>>
    BY <1>2 DEF InWorker, Idle
  <2>3. Flow = <<>>
    BY <1>2, <2>1, <2>2 DEF Flow
  <2> QED
    BY <1>2, <2>1, <2>3 DEF Row
<1>8. canceller \in [target : 0 .. MaxFrames, epoch : Nat] /\ canceller.epoch = 0
  BY <1>3, ServeAssumption DEF NoCancel
<1>9. VerdictTrail
  BY <1>2, <1>6 DEF VerdictTrail
<1>10. ClientShape
  <2>1. alive \in BOOLEAN /\ readerUp \in BOOLEAN
    BY <1>3
  <2> QED
    BY <1>3, <1>5, <1>6, <1>8, <2>1, NoCallShape, ServeAssumption DEF ClientShape
<1>11. Counters
  BY <1>3, <1>6, ConnectionAssumption DEF Counters
<1>12. Phases
  BY <1>3, <1>5, <1>6 DEF Phases
<1>13. RowSound
  BY <1>5, <1>6, <1>7, NothingThere DEF RowSound, InCall
<1>14. Channel
  BY <1>3, <1>6 DEF Channel
<1>15. OneCall
  BY <1>2, <1>6 DEF OneCall, Upstream, Downstream
<1>16. AimTrail
  BY <1>2, <1>3, <1>5, <1>6, <1>8 DEF AimTrail, Aimed
<1> QED
  BY <1>1, <1>9, <1>10, <1>11, <1>12, <1>13, <1>14, <1>15, <1>16
     DEF ConnectionInvariant

\* The connection, its threads and the producer's goroutines keep the
\* inductive invariant, through every death and restart of the producer.
THEOREM ConnectionHolds == Spec => []ConnectionInvariant
<1>1. ASSUME ConnectionInvariant, [Next]_vars PROVE ConnectionInvariant'
  <2>1. CASE BeginCall
    BY <1>1, <2>1, BeginCallStep
  <2>2. CASE CallerStep
    BY <1>1, <2>2, WriteRequestStep, WriteFailsStep, CollectStep, SpawnStep,
       SpawnFailsStep, RecvHandshakeStep, CalmSteps DEF CallerStep
  <2>3. CASE \/ CallClosed \/ ChildReports \/ HandshakeStep \/ LoadActive
             \/ ProducerExits \/ Crash \/ UNCHANGED vars
    BY <1>1, <2>3, CalmSteps
  <2>4. CASE ReaderStep
    BY <1>1, <2>4, ReadResponseStep, ReaderLeavesStep DEF ReaderStep
  <2>5. CASE CancelStep
    BY <1>1, <2>5, WriteCancelStep, CalmSteps DEF CancelStep
  <2>6. CASE MainLoop \/ Worker \/ Writer
    <3>1. PipelineStep /\ UNCHANGED clientVars
      BY <2>6 DEF MainLoop, Worker, Writer, ProducerStep, PipelineStep
    <3> QED
      BY <1>1, <3>1, ProducerStepKeeps
  <2> QED
    BY <1>1, <2>1, <2>2, <2>3, <2>4, <2>5, <2>6 DEF Next
<1> QED
  BY <1>1, ConnectionStarts, PTL DEF Spec

\* Every variable keeps its shape, and the bounds on calls bound everything:
\* a session opens at most one connection more than it makes calls, because
\* exchange restarts a dead producer at most once per call.
THEOREM ConnectionTypeCorrect == Spec => []TypeOK
<1>1. ASSUME ConnectionInvariant PROVE TypeOK
  <2>1. ServeTypeOK /\ ClientShape /\ Counters /\ Channel /\ AimTrail
    BY <1>1 DEF ConnectionInvariant, Typed
  <2>2. alive \in BOOLEAN /\ readerUp \in BOOLEAN
    BY <2>1 DEF ClientShape
  <2>3. epoch \in 1 .. MaxCalls + 1 /\ aimed \subseteq 1 .. MaxCalls
    <3>1. /\ epoch \in Nat \ {0} /\ calls \in Nat /\ MaxCalls \in Nat
          /\ calls <= MaxCalls /\ epoch <= calls + 1 /\ aimed \subseteq 1 .. calls
      BY <2>1, ConnectionAssumption DEF ClientShape, Counters
    <3> QED
      BY <3>1
  <2>4. InCall => caller.request.id \in 1 .. MaxFrames
    BY <2>1 DEF ClientShape, InCall, Requests
  <2>5. active \in 0 .. MaxFrames /\ pending \subseteq 1 .. MaxFrames
    BY <2>1, <2>4, ServeAssumption DEF AimTrail, Channel
  <2>6. /\ nextId \in 1 .. MaxFrames + 1
        /\ caller.at \in {"idle", "registered", "waiting", "restarting",
                          "handshaking", "joining"}
        /\ inbox.kind \in {"empty", "lost", "ok", "error", "cancelled"}
    BY <2>1 DEF ClientShape, Callers, Messages
  <2>7. calls <= MaxCalls /\ cancelCalls <= MaxCancels /\ crashes <= MaxCrashes
    BY <2>1 DEF Counters
  <2> QED
    BY <2>1, <2>2, <2>3, <2>5, <2>6, <2>7 DEF TypeOK
<1> QED
  BY <1>1, ConnectionHolds, PTL

\* The answer a caller finds in its channel is the response to the request it
\* waits for, never a cancel's acknowledgement or an earlier call's answer.
THEOREM OwnAnswer == Spec => []AnswersOwnRequest
<1>1. ASSUME ConnectionInvariant PROVE AnswersOwnRequest
  <2>1. Channel
    BY <1>1 DEF ConnectionInvariant
  <2> QED
    BY <2>1 DEF Channel, AnswersOwnRequest, NoMessage, Lost
<1> QED
  BY <1>1, ConnectionHolds, PTL

\* The reader thread never meets a descriptor whose rows the arena has lost.
THEOREM ArenaStaysIntact == Spec => []ArenaIntact
<1>1. ASSUME ConnectionInvariant PROVE ArenaIntact
  <2>1. SUFFICES ASSUME readerUp, NEW i \in DOMAIN stdout PROVE Attached(stdout[i])
    BY DEF ArenaIntact
  <2>2. Typed /\ OneCall
    BY <1>1 DEF ConnectionInvariant
  <2>3. i \in 1 .. Len(stdout)
    BY <2>1, <2>2, LenProperties DEF Typed, ServeTypeOK
  <2>4. OwnResponse(stdout[i])
    BY <2>1, <2>2, <2>3 DEF OneCall, Downstream
  <2> QED
    BY <2>4 DEF OwnResponse, Attached
<1> QED
  BY <1>1, ConnectionHolds, PTL

\* No caller waits without its answer, a pending entry and a reader to serve
\* it, or the mark of a frame that could not be decoded.
THEOREM WaitersAreServed == Spec => []WaiterHasReader
<1>1. ASSUME ConnectionInvariant PROVE WaiterHasReader
  <2>1. Channel
    BY <1>1 DEF ConnectionInvariant
  <2> QED
    BY <2>1 DEF Channel, WaiterHasReader, InCall
<1> QED
  BY <1>1, ConnectionHolds, PTL

\* Only the call that cancel_active found active can come back cancelled,
\* although every connection numbers its requests from 1.
THEOREM OnlyAimedCallsCancelled == Spec => []CancelledOnlyIfAimed
<1>1. ASSUME ConnectionInvariant PROVE CancelledOnlyIfAimed
  <2>1. SUFFICES ASSUME inbox.kind = "cancelled" PROVE calls \in aimed
    BY DEF CancelledOnlyIfAimed
  <2>2. Channel /\ AimTrail
    BY <1>1 DEF ConnectionInvariant
  <2>3. caller.at = "waiting" /\ inbox.id = caller.request.id /\ inbox.id \in fired
    BY <2>1, <2>2 DEF Channel, NoMessage, Lost
  <2>4. Aims(inbox.id)
    BY <2>2, <2>3 DEF AimTrail, Aimed
  <2> QED
    BY <2>3, <2>4 DEF Aims, InCall
<1> QED
  BY <1>1, ConnectionHolds, PTL
=============================================================================
