------------------------ MODULE TaskDispatchCallsProofs ------------------------
(***************************************************************************)
(* Proofs about the calls of TaskDispatch: which replies answer which      *)
(* requests, what a returned payload that does not decode blocks, and how  *)
(* many tasks the faults strand.                                           *)
(***************************************************************************)
EXTENDS TaskDispatchProofs, FiniteSetTheorems

\* The call w waits for, its requests and the replies to them, by position.
Current(w, c) == Awaiting(w) /\ c = corrId[w]
AsksAt(w, c, i) == i \in 1 .. Len(rpcQueue) /\ rpcQueue[i].from = w /\ rpcQueue[i].corrId = c
AnswersAt(w, c, i) == i \in 1 .. Len(replyQueue[w]) /\ replyQueue[w][i].corrId = c

\* A call is one request.
UniqueIds ==
  \A w \in Workers, c \in CorrIds, i, j \in Nat : AsksAt(w, c, i) /\ AsksAt(w, c, j) => i = j

\* An earlier call of w has its request at the head of the queue, if anywhere: it has
\* been answered, and is delivered again after a stop.
OldFirst(w) ==
  \A c \in CorrIds, i \in Nat : AsksAt(w, c, i) /\ ~Current(w, c) => i = 1

\* Once the current call is answered, the head of the queue is the only place where a
\* request of w's can be, and it is that of the call; later replies answer it too.
AnsweredLast(w) ==
  \A c \in CorrIds, i \in Nat : AnswersAt(w, c, i) /\ Current(w, c) =>
    /\ \A d \in CorrIds, j \in Nat : AsksAt(w, d, j) => d = c /\ j = 1
    /\ \A d \in CorrIds, j \in Nat : AnswersAt(w, d, j) /\ j >= i => d = c

\* At most one earlier call still has messages about.
Old(w, c) == ~Current(w, c) /\ \E i \in Nat : AsksAt(w, c, i) \/ AnswersAt(w, c, i)
OneOld(w) == \A c, d \in CorrIds : Old(w, c) /\ Old(w, d) => c = d

\* The kind of the current call.
Asked(w) == IF workerPc[w] = "awaitTask" THEN "gettask" ELSE "rettask"
Fits(body, method) == IF method = "gettask" THEN body \in Tasks \cup {NOTASK} ELSE body = Accepted
Kinds(w) ==
  \A c \in CorrIds, i \in Nat : Current(w, c) =>
    /\ AsksAt(w, c, i) => rpcQueue[i].method = Asked(w)
    /\ AnswersAt(w, c, i) => Fits(replyQueue[w][i].body, Asked(w))

\* It has its request or its reply, and its reply before the request is acknowledged.
Kept(w) ==
  Awaiting(w) =>
    /\ corrId[w] \in CorrIds
    /\ \E i \in Nat : AsksAt(w, corrId[w], i) \/ AnswersAt(w, corrId[w], i)
    /\ AsksAt(w, corrId[w], 1) /\ serverPc = "acking" => \E i \in Nat : AnswersAt(w, corrId[w], i)

CallInv(w) == OldFirst(w) /\ AnsweredLast(w) /\ OneOld(w) /\ Kinds(w) /\ Kept(w)

\* What a request carries, and what the server makes of the one it works on.
RequestKinds ==
  \A i \in 1 .. Len(rpcQueue) : rpcQueue[i].method = "gettask" <=> rpcQueue[i].content = Nothing
ServerKinds ==
  /\ serverPc = "replying" => Fits(reply, Head(rpcQueue).method)
  /\ serverPc \in {"replying", "acking"} => Head(rpcQueue).content # Undecodable

CallsInv ==
  /\ TypeInv
  /\ RequestKinds /\ ServerKinds
  /\ UniqueIds
  /\ \A w \in Workers : workerPc[w] # "dead" => CallInv(w)

-------------------------------------------------------------------------------
(* How the queues change. *)

LEMMA QueueLengths ==
  ASSUME TypeOK
  PROVE  /\ rpcQueue \in Seq(Request) /\ Len(rpcQueue) \in Nat
         /\ \A i \in 1 .. Len(rpcQueue) : rpcQueue[i] \in Request
         /\ rpcQueue # <<>> => Head(rpcQueue) = rpcQueue[1] /\ 1 \in 1 .. Len(rpcQueue)
         /\ \A w \in Workers :
              /\ replyQueue[w] \in Seq(Reply) /\ Len(replyQueue[w]) \in Nat
              /\ \A i \in 1 .. Len(replyQueue[w]) : replyQueue[w][i] \in Reply
              /\ replyQueue[w] # <<>> => /\ Head(replyQueue[w]) = replyQueue[w][1]
                                         /\ 1 \in 1 .. Len(replyQueue[w])
<1>1. rpcQueue \in Seq(Request) /\ \A w \in Workers : replyQueue[w] \in Seq(Reply)
  BY DEF TypeOK
<1>2. rpcQueue # <<>> => Head(rpcQueue) = rpcQueue[1] /\ 1 \in 1 .. Len(rpcQueue)
  BY <1>1, EmptySeq, LenProperties
<1>3. \A w \in Workers : replyQueue[w] # <<>> => /\ Head(replyQueue[w]) = replyQueue[w][1]
                                                 /\ 1 \in 1 .. Len(replyQueue[w])
  BY <1>1, EmptySeq, LenProperties
<1>4. /\ Len(rpcQueue) \in Nat /\ \A i \in 1 .. Len(rpcQueue) : rpcQueue[i] \in Request
      /\ \A w \in Workers : /\ Len(replyQueue[w]) \in Nat
                            /\ \A i \in 1 .. Len(replyQueue[w]) : replyQueue[w][i] \in Reply
  BY <1>1, LenProperties
<1>5. QED
  BY <1>1, <1>2, <1>3, <1>4

\* What a new call of w does: it draws an id that nothing of w's carries and puts its
\* request behind the others.
NewRequest(w, c, method, content) ==
  /\ corrId' = [corrId EXCEPT ![w] = c]
  /\ \A i \in Nat : ~AsksAt(w, c, i) /\ ~AnswersAt(w, c, i)
  /\ \A v \in Workers, d \in CorrIds, i \in Nat :
       AsksAt(v, d, i)' <=> AsksAt(v, d, i) \/ (v = w /\ d = c /\ i = Len(rpcQueue) + 1)
  /\ Len(rpcQueue') = Len(rpcQueue) + 1
  /\ \A i \in 1 .. Len(rpcQueue) : rpcQueue'[i] = rpcQueue[i]
  /\ rpcQueue'[Len(rpcQueue) + 1].method = method
  /\ rpcQueue'[Len(rpcQueue) + 1].content = content

\* Call does what NewRequest says.
LEMMA CallAsks ==
  ASSUME TypeOK, NEW w \in Workers, NEW method \in {"gettask", "rettask"},
         NEW content \in Tasks \cup {NOTASK, Undecodable, Nothing},
         Call(w, method, content)
  PROVE  \E c \in CorrIds : NewRequest(w, c, method, content)
<1>1. PICK c \in CorrIds \ IdsInUse(w) :
        /\ corrId' = [corrId EXCEPT ![w] = c]
        /\ rpcQueue' = Append(rpcQueue, [method |-> method, from |-> w,
                                         corrId |-> c, content |-> content])
  BY DEF Call
<1> DEFINE m == [method |-> method, from |-> w, corrId |-> c, content |-> content]
<1>2. m \in Request
  BY DEF Request
<1>3. /\ Len(rpcQueue') = Len(rpcQueue) + 1 /\ Len(rpcQueue) \in Nat
      /\ \A i \in 1 .. Len(rpcQueue) : rpcQueue'[i] = rpcQueue[i]
      /\ rpcQueue'[Len(rpcQueue) + 1] = m
  BY <1>1, <1>2, QueueLengths, AppendProperties
<1>4. \A i \in Nat : ~AsksAt(w, c, i) /\ ~AnswersAt(w, c, i)
  <2>1. DOMAIN rpcQueue = 1 .. Len(rpcQueue) /\ DOMAIN replyQueue[w] = 1 .. Len(replyQueue[w])
    BY QueueLengths, LenProperties
  <2>2. QED
    BY <1>1, <2>1 DEF IdsInUse, AsksAt, AnswersAt
<1>5. ASSUME NEW v \in Workers, NEW d \in CorrIds, NEW i \in Nat
      PROVE  AsksAt(v, d, i)' <=> AsksAt(v, d, i) \/ (v = w /\ d = c /\ i = Len(rpcQueue) + 1)
  <2>1. i \in 1 .. Len(rpcQueue') <=> i \in 1 .. Len(rpcQueue) \/ i = Len(rpcQueue) + 1
    BY <1>3
  <2>2. m.from = w /\ m.corrId = c /\ Len(rpcQueue) + 1 \notin 1 .. Len(rpcQueue)
    BY <1>3
  <2>3. QED
    BY <1>3, <2>1, <2>2 DEF AsksAt
<1>6. rpcQueue'[Len(rpcQueue) + 1].method = method /\ rpcQueue'[Len(rpcQueue) + 1].content = content
  BY <1>3
<1>7. NewRequest(w, c, method, content)
  BY <1>1, <1>3, <1>4, <1>5, <1>6 DEF NewRequest
<1>8. QED
  BY <1>7

\* An acknowledgement takes the first request off.
LEMMA AckAsks ==
  ASSUME TypeInv, Ack
  PROVE  /\ \A v \in Workers, d \in CorrIds, i \in Nat :
              AsksAt(v, d, i)' <=> i # 0 /\ AsksAt(v, d, i + 1)
         /\ Len(rpcQueue') = Len(rpcQueue) - 1
         /\ \A i \in 1 .. Len(rpcQueue') : rpcQueue'[i] = rpcQueue[i + 1]
<1>1. rpcQueue \in Seq(Request) /\ rpcQueue # <<>> /\ rpcQueue' = Tail(rpcQueue)
  BY DEF TypeInv, TypeOK, ServerHolds, Ack
<1>2. /\ Len(rpcQueue') = Len(rpcQueue) - 1
      /\ Len(rpcQueue) \in Nat
      /\ \A j \in 1 .. Len(rpcQueue') : rpcQueue'[j] = rpcQueue[j + 1]
  BY <1>1, HeadTailProperties, LenProperties
<1>3. \A i \in Nat : i \in 1 .. Len(rpcQueue') <=> i # 0 /\ i + 1 \in 1 .. Len(rpcQueue)
  BY <1>2
<1>4. QED
  BY <1>2, <1>3 DEF AsksAt

\* A call that returns, or drops a reply, takes the first one off.
LEMMA TakenAnswers ==
  ASSUME TypeOK, NEW w \in Workers, replyQueue[w] # <<>>,
         replyQueue' = [replyQueue EXCEPT ![w] = Tail(@)]
  PROVE  /\ \A d \in CorrIds, i \in Nat : AnswersAt(w, d, i)' <=> i # 0 /\ AnswersAt(w, d, i + 1)
         /\ Len(replyQueue'[w]) = Len(replyQueue[w]) - 1
         /\ \A i \in 1 .. Len(replyQueue'[w]) : replyQueue'[w][i] = replyQueue[w][i + 1]
         /\ \A v \in Workers : v # w => replyQueue'[v] = replyQueue[v]
<1>1. /\ replyQueue[w] \in Seq(Reply) /\ replyQueue'[w] = Tail(replyQueue[w])
      /\ \A v \in Workers : v # w => replyQueue'[v] = replyQueue[v]
  BY DEF TypeOK
<1>2. /\ Len(replyQueue'[w]) = Len(replyQueue[w]) - 1
      /\ Len(replyQueue[w]) \in Nat
      /\ \A j \in 1 .. Len(replyQueue'[w]) : replyQueue'[w][j] = replyQueue[w][j + 1]
  <2> DEFINE q == replyQueue[w]
  <2>1. q \in Seq(Reply) /\ q # <<>>
    BY <1>1
  <2> HIDE DEF q
  <2>2. /\ Len(Tail(q)) = Len(q) - 1 /\ Len(q) \in Nat
        /\ \A j \in 1 .. Len(Tail(q)) : Tail(q)[j] = q[j + 1]
    BY <2>1, HeadTailProperties, LenProperties
  <2>3. QED
    BY <1>1, <2>2 DEF q
<1>3. \A i \in Nat : i \in 1 .. Len(replyQueue'[w]) <=> i # 0 /\ i + 1 \in 1 .. Len(replyQueue[w])
  BY <1>2
<1>4. QED
  BY <1>1, <1>2, <1>3 DEF AnswersAt

\* A reply is published behind the others of its caller, if that one lives.
LEMMA PublishAnswers ==
  ASSUME TypeInv, Publish, NEW w \in Workers
  PROVE  LET call == Head(rpcQueue) IN
           /\ call \in Request /\ AsksAt(call.from, call.corrId, 1)
           /\ w # call.from \/ workerPc[w] = "dead" => replyQueue'[w] = replyQueue[w]
           /\ w = call.from /\ workerPc[w] # "dead" =>
                /\ \A d \in CorrIds, i \in Nat :
                     AnswersAt(w, d, i)' <=>
                       AnswersAt(w, d, i) \/ (d = call.corrId /\ i = Len(replyQueue[w]) + 1)
                /\ Len(replyQueue'[w]) = Len(replyQueue[w]) + 1
                /\ \A i \in 1 .. Len(replyQueue[w]) : replyQueue'[w][i] = replyQueue[w][i]
                /\ replyQueue'[w][Len(replyQueue[w]) + 1].body = reply
<1> DEFINE call == Head(rpcQueue)
           r == [corrId |-> call.corrId, body |-> reply]
<1>1. TypeOK /\ rpcQueue # <<>> /\ reply # Nothing
  BY DEF TypeInv, ServerHolds, Publish
<1>2. call \in Request /\ AsksAt(call.from, call.corrId, 1)
  BY <1>1, QueueLengths DEF AsksAt
<1>3. r \in Reply
  BY <1>1, <1>2 DEF TypeOK, Request, Reply
<1>4. w # call.from \/ workerPc[w] = "dead" => replyQueue'[w] = replyQueue[w]
  BY <1>1 DEF Publish, TypeOK
<1>5. ASSUME w = call.from, workerPc[w] # "dead"
      PROVE  /\ \A d \in CorrIds, i \in Nat :
                  AnswersAt(w, d, i)' <=>
                    AnswersAt(w, d, i) \/ (d = call.corrId /\ i = Len(replyQueue[w]) + 1)
             /\ Len(replyQueue'[w]) = Len(replyQueue[w]) + 1
             /\ \A i \in 1 .. Len(replyQueue[w]) : replyQueue'[w][i] = replyQueue[w][i]
             /\ replyQueue'[w][Len(replyQueue[w]) + 1].body = reply
  <2>1. replyQueue'[w] = Append(replyQueue[w], r)
    BY <1>1, <1>5 DEF Publish, TypeOK
  <2>2. /\ Len(replyQueue'[w]) = Len(replyQueue[w]) + 1 /\ Len(replyQueue[w]) \in Nat
        /\ \A i \in 1 .. Len(replyQueue[w]) : replyQueue'[w][i] = replyQueue[w][i]
        /\ replyQueue'[w][Len(replyQueue[w]) + 1] = r
    BY <1>1, <1>3, <2>1, QueueLengths, AppendProperties
  <2>3. \A i \in Nat : i \in 1 .. Len(replyQueue'[w]) <=>
                         i \in 1 .. Len(replyQueue[w]) \/ i = Len(replyQueue[w]) + 1
    BY <2>2
  <2>4. /\ r.corrId = call.corrId /\ r.body = reply
        /\ Len(replyQueue[w]) + 1 \notin 1 .. Len(replyQueue[w])
    BY <2>2
  <2>5. QED
    BY <2>2, <2>3, <2>4 DEF AnswersAt
<1>6. QED
  BY <1>2, <1>4, <1>5
-------------------------------------------------------------------------------
(* Each step preserves the invariant of each live worker's calls. *)

\* A step that w does not see in its calls: the same requests and replies, and the same
\* call awaited, or none before and after.
LEMMA SameCalls ==
  ASSUME NEW w \in Workers, CallInv(w),
         \A c \in CorrIds, i \in Nat : /\ AsksAt(w, c, i)' <=> AsksAt(w, c, i)
                                       /\ AsksAt(w, c, i) => rpcQueue'[i] = rpcQueue[i],
         replyQueue'[w] = replyQueue[w],
         Awaiting(w) \/ Awaiting(w)' => workerPc'[w] = workerPc[w] /\ corrId'[w] = corrId[w],
         serverPc' = "acking" /\ AsksAt(w, corrId[w], 1) => serverPc = "acking"
  PROVE  CallInv(w)'
<1>1. /\ Awaiting(w)' <=> Awaiting(w)
      /\ \A c \in CorrIds : Current(w, c)' <=> Current(w, c)
      /\ \A c \in CorrIds, i \in Nat : AnswersAt(w, c, i)' <=> AnswersAt(w, c, i)
  BY DEF Awaiting, Current, AnswersAt
<1>2. OldFirst(w)' /\ AnsweredLast(w)' /\ OneOld(w)'
  BY <1>1 DEF CallInv, OldFirst, AnsweredLast, OneOld, Old
<1>3. Kinds(w)'
  BY <1>1 DEF CallInv, Kinds, Current, Asked, Fits
<1>4. Kept(w)'
  BY <1>1 DEF CallInv, Kept
<1>5. QED
  BY <1>2, <1>3, <1>4 DEF CallInv

\* The next delivery moves up to the head.
LEMMA AckCalls ==
  ASSUME TypeInv, UniqueIds, NEW w \in Workers, CallInv(w), Ack
  PROVE  CallInv(w)'
<1>1. /\ \A c \in CorrIds, i \in Nat : AsksAt(w, c, i)' <=> i # 0 /\ AsksAt(w, c, i + 1)
      /\ \A c \in CorrIds, i \in Nat : AnswersAt(w, c, i)' <=> AnswersAt(w, c, i)
      /\ \A c \in CorrIds : Current(w, c)' <=> Current(w, c)
      /\ Awaiting(w)' <=> Awaiting(w)
      /\ UNCHANGED <<replyQueue, corrId, workerPc>>
      /\ serverPc = "acking" /\ serverPc' = "waiting"
  BY AckAsks DEF Ack, worker, AnswersAt, Current, Awaiting
<1>2. \A i \in Nat : i + 1 \in Nat /\ (i # 0 => i + 1 # 1)
  OBVIOUS
<1>3. OldFirst(w)'
  BY <1>1, <1>2 DEF CallInv, OldFirst
<1>4. AnsweredLast(w)'
  BY <1>1, <1>2 DEF CallInv, AnsweredLast
<1>5. OneOld(w)'
  BY <1>1, <1>2 DEF CallInv, OneOld, Old
<1>6. Kinds(w)'
  <2> SUFFICES ASSUME NEW c \in CorrIds, NEW i \in Nat, Current(w, c)'
               PROVE  /\ AsksAt(w, c, i)' => rpcQueue'[i].method = Asked(w)'
                      /\ AnswersAt(w, c, i)' => Fits(replyQueue[w][i].body, Asked(w))'
    BY <1>1 DEF Kinds
  <2>1. AsksAt(w, c, i)' => rpcQueue'[i] = rpcQueue[i + 1]
    BY AckAsks DEF AsksAt
  <2>2. Asked(w)' = Asked(w)
    BY <1>1 DEF Asked
  <2>3. QED
    BY <1>1, <1>2, <2>1, <2>2 DEF CallInv, Kinds, Fits
<1>7. Kept(w)'
  <2> SUFFICES ASSUME Awaiting(w)
               PROVE  \E i \in Nat : AsksAt(w, corrId[w], i)' \/ AnswersAt(w, corrId[w], i)'
    BY <1>1 DEF Kept, CallInv
  <2>1. corrId[w] \in CorrIds
    BY DEF CallInv, Kept
  <2>2. CASE \E i \in Nat : AnswersAt(w, corrId[w], i)
    BY <1>1, <2>1, <2>2
  <2>3. CASE \A i \in Nat : ~AnswersAt(w, corrId[w], i)
    <3>1. PICK i \in Nat : AsksAt(w, corrId[w], i)
      BY <2>3 DEF CallInv, Kept
    <3>2. i # 1 /\ i # 0
      BY <1>1, <2>3, <3>1 DEF CallInv, Kept, AsksAt
    <3>3. i - 1 \in Nat /\ i - 1 # 0 /\ (i - 1) + 1 = i
      BY <3>2
    <3>4. AsksAt(w, corrId[w], i - 1)'
      BY <1>1, <2>1, <3>1, <3>3
    <3>5. QED
      BY <3>3, <3>4
  <2>4. QED
    BY <2>2, <2>3
<1>8. QED
  BY <1>3, <1>4, <1>5, <1>6, <1>7 DEF CallInv

\* A reply is published while its request is at the head of the queue.
LEMMA PublishCalls ==
  ASSUME TypeInv, ServerKinds, UniqueIds, Publish,
         NEW w \in Workers, workerPc[w] # "dead", CallInv(w)
  PROVE  CallInv(w)'
<1> DEFINE call == Head(rpcQueue)
<1>1. /\ UNCHANGED <<rpcQueue, workerPc, corrId>> /\ serverPc = "replying" /\ serverPc' = "acking"
      /\ Awaiting(w)' <=> Awaiting(w)
      /\ Asked(w)' = Asked(w)
      /\ \A c \in CorrIds : Current(w, c)' <=> Current(w, c)
      /\ \A c \in CorrIds, i \in Nat : AsksAt(w, c, i)' <=> AsksAt(w, c, i)
  BY DEF Publish, worker, Awaiting, Asked, Current, AsksAt
<1>2. /\ call \in Request /\ call.from \in Workers /\ call.corrId \in CorrIds
      /\ AsksAt(call.from, call.corrId, 1) /\ call = rpcQueue[1]
  BY PublishAnswers, QueueLengths DEF TypeInv, ServerHolds, Publish, Request
<1>3. CASE w # call.from
  <2>1. replyQueue'[w] = replyQueue[w] /\ ~AsksAt(w, corrId[w], 1)
    BY <1>2, <1>3, PublishAnswers DEF AsksAt
  <2>2. QED
    BY <1>1, <2>1, SameCalls
<1>4. CASE w = call.from
  <2> DEFINE c0 == call.corrId
             n == Len(replyQueue[w]) + 1
  <2>1. /\ c0 \in CorrIds /\ AsksAt(w, c0, 1) /\ n \in Nat
        /\ \A c \in CorrIds : AsksAt(w, c, 1) => c = c0
        /\ \A c \in CorrIds, i \in Nat : AnswersAt(w, c, i) => i < n
        /\ \A c \in CorrIds, i \in Nat :
             AnswersAt(w, c, i)' <=> AnswersAt(w, c, i) \/ (c = c0 /\ i = n)
        /\ \A i \in 1 .. Len(replyQueue[w]) : replyQueue'[w][i] = replyQueue[w][i]
        /\ replyQueue'[w][n].body = reply
    <3>1. n \in Nat /\ \A c \in CorrIds, i \in Nat : AnswersAt(w, c, i) => i < n
      BY QueueLengths DEF TypeInv, AnswersAt
    <3>2. \A c \in CorrIds : AsksAt(w, c, 1) => c = c0
      BY <1>2 DEF AsksAt
    <3>3. QED
      BY <1>2, <1>4, <3>1, <3>2, PublishAnswers
  <2> HIDE DEF c0, n
  <2>2. OldFirst(w)'
    BY <1>1 DEF CallInv, OldFirst
  <2>3. AnsweredLast(w)'
    <3> SUFFICES ASSUME NEW c \in CorrIds, NEW i \in Nat, AnswersAt(w, c, i)', Current(w, c)
                 PROVE  /\ \A d \in CorrIds, j \in Nat : AsksAt(w, d, j) => d = c /\ j = 1
                        /\ \A d \in CorrIds, j \in Nat : AnswersAt(w, d, j)' /\ j >= i => d = c
      BY <1>1 DEF AnsweredLast
    <3>1. CASE AnswersAt(w, c, i)
      BY <2>1, <3>1 DEF CallInv, AnsweredLast
    <3>2. CASE c = c0 /\ i = n
      <4>1. \A d \in CorrIds, j \in Nat : AsksAt(w, d, j) => d = c
        BY <2>1, <3>2 DEF CallInv, OldFirst, Current
      <4>2. \A j \in Nat : AsksAt(w, c, j) => j = 1
        BY <2>1, <3>2 DEF UniqueIds
      <4>3. \A d \in CorrIds, j \in Nat : AnswersAt(w, d, j)' /\ j >= i => d = c
        BY <2>1, <3>2
      <4>4. QED
        BY <4>1, <4>2, <4>3
    <3>3. QED
      BY <2>1, <3>1, <3>2
  <2>4. OneOld(w)'
    <3>1. \A c \in CorrIds : Old(w, c)' => Old(w, c)
      BY <1>1, <2>1 DEF Old
    <3>2. QED
      BY <3>1 DEF CallInv, OneOld
  <2>5. Kinds(w)'
    <3> SUFFICES ASSUME NEW c \in CorrIds, NEW i \in Nat, Current(w, c)
                 PROVE  /\ AsksAt(w, c, i) => rpcQueue[i].method = Asked(w)
                        /\ AnswersAt(w, c, i)' => Fits(replyQueue'[w][i].body, Asked(w))
      BY <1>1 DEF Kinds, Fits
    <3>1. AsksAt(w, c, i) => rpcQueue[i].method = Asked(w)
      BY DEF CallInv, Kinds
    <3>2. AnswersAt(w, c, i) => Fits(replyQueue'[w][i].body, Asked(w))
      BY <2>1 DEF CallInv, Kinds, AnswersAt
    <3>3. c = c0 /\ i = n => Fits(replyQueue'[w][i].body, Asked(w))
      <4>1. c = c0 => rpcQueue[1].method = Asked(w)
        BY <2>1 DEF CallInv, Kinds
      <4>2. Fits(reply, rpcQueue[1].method)
        BY <1>1, <1>2 DEF ServerKinds
      <4>3. QED
        BY <2>1, <4>1, <4>2
    <3>4. QED
      BY <2>1, <3>1, <3>2, <3>3
  <2>6. Kept(w)'
    BY <1>1, <2>1 DEF CallInv, Kept
  <2>7. QED
    BY <2>2, <2>3, <2>4, <2>5, <2>6 DEF CallInv
<1>5. QED
  BY <1>3, <1>4

\* A new call: what was about before belongs to earlier ones.
LEMMA NewCalls ==
  ASSUME TypeInv, NEW w \in Workers, CallInv(w), ~Awaiting(w),
         NEW method \in {"gettask", "rettask"},
         NEW content \in Tasks \cup {NOTASK, Undecodable, Nothing},
         Call(w, method, content),
         workerPc' = [workerPc EXCEPT ![w] =
                        IF method = "gettask" THEN "awaitTask" ELSE "awaitReturn"],
         UNCHANGED <<serverPc, replyQueue>>
  PROVE  CallInv(w)'
<1>1. PICK c \in CorrIds :
        /\ corrId' = [corrId EXCEPT ![w] = c]
        /\ \A i \in Nat : ~AsksAt(w, c, i) /\ ~AnswersAt(w, c, i)
        /\ \A v \in Workers, d \in CorrIds, i \in Nat :
             AsksAt(v, d, i)' <=> AsksAt(v, d, i) \/ (v = w /\ d = c /\ i = Len(rpcQueue) + 1)
        /\ rpcQueue'[Len(rpcQueue) + 1].method = method
  BY CallAsks DEF TypeInv, NewRequest
<1>2. /\ corrId'[w] = c
      /\ workerPc'[w] = IF method = "gettask" THEN "awaitTask" ELSE "awaitReturn"
  BY <1>1 DEF TypeInv, TypeOK
<1>3. /\ Awaiting(w)' /\ Asked(w)' = method
      /\ \A d \in CorrIds : Current(w, d)' <=> d = c
      /\ \A d \in CorrIds : ~Current(w, d)
      /\ \A d \in CorrIds, i \in Nat : AnswersAt(w, d, i)' <=> AnswersAt(w, d, i)
  BY <1>2 DEF Awaiting, Asked, Current, AnswersAt
<1>4. OldFirst(w)'
  BY <1>1, <1>3 DEF CallInv, OldFirst
<1>5. AnsweredLast(w)'
  BY <1>1, <1>3 DEF AnsweredLast
<1>6. OneOld(w)'
  BY <1>1, <1>3 DEF CallInv, OneOld, Old
<1>7. Kinds(w)'
  <2> SUFFICES ASSUME NEW i \in Nat
               PROVE  /\ AsksAt(w, c, i)' => rpcQueue'[i].method = method
                      /\ ~AnswersAt(w, c, i)'
    BY <1>3 DEF Kinds
  <2>1. QED
    BY <1>1, <1>3
<1>8. Kept(w)'
  <2>1. PICK n \in Nat : n = Len(rpcQueue) + 1
    BY QueueLengths DEF TypeInv
  <2>2. AsksAt(w, c, n)'
    BY <1>1, <2>1
  <2>3. serverPc' = "acking" => ~AsksAt(w, c, 1)'
    <3>1. serverPc' = "acking" => Len(rpcQueue) + 1 # 1
      BY QueueLengths DEF TypeInv, ServerHolds
    <3>2. QED
      BY <1>1, <3>1
  <2>4. QED
    BY <1>2, <1>3, <2>1, <2>2, <2>3 DEF Kept
<1>9. QED
  BY <1>4, <1>5, <1>6, <1>7, <1>8 DEF CallInv

\* A call that returns leaves nothing about but more answers to it, and its request at
\* the head of the queue if that was not acknowledged.
LEMMA ReturnedCalls ==
  ASSUME TypeInv, NEW w \in Workers, CallInv(w), Awaiting(w), CallReturns(w),
         ~Awaiting(w)', UNCHANGED rpcQueue
  PROVE  CallInv(w)'
<1> DEFINE c == corrId[w]
<1>1. c \in CorrIds /\ AnswersAt(w, c, 1) /\ Current(w, c)
  BY QueueLengths DEF TypeInv, CallInv, Kept, CallReturns, AnswersAt, Current
<1>2. /\ \A d \in CorrIds, j \in Nat : AsksAt(w, d, j) => d = c /\ j = 1
      /\ \A d \in CorrIds, j \in Nat : AnswersAt(w, d, j) => d = c
  <2>1. \A d \in CorrIds, j \in Nat : AnswersAt(w, d, j) => j >= 1
    BY QueueLengths DEF TypeInv, AnswersAt
  <2>2. QED
    BY <1>1, <2>1 DEF CallInv, AnsweredLast
<1>3. /\ \A d \in CorrIds, i \in Nat : AsksAt(w, d, i)' <=> AsksAt(w, d, i)
      /\ \A d \in CorrIds, i \in Nat : AnswersAt(w, d, i)' <=> i # 0 /\ AnswersAt(w, d, i + 1)
      /\ \A d \in CorrIds : ~Current(w, d)'
  BY TakenAnswers DEF CallReturns, TypeInv, AsksAt, Current
<1> HIDE DEF c
<1>4. OldFirst(w)' /\ AnsweredLast(w)' /\ Kinds(w)' /\ Kept(w)'
  BY <1>2, <1>3 DEF OldFirst, AnsweredLast, Kinds, Kept
<1>5. OneOld(w)'
  <2>1. \A d \in CorrIds : Old(w, d)' => d = c
    <3>1. \A i \in Nat : i + 1 \in Nat
      OBVIOUS
    <3>2. QED
      BY <1>2, <1>3, <3>1 DEF Old
  <2>2. QED
    BY <2>1 DEF OneOld
<1>6. QED
  BY <1>4, <1>5 DEF CallInv

\* A reply to an earlier call is dropped.
LEMMA DiscardedCalls ==
  ASSUME TypeInv, NEW w \in Workers, CallInv(w), DiscardReply(w)
  PROVE  CallInv(w)'
<1>1. /\ \A c \in CorrIds, i \in Nat : AnswersAt(w, c, i)' <=> i # 0 /\ AnswersAt(w, c, i + 1)
      /\ Len(replyQueue'[w]) = Len(replyQueue[w]) - 1
      /\ \A i \in 1 .. Len(replyQueue'[w]) : replyQueue'[w][i] = replyQueue[w][i + 1]
      /\ \A c \in CorrIds, i \in Nat : AsksAt(w, c, i)' <=> AsksAt(w, c, i)
      /\ \A c \in CorrIds : Current(w, c)' <=> Current(w, c)
      /\ Awaiting(w)' <=> Awaiting(w)
      /\ Asked(w)' = Asked(w)
      /\ UNCHANGED <<rpcQueue, corrId, workerPc, serverPc>>
  BY TakenAnswers
  DEF DiscardReply, TypeInv, server, worker, AsksAt, Current, Awaiting, Asked
<1>2. ~AnswersAt(w, corrId[w], 1) /\ ~AnswersAt(w, corrId[w], 0)
  BY QueueLengths DEF TypeInv, DiscardReply, AnswersAt
<1>3. \A i \in Nat : i + 1 \in Nat
  OBVIOUS
<1>4. OldFirst(w)'
  BY <1>1 DEF CallInv, OldFirst
<1>5. AnsweredLast(w)'
  <2> SUFFICES ASSUME NEW c \in CorrIds, NEW i \in Nat, AnswersAt(w, c, i + 1), Current(w, c)
               PROVE  /\ \A d \in CorrIds, j \in Nat : AsksAt(w, d, j) => d = c /\ j = 1
                      /\ \A d \in CorrIds, j \in Nat : AnswersAt(w, d, j + 1) /\ j >= i => d = c
    BY <1>1 DEF AnsweredLast
  <2>1. \A j \in Nat : j >= i => j + 1 >= i + 1
    OBVIOUS
  <2>2. QED
    BY <1>3, <2>1 DEF CallInv, AnsweredLast
<1>6. OneOld(w)'
  BY <1>1, <1>3 DEF CallInv, OneOld, Old
<1>7. Kinds(w)'
  <2> SUFFICES ASSUME NEW c \in CorrIds, NEW i \in Nat, Current(w, c)
               PROVE  /\ AsksAt(w, c, i) => rpcQueue[i].method = Asked(w)
                      /\ AnswersAt(w, c, i)' => Fits(replyQueue'[w][i].body, Asked(w))
    BY <1>1 DEF Kinds, Fits
  <2>1. AnswersAt(w, c, i)' => AnswersAt(w, c, i + 1) /\ replyQueue'[w][i] = replyQueue[w][i + 1]
    BY <1>1 DEF AnswersAt
  <2>2. QED
    BY <1>3, <2>1 DEF CallInv, Kinds
<1>8. Kept(w)'
  <2> SUFFICES ASSUME Awaiting(w)
               PROVE  /\ corrId[w] \in CorrIds
                      /\ \E i \in Nat : AsksAt(w, corrId[w], i) \/ AnswersAt(w, corrId[w], i)'
                      /\ AsksAt(w, corrId[w], 1) /\ serverPc = "acking" =>
                           \E i \in Nat : AnswersAt(w, corrId[w], i)'
    BY <1>1 DEF Kept
  <2>1. corrId[w] \in CorrIds
    BY DEF CallInv, Kept
  <2>2. ASSUME NEW i \in Nat, AnswersAt(w, corrId[w], i)
        PROVE  \E j \in Nat : AnswersAt(w, corrId[w], j)'
    <3>1. i # 0 /\ i # 1
      BY <1>2, <2>2
    <3>2. i - 1 \in Nat /\ i - 1 # 0 /\ (i - 1) + 1 = i
      BY <3>1
    <3>3. AnswersAt(w, corrId[w], i - 1)'
      BY <1>1, <2>1, <2>2, <3>2
    <3>4. QED
      BY <3>2, <3>3
  <2>3. QED
    BY <2>1, <2>2 DEF CallInv, Kept
<1>9. QED
  BY <1>4, <1>5, <1>6, <1>7, <1>8 DEF CallInv

-------------------------------------------------------------------------------
(* Each step preserves the invariant. *)

\* Steps of w that make no call and end none.
Works(w) == \/ executeTask(w) \/ ExecutorReturnsNothing(w)
            \/ WorkerError(w) \/ CallBeforeQueueExists(w)

\* Steps of the server that neither publish nor acknowledge, and the servlet's.
Handles == \/ init \/ SendNoTask \/ AcceptNoTask \/ RejectReturn \/ Stop \/ HandlerError
           \/ \E t \in Tasks : insertTask(t) \/ SendTask(t) \/ CompleteTask(t)

LEMMA NextIsOneOf ==
  ASSUME Next
  PROVE  \/ Handles \/ Publish \/ Ack
         \/ \E w \in Workers : \/ getTask(w) \/ sendCompleteTask(w) \/ DiscardReply(w)
                               \/ TaskArrives(w) \/ ReturnAnswered(w) \/ Works(w) \/ Crash(w)
BY DEF Next, ServerStep, WorkerStep, WorkerFault, Handles, Works

LEMMA HandlesQuietly ==
  ASSUME Handles \/ UNCHANGED vars
  PROVE  UNCHANGED <<rpcQueue, replyQueue, worker>> /\ (serverPc' = "acking" => serverPc = "acking")
BY DEF Handles, vars, server, init, SendNoTask, AcceptNoTask, RejectReturn, Stop, HandlerError,
       insertTask, SendTask, CompleteTask, Respond

\* A step of one worker, seen from another: only requests of the first are added.
LEMMA OthersStep ==
  ASSUME TypeInv, NEW v \in Workers, NEW w \in Workers, v # w,
         \/ getTask(v) \/ sendCompleteTask(v) \/ DiscardReply(v)
         \/ TaskArrives(v) \/ ReturnAnswered(v) \/ Works(v) \/ Crash(v)
  PROVE  /\ \A c \in CorrIds, i \in Nat : /\ AsksAt(w, c, i)' <=> AsksAt(w, c, i)
                                          /\ AsksAt(w, c, i) => rpcQueue'[i] = rpcQueue[i]
         /\ replyQueue'[w] = replyQueue[w] /\ workerPc'[w] = workerPc[w] /\ corrId'[w] = corrId[w]
         /\ UNCHANGED serverPc
<1>1. /\ replyQueue'[w] = replyQueue[w] /\ workerPc'[w] = workerPc[w] /\ corrId'[w] = corrId[w]
      /\ UNCHANGED serverPc
  <2>1. CASE getTask(v) \/ sendCompleteTask(v)
    BY <2>1 DEF TypeInv, TypeOK, getTask, sendCompleteTask, Call, server
  <2>2. CASE DiscardReply(v) \/ TaskArrives(v) \/ ReturnAnswered(v)
    BY <2>2 DEF TypeInv, TypeOK, DiscardReply, TaskArrives, ReturnAnswered, CallReturns, server,
                worker
  <2>3. CASE Works(v) \/ Crash(v)
    BY <2>3 DEF TypeInv, TypeOK, Works, executeTask, ExecutorReturnsNothing, WorkerError,
                CallBeforeQueueExists, Crash, server
  <2>4. QED
    BY <2>1, <2>2, <2>3
<1>2. CASE UNCHANGED rpcQueue
  BY <1>1, <1>2 DEF AsksAt
<1>3. CASE getTask(v) \/ sendCompleteTask(v)
  <2>1. PICK method \in {"gettask", "rettask"},
             content \in Tasks \cup {NOTASK, Undecodable, Nothing} : Call(v, method, content)
    BY <1>3 DEF getTask, sendCompleteTask, TypeInv, WorkerHolds
  <2>2. PICK c \in CorrIds :
          /\ \A u \in Workers, d \in CorrIds, i \in Nat :
               AsksAt(u, d, i)' <=> AsksAt(u, d, i) \/ (u = v /\ d = c /\ i = Len(rpcQueue) + 1)
          /\ \A i \in 1 .. Len(rpcQueue) : rpcQueue'[i] = rpcQueue[i]
    BY <2>1, CallAsks DEF TypeInv, NewRequest
  <2>3. \A d \in CorrIds, i \in Nat : /\ AsksAt(w, d, i)' <=> AsksAt(w, d, i)
                                      /\ AsksAt(w, d, i) => rpcQueue'[i] = rpcQueue[i]
    <3>1. \A d \in CorrIds, i \in Nat : AsksAt(w, d, i)' <=> AsksAt(w, d, i)
      BY <2>2
    <3>2. \A d \in CorrIds, i \in Nat : AsksAt(w, d, i) => rpcQueue'[i] = rpcQueue[i]
      BY <2>2 DEF AsksAt
    <3>3. QED
      BY <3>1, <3>2
  <2>4. QED
    BY <1>1, <2>3
<1>4. QED
  BY <1>2, <1>3
  DEF DiscardReply, TaskArrives, ReturnAnswered, Works, executeTask, ExecutorReturnsNothing,
      WorkerError, CallBeforeQueueExists, Crash

LEMMA CallInvStep ==
  ASSUME CallsInv, [Next]_vars, NEW w \in Workers, workerPc'[w] # "dead"
  PROVE  CallInv(w)'
<1>1. /\ TypeInv /\ RequestKinds /\ ServerKinds /\ UniqueIds
      /\ workerPc[w] # "dead" => CallInv(w)
  BY DEF CallsInv
<1>2. CASE Handles \/ UNCHANGED vars
  <2>1. UNCHANGED <<rpcQueue, replyQueue, worker>> /\ (serverPc' = "acking" => serverPc = "acking")
    BY <1>2, HandlesQuietly
  <2>2. CallInv(w) /\ \A c \in CorrIds, i \in Nat : AsksAt(w, c, i)' <=> AsksAt(w, c, i)
    BY <1>1, <2>1 DEF AsksAt, worker
  <2>3. QED
    BY <2>1, <2>2, SameCalls DEF worker
<1>3. CASE Publish \/ Ack
  <2>1. CallInv(w) /\ workerPc[w] # "dead"
    BY <1>1, <1>3 DEF Publish, Ack, worker
  <2>2. QED
    BY <1>1, <1>3, <2>1, PublishCalls, AckCalls
<1>4. ASSUME NEW v \in Workers, v # w,
             \/ getTask(v) \/ sendCompleteTask(v) \/ DiscardReply(v)
             \/ TaskArrives(v) \/ ReturnAnswered(v) \/ Works(v) \/ Crash(v)
      PROVE  CallInv(w)'
  <2>1. CallInv(w)
    BY <1>1, <1>4, OthersStep
  <2>2. QED
    BY <1>1, <1>4, <2>1, OthersStep, SameCalls
<1>5. CASE getTask(w)
  <2>1. CallInv(w) /\ ~Awaiting(w)
    BY <1>1, <1>5 DEF getTask, Awaiting
  <2>2. QED
    BY <1>1, <1>5, <2>1, NewCalls DEF getTask, server
<1>6. CASE sendCompleteTask(w)
  <2>1. CallInv(w) /\ ~Awaiting(w) /\ inHand[w] \in Tasks \cup {NOTASK, Undecodable, Nothing}
    BY <1>1, <1>6 DEF sendCompleteTask, Awaiting, TypeInv, TypeOK
  <2>2. QED
    BY <1>1, <1>6, <2>1, NewCalls DEF sendCompleteTask, server
<1>7. CASE DiscardReply(w)
  <2>1. CallInv(w)
    BY <1>1, <1>7 DEF DiscardReply, Awaiting
  <2>2. QED
    BY <1>1, <1>7, <2>1, DiscardedCalls
<1>8. CASE TaskArrives(w) \/ ReturnAnswered(w)
  <2>1. CallInv(w) /\ Awaiting(w) /\ CallReturns(w) /\ UNCHANGED rpcQueue
    BY <1>1, <1>8 DEF TaskArrives, ReturnAnswered, Awaiting
  <2>2. ~Awaiting(w)'
    BY <1>1, <1>8 DEF TaskArrives, ReturnAnswered, Awaiting, TypeInv, TypeOK
  <2>3. QED
    BY <1>1, <2>1, <2>2, ReturnedCalls
<1>9. CASE Works(w)
  <2>1. CallInv(w) /\ ~Awaiting(w) /\ ~Awaiting(w)'
    BY <1>1, <1>9 DEF Works, executeTask, ExecutorReturnsNothing, WorkerError,
                      CallBeforeQueueExists, Awaiting, TypeInv, TypeOK
  <2>2. UNCHANGED <<rpcQueue, replyQueue, serverPc>>
    BY <1>9 DEF Works, executeTask, ExecutorReturnsNothing, WorkerError, CallBeforeQueueExists,
                server
  <2>3. \A c \in CorrIds, i \in Nat : AsksAt(w, c, i)' <=> AsksAt(w, c, i)
    BY <2>2 DEF AsksAt
  <2>4. QED
    BY <2>1, <2>2, <2>3, SameCalls
<1>10. CASE Crash(w)
  BY <1>1, <1>10 DEF Crash, TypeInv, TypeOK
<1>11. QED
  BY <1>2, <1>3, <1>4, <1>5, <1>6, <1>7, <1>8, <1>9, <1>10, NextIsOneOf

\* A call is one request: its id is new, and the request is there until it is acknowledged.
LEMMA UniqueIdsStep ==
  ASSUME CallsInv, [Next]_vars
  PROVE  UniqueIds'
<1>1. TypeInv /\ UniqueIds
  BY DEF CallsInv
<1>2. CASE UNCHANGED rpcQueue
  BY <1>1, <1>2 DEF UniqueIds, AsksAt
<1>3. CASE Ack
  <2>1. \A v \in Workers, d \in CorrIds, i \in Nat :
          AsksAt(v, d, i)' <=> i # 0 /\ AsksAt(v, d, i + 1)
    BY <1>1, <1>3, AckAsks
  <2>2. \A i, j \in Nat : i + 1 = j + 1 => i = j
    OBVIOUS
  <2>3. \A i \in Nat : i + 1 \in Nat
    OBVIOUS
  <2>4. QED
    BY <1>1, <2>1, <2>2, <2>3 DEF UniqueIds
<1>4. ASSUME NEW w \in Workers, getTask(w) \/ sendCompleteTask(w)
      PROVE  UniqueIds'
  <2>1. PICK method \in {"gettask", "rettask"},
             content \in Tasks \cup {NOTASK, Undecodable, Nothing} : Call(w, method, content)
    BY <1>1, <1>4 DEF getTask, sendCompleteTask, TypeInv, WorkerHolds
  <2>2. PICK c \in CorrIds :
          /\ \A i \in Nat : ~AsksAt(w, c, i)
          /\ \A v \in Workers, d \in CorrIds, i \in Nat :
               AsksAt(v, d, i)' <=> AsksAt(v, d, i) \/ (v = w /\ d = c /\ i = Len(rpcQueue) + 1)
    BY <1>1, <2>1, CallAsks DEF TypeInv, NewRequest
  <2>3. ASSUME NEW v \in Workers, NEW d \in CorrIds, NEW i \in Nat, NEW j \in Nat,
               AsksAt(v, d, i)', AsksAt(v, d, j)'
        PROVE  i = j
    <3>1. CASE v = w /\ d = c
      BY <2>2, <2>3, <3>1
    <3>2. CASE ~(v = w /\ d = c)
      BY <1>1, <2>2, <2>3, <3>2 DEF UniqueIds
    <3>3. QED
      BY <3>1, <3>2
  <2>4. QED
    BY <2>3 DEF UniqueIds
<1>5. QED
  BY <1>2, <1>3, <1>4, NextIsOneOf, HandlesQuietly
  DEF Publish, DiscardReply, TaskArrives, ReturnAnswered, Works, executeTask,
      ExecutorReturnsNothing, WorkerError, CallBeforeQueueExists, Crash, vars

\* A worker asks for a task with nothing, and returns something.
LEMMA RequestKindsStep ==
  ASSUME CallsInv, [Next]_vars
  PROVE  RequestKinds'
<1>1. TypeInv /\ RequestKinds
  BY DEF CallsInv
<1>2. CASE UNCHANGED rpcQueue
  BY <1>1, <1>2 DEF RequestKinds
<1>3. CASE Ack
  <2>1. /\ Len(rpcQueue') = Len(rpcQueue) - 1 /\ Len(rpcQueue) \in Nat
        /\ \A i \in 1 .. Len(rpcQueue') : rpcQueue'[i] = rpcQueue[i + 1]
    BY <1>1, <1>3, AckAsks, QueueLengths DEF TypeInv
  <2>2. QED
    BY <1>1, <2>1 DEF RequestKinds
<1>4. ASSUME NEW w \in Workers, getTask(w) \/ sendCompleteTask(w)
      PROVE  RequestKinds'
  <2>1. PICK method \in {"gettask", "rettask"},
             content \in Tasks \cup {NOTASK, Undecodable, Nothing} :
          Call(w, method, content) /\ (method = "gettask" <=> content = Nothing)
    BY <1>1, <1>4, DispatchAssumption DEF getTask, sendCompleteTask, TypeInv, WorkerHolds
  <2>2. /\ Len(rpcQueue') = Len(rpcQueue) + 1 /\ Len(rpcQueue) \in Nat
        /\ \A i \in 1 .. Len(rpcQueue) : rpcQueue'[i] = rpcQueue[i]
        /\ rpcQueue'[Len(rpcQueue) + 1].method = method
        /\ rpcQueue'[Len(rpcQueue) + 1].content = content
    BY <1>1, <2>1, CallAsks, QueueLengths DEF TypeInv, NewRequest
  <2>3. \A i \in 1 .. Len(rpcQueue') : i \in 1 .. Len(rpcQueue) \/ i = Len(rpcQueue) + 1
    BY <2>2
  <2>4. QED
    BY <1>1, <2>1, <2>2, <2>3 DEF RequestKinds
<1>5. QED
  BY <1>2, <1>3, <1>4, NextIsOneOf, HandlesQuietly
  DEF Publish, DiscardReply, TaskArrives, ReturnAnswered, Works, executeTask,
      ExecutorReturnsNothing, WorkerError, CallBeforeQueueExists, Crash, vars

\* A new request leaves the one the server works on at the head.
LEMMA HeadStays ==
  ASSUME TypeInv, rpcQueue # <<>>, NEW w \in Workers, getTask(w) \/ sendCompleteTask(w)
  PROVE  rpcQueue' # <<>> /\ Head(rpcQueue') = Head(rpcQueue)
<1>1. PICK method \in {"gettask", "rettask"},
           content \in Tasks \cup {NOTASK, Undecodable, Nothing} : Call(w, method, content)
  BY DEF getTask, sendCompleteTask, TypeInv, WorkerHolds
<1>2. PICK m \in Request : rpcQueue' = Append(rpcQueue, m)
  BY <1>1, CallAppends DEF TypeInv
<1>3. rpcQueue \in Seq(Request)
  BY DEF TypeInv, TypeOK
<1>4. QED
  BY <1>2, <1>3, AppendProperties, EmptySeq, LenProperties

\* What the server makes of the request at the head of the queue.
LEMMA ServerKindsStep ==
  ASSUME CallsInv, [Next]_vars
  PROVE  ServerKinds'
<1> DEFINE call == Head(rpcQueue)
<1>1. TypeInv /\ RequestKinds /\ ServerKinds
  BY DEF CallsInv
<1>2. rpcQueue # <<>> /\ call.method = "gettask" => call.content = Nothing
  BY <1>1, QueueLengths DEF TypeInv, RequestKinds
<1>3. CASE init \/ RejectReturn \/ Stop \/ HandlerError \/ Ack
  BY <1>3 DEF init, RejectReturn, Stop, HandlerError, Ack, ServerKinds
<1>4. CASE SendNoTask \/ AcceptNoTask \/ \E t \in Tasks : SendTask(t) \/ CompleteTask(t)
  <2>1. UNCHANGED rpcQueue /\ call.content # Undecodable /\ Fits(reply', call.method)
    <3>1. CASE SendNoTask \/ \E t \in Tasks : SendTask(t)
      BY <1>2, <3>1, DispatchAssumption DEF SendNoTask, SendTask, Delivered, Respond, Fits
    <3>2. CASE AcceptNoTask \/ \E t \in Tasks : CompleteTask(t)
      BY <3>2, DispatchAssumption DEF AcceptNoTask, CompleteTask, Delivered, Respond, Fits
    <3>3. QED
      BY <1>4, <3>1, <3>2
  <2>2. QED
    BY <2>1 DEF ServerKinds, Fits
<1>5. CASE Publish
  BY <1>1, <1>5 DEF Publish, ServerKinds
<1>6. CASE UNCHANGED <<serverPc, reply, rpcQueue>>
  BY <1>1, <1>6 DEF ServerKinds, Fits
<1>7. ASSUME NEW w \in Workers, getTask(w) \/ sendCompleteTask(w)
      PROVE  ServerKinds'
  <2>1. UNCHANGED <<serverPc, reply>>
    BY <1>7 DEF getTask, sendCompleteTask, server
  <2>2. serverPc \in {"replying", "acking"} => Head(rpcQueue') = call
    BY <1>1, <1>7, HeadStays DEF TypeInv, ServerHolds
  <2>3. QED
    BY <1>1, <2>1, <2>2 DEF ServerKinds, Fits
<1>8. QED
  BY <1>3, <1>4, <1>5, <1>6, <1>7, NextIsOneOf
  DEF Handles, insertTask, DiscardReply, TaskArrives, ReturnAnswered, Works, executeTask,
      ExecutorReturnsNothing, WorkerError, CallBeforeQueueExists, Crash, vars, server

LEMMA InitCallsInv == Init => CallsInv
<1> SUFFICES ASSUME Init
             PROVE  CallsInv
  OBVIOUS
<1>1. rpcQueue = <<>> /\ Len(rpcQueue) = 0 /\ serverPc = "unstarted"
  BY DEF Init
<1>2. \A w \in Workers : replyQueue[w] = <<>> /\ Len(replyQueue[w]) = 0 /\ ~Awaiting(w)
  BY DEF Init, Awaiting
<1>3. \A w \in Workers, c \in CorrIds, i \in Nat : ~AsksAt(w, c, i) /\ ~AnswersAt(w, c, i)
  BY <1>1, <1>2 DEF AsksAt, AnswersAt
<1>4. RequestKinds /\ ServerKinds /\ UniqueIds
  BY <1>1, <1>3 DEF RequestKinds, ServerKinds, UniqueIds
<1>5. \A w \in Workers : CallInv(w)
  BY <1>2, <1>3 DEF CallInv, OldFirst, AnsweredLast, OneOld, Old, Kinds, Kept, Current
<1>6. QED
  BY <1>4, <1>5, InitTypeInv DEF CallsInv

\* The invariant of the calls is inductive.
THEOREM CallsInvariance == Spec => []CallsInv
<1>1. CallsInv /\ [Next]_vars => CallsInv'
  <2> SUFFICES ASSUME CallsInv, [Next]_vars
               PROVE  CallsInv'
    OBVIOUS
  <2>1. TypeInv'
    BY NextTypeInv DEF CallsInv
  <2>2. \A w \in Workers : workerPc'[w] # "dead" => CallInv(w)'
    BY CallInvStep
  <2>3. QED
    BY <2>1, <2>2, UniqueIdsStep, RequestKindsStep, ServerKindsStep DEF CallsInv
<1>2. QED
  BY <1>1, InitCallsInv, PTL DEF Spec

-------------------------------------------------------------------------------
(* What follows for a waiting worker. *)

\* The ids of w's calls that messages carry, but for the one it waits for, are one at most.
LEMMA OneOtherId ==
  ASSUME TypeInv, NEW w \in Workers, CallInv(w)
  PROVE  Cardinality(IdsInUse(w) \ {corrId[w]}) <= 1
<1> DEFINE S == IdsInUse(w) \ {corrId[w]}
<1>1. ASSUME NEW c \in S
      PROVE  c \in CorrIds /\ Old(w, c)
  <2>1. /\ DOMAIN rpcQueue = 1 .. Len(rpcQueue) /\ DOMAIN replyQueue[w] = 1 .. Len(replyQueue[w])
        /\ \A i \in DOMAIN rpcQueue : i \in Nat /\ rpcQueue[i].corrId \in CorrIds
        /\ \A i \in DOMAIN replyQueue[w] : i \in Nat /\ replyQueue[w][i].corrId \in CorrIds
    <3>1. DOMAIN rpcQueue = 1 .. Len(rpcQueue) /\ DOMAIN replyQueue[w] = 1 .. Len(replyQueue[w])
      BY QueueLengths, LenProperties DEF TypeInv
    <3>2. /\ \A i \in 1 .. Len(rpcQueue) : rpcQueue[i] \in Request
          /\ \A i \in 1 .. Len(replyQueue[w]) : replyQueue[w][i] \in Reply
          /\ Len(rpcQueue) \in Nat /\ Len(replyQueue[w]) \in Nat
      BY QueueLengths DEF TypeInv
    <3>3. QED
      BY <3>1, <3>2 DEF Request, Reply
  <2>2. c \in IdsInUse(w) /\ ~Current(w, c)
    BY DEF Current
  <2>3. c \in CorrIds /\ \E i \in Nat : AsksAt(w, c, i) \/ AnswersAt(w, c, i)
    BY <2>1, <2>2 DEF IdsInUse, AsksAt, AnswersAt
  <2>4. QED
    BY <2>2, <2>3 DEF Old
<1>2. \A c, d \in S : c = d
  BY <1>1 DEF CallInv, OneOld
<1> HIDE DEF S
<1>3. CASE S = {}
  BY <1>3, FS_EmptySet DEF S
<1>4. CASE S # {}
  <2>1. PICK c \in S : TRUE
    BY <1>4
  <2>2. S = {c}
    BY <1>2, <2>1
  <2>3. Cardinality(S) = 1
    BY <2>2, FS_Singleton
  <2>4. QED
    BY <2>3 DEF S
<1>5. QED
  BY <1>3, <1>4

\* A waiting worker has its request or its reply, what it takes for its reply is one,
\* and of its earlier calls at most one is about, whatever stops and is delivered again.
THEOREM CallsAreAnsweredHolds == Spec => []CallsAreAnswered
<1>1. CallsInv => CallsAreAnswered
  <2> SUFFICES ASSUME CallsInv, NEW w \in Workers
               PROVE  /\ Awaiting(w) => Asks(w, corrId[w]) \/ Answered(w, corrId[w])
                      /\ OwnReplyMatches(w)
                      /\ workerPc[w] # "dead" => Cardinality(IdsInUse(w) \ {corrId[w]}) <= 1
    BY DEF CallsAreAnswered
  <2>1. TypeInv /\ (workerPc[w] # "dead" => CallInv(w))
    BY DEF CallsInv
  <2>2. DOMAIN rpcQueue = 1 .. Len(rpcQueue) /\ DOMAIN replyQueue[w] = 1 .. Len(replyQueue[w])
    BY <2>1, QueueLengths, LenProperties DEF TypeInv
  <2>3. Awaiting(w) => Asks(w, corrId[w]) \/ Answered(w, corrId[w])
    <3>1. HAVE Awaiting(w)
    <3>2. PICK i \in Nat : AsksAt(w, corrId[w], i) \/ AnswersAt(w, corrId[w], i)
      BY <2>1, <3>1 DEF CallInv, Kept, Awaiting
    <3>3. QED
      BY <2>2, <3>2 DEF AsksAt, AnswersAt, Asks, Answered
  <2>4. OwnReplyMatches(w)
    <3> SUFFICES ASSUME NEW i \in DOMAIN replyQueue[w], replyQueue[w][i].corrId = corrId[w],
                        Awaiting(w)
                 PROVE  Fits(replyQueue[w][i].body, Asked(w))
      BY DEF OwnReplyMatches, Fits, Asked, Awaiting
    <3>1. /\ CallInv(w) /\ corrId[w] \in CorrIds /\ Current(w, corrId[w])
          /\ i \in Nat /\ AnswersAt(w, corrId[w], i)
      BY <2>1, <2>2 DEF Awaiting, Current, CallInv, Kept, AnswersAt
    <3>2. QED
      BY <3>1 DEF CallInv, Kinds
  <2>5. QED
    BY <2>1, <2>3, <2>4, OneOtherId
<1>2. QED
  BY <1>1, CallsInvariance, PTL

\* Once a payload that does not decode is at the head of the queue, it stays there, no
\* row but a new one changes, and no result is stored.
THEOREM PoisonBlocksHolds == Spec => PoisonBlocks
<1> DEFINE Blocks == Poisoned => /\ Poisoned'
                                 /\ returnData' = returnData
                                 /\ \A t \in Tasks : state'[t] # state[t] => state[t] = "ABSENT"
<1>1. ASSUME CallsInv, [Next]_vars, Poisoned
      PROVE  /\ Poisoned'
             /\ returnData' = returnData
             /\ \A t \in Tasks : state'[t] # state[t] => state[t] = "ABSENT"
  <2>1. /\ TypeInv /\ rpcQueue # <<>> /\ Head(rpcQueue).content = Undecodable
        /\ Head(rpcQueue).method # "gettask" /\ serverPc \notin {"replying", "acking"}
    BY <1>1, QueueLengths, DispatchAssumption
    DEF CallsInv, Poisoned, TypeInv, RequestKinds, ServerKinds
  <2>2. ~Publish /\ ~Ack /\ \A t \in Tasks : ~SendTask(t) /\ ~CompleteTask(t)
    BY <2>1, DispatchAssumption DEF Publish, Ack, SendTask, CompleteTask, Delivered
  <2>3. Poisoned'
    <3>1. CASE UNCHANGED rpcQueue
      BY <1>1, <3>1 DEF Poisoned
    <3>2. ASSUME NEW w \in Workers, getTask(w) \/ sendCompleteTask(w)
          PROVE  Poisoned'
      BY <1>1, <2>1, <3>2, HeadStays DEF Poisoned
    <3>3. QED
      BY <1>1, <2>2, <3>1, <3>2, NextIsOneOf, HandlesQuietly
      DEF DiscardReply, TaskArrives, ReturnAnswered, Works, executeTask,
          ExecutorReturnsNothing, WorkerError, CallBeforeQueueExists, Crash, vars
  <2>4. ASSUME NEW t \in Tasks, insertTask(t)
        PROVE  /\ returnData' = returnData
               /\ \A u \in Tasks : state'[u] # state[u] => state[u] = "ABSENT"
    BY <2>1, <2>4 DEF insertTask, TypeInv, TypeOK
  <2>5. UNCHANGED database \/ \E t \in Tasks : insertTask(t)
    BY <1>1, <2>2, NextIsOneOf
    DEF Handles, init, SendNoTask, AcceptNoTask, RejectReturn, Stop, HandlerError, getTask,
        sendCompleteTask, DiscardReply, TaskArrives, ReturnAnswered, Works, executeTask,
        ExecutorReturnsNothing, WorkerError, CallBeforeQueueExists, Crash, vars
  <2>6. QED
    BY <2>3, <2>4, <2>5 DEF database
<1>2. CallsInv /\ [Next]_vars => [Blocks]_vars
  BY <1>1
<1>3. QED
  BY <1>2, CallsInvariance, PTL DEF Spec, PoisonBlocks

-------------------------------------------------------------------------------
(***************************************************************************)
(* LossBudget: how many tasks the faults strand.  A task is not stranded   *)
(* by the fault alone.  A stop leaves a request in the queue that was      *)
(* answered, or whose worker has died; when it is delivered again, a task  *)
(* is sent for it that nobody takes.  So such requests count with the      *)
(* tasks that are lost or bound to be.                                     *)
(***************************************************************************)

\* A call of w that no further reply serves: it is over, or it is answered.
Useless(w, c) == ~Current(w, c) \/ \E i \in Nat : AnswersAt(w, c, i)

\* The reply that the call w waits for returns with, and that this reply is t.
FirstCurrent(w, i) ==
  /\ Awaiting(w) /\ AnswersAt(w, corrId[w], i)
  /\ \A j \in Nat : AnswersAt(w, corrId[w], j) => i <= j
Coming(t, w) == \E i \in Nat : ReplyAt(t, w, i) /\ FirstCurrent(w, i)

\* A task that a worker has or will take, or whose result is returned.
Safe(t) ==
  \/ \E w \in Workers : inHand[w] = t \/ Coming(t, w)
  \/ \E i \in Nat : ReturnAt(t, i)
  \/ reply = t /\ ~Useless(Head(rpcQueue).from, Head(rpcQueue).corrId)
Gone(t) == state[t] = "SENT" /\ ~Safe(t)
GoneTasks == {t \in Tasks : Gone(t)}

\* A request that will be handled once more, or again, for a call no reply serves.
InWork(i) == i = 1 /\ serverPc \in {"replying", "acking"}
Asking(w, c, i) == AsksAt(w, c, i) /\ rpcQueue[i].method = "gettask"
Spare(w, c) == \E i \in Nat : Asking(w, c, i) /\ ~InWork(i) /\ Useless(w, c)
SpareRequests == {r \in Workers \X CorrIds : Spare(r[1], r[2])}

\* The result the server replies to or acknowledges is stored.
Stored == serverPc \in {"replying", "acking"} /\ Head(rpcQueue).content \in Tasks =>
            state[Head(rpcQueue).content] = "COMPLETE"

Budget ==
  /\ IsFiniteSet(GoneTasks) /\ IsFiniteSet(SpareRequests)
  /\ Cardinality(GoneTasks) + Cardinality(SpareRequests) <= faults

LossInv == Stored /\ Budget

-------------------------------------------------------------------------------
(* Counting. *)

LEMMA SetGrows ==
  ASSUME NEW A, NEW B, NEW x, IsFiniteSet(A), B \subseteq A \cup {x}
  PROVE  /\ IsFiniteSet(B)
         /\ Cardinality(A) \in Nat /\ Cardinality(B) \in Nat
         /\ Cardinality(B) <= Cardinality(A) + 1
<1>1. /\ IsFiniteSet(A \cup {x}) /\ Cardinality(A) \in Nat
      /\ Cardinality(A \cup {x}) \in {Cardinality(A), Cardinality(A) + 1}
  BY FS_AddElement, FS_CardinalityType
<1>2. IsFiniteSet(B) /\ Cardinality(B) <= Cardinality(A \cup {x})
  BY <1>1, FS_Subset
<1>3. Cardinality(A) \in Nat /\ Cardinality(B) \in Nat /\ Cardinality(A \cup {x}) \in Nat
  BY <1>1, <1>2, FS_CardinalityType
<1>4. QED
  BY <1>1, <1>2, <1>3

LEMMA SetShrinks ==
  ASSUME NEW A, NEW B, IsFiniteSet(A), B \subseteq A
  PROVE  /\ IsFiniteSet(B)
         /\ Cardinality(A) \in Nat /\ Cardinality(B) \in Nat
         /\ Cardinality(B) <= Cardinality(A)
         /\ \A x \in A : B \subseteq A \ {x} => Cardinality(B) <= Cardinality(A) - 1
<1>1. IsFiniteSet(B) /\ Cardinality(B) <= Cardinality(A)
  BY FS_Subset
<1>2. ASSUME NEW x \in A, B \subseteq A \ {x}
      PROVE  Cardinality(B) <= Cardinality(A) - 1
  <2>1. IsFiniteSet(A \ {x}) /\ Cardinality(A \ {x}) = Cardinality(A) - 1
    BY FS_RemoveElement
  <2>2. Cardinality(B) <= Cardinality(A \ {x})
    BY <1>2, <2>1, FS_Subset
  <2>3. QED
    BY <2>1, <2>2
<1>3. QED
  BY <1>1, <1>2, FS_CardinalityType

\* A step that wastes nothing, and one of a fault that wastes one task or one request.
LEMMA BudgetKept ==
  ASSUME Budget, GoneTasks' \subseteq GoneTasks, SpareRequests' \subseteq SpareRequests,
         faults \in Nat, faults' \in Nat, faults' >= faults
  PROVE  Budget'
<1>1. /\ IsFiniteSet(GoneTasks) /\ IsFiniteSet(SpareRequests)
      /\ Cardinality(GoneTasks) + Cardinality(SpareRequests) <= faults
  BY DEF Budget
<1>2. /\ IsFiniteSet(GoneTasks') /\ Cardinality(GoneTasks') <= Cardinality(GoneTasks)
      /\ Cardinality(GoneTasks) \in Nat /\ Cardinality(GoneTasks') \in Nat
  BY <1>1, SetShrinks
<1>3. /\ IsFiniteSet(SpareRequests') /\ Cardinality(SpareRequests') <= Cardinality(SpareRequests)
      /\ Cardinality(SpareRequests) \in Nat /\ Cardinality(SpareRequests') \in Nat
  BY <1>1, SetShrinks
<1>4. Cardinality(GoneTasks') + Cardinality(SpareRequests') <= faults'
  BY <1>1, <1>2, <1>3
<1>5. QED
  BY <1>2, <1>3, <1>4 DEF Budget

LEMMA BudgetSpent ==
  ASSUME Budget, NEW x, faults \in Nat, faults' = faults + 1,
         \/ GoneTasks' \subseteq GoneTasks \cup {x} /\ SpareRequests' \subseteq SpareRequests
         \/ GoneTasks' \subseteq GoneTasks /\ SpareRequests' \subseteq SpareRequests \cup {x}
  PROVE  Budget'
<1>1. /\ IsFiniteSet(GoneTasks) /\ IsFiniteSet(SpareRequests)
      /\ Cardinality(GoneTasks) + Cardinality(SpareRequests) <= faults
  BY DEF Budget
<1>2. CASE GoneTasks' \subseteq GoneTasks \cup {x} /\ SpareRequests' \subseteq SpareRequests
  <2>1. /\ IsFiniteSet(GoneTasks') /\ Cardinality(GoneTasks') <= Cardinality(GoneTasks) + 1
        /\ Cardinality(GoneTasks) \in Nat /\ Cardinality(GoneTasks') \in Nat
    BY <1>1, <1>2, SetGrows
  <2>2. /\ IsFiniteSet(SpareRequests')
        /\ Cardinality(SpareRequests') <= Cardinality(SpareRequests)
        /\ Cardinality(SpareRequests) \in Nat /\ Cardinality(SpareRequests') \in Nat
    BY <1>1, <1>2, SetShrinks
  <2>3. Cardinality(GoneTasks') + Cardinality(SpareRequests') <= faults'
    BY <1>1, <2>1, <2>2
  <2>4. QED
    BY <2>1, <2>2, <2>3 DEF Budget
<1>3. CASE GoneTasks' \subseteq GoneTasks /\ SpareRequests' \subseteq SpareRequests \cup {x}
  <2>1. /\ IsFiniteSet(GoneTasks') /\ Cardinality(GoneTasks') <= Cardinality(GoneTasks)
        /\ Cardinality(GoneTasks) \in Nat /\ Cardinality(GoneTasks') \in Nat
    BY <1>1, <1>3, SetShrinks
  <2>2. /\ IsFiniteSet(SpareRequests')
        /\ Cardinality(SpareRequests') <= Cardinality(SpareRequests) + 1
        /\ Cardinality(SpareRequests) \in Nat /\ Cardinality(SpareRequests') \in Nat
    BY <1>1, <1>3, SetGrows
  <2>3. Cardinality(GoneTasks') + Cardinality(SpareRequests') <= faults'
    BY <1>1, <2>1, <2>2
  <2>4. QED
    BY <2>1, <2>2, <2>3 DEF Budget
<1>4. QED
  BY <1>2, <1>3

\* A spare request that is answered wastes the task it is answered with instead.
LEMMA BudgetMoved ==
  ASSUME Budget, NEW x, NEW r \in SpareRequests, faults \in Nat, faults' = faults,
         GoneTasks' \subseteq GoneTasks \cup {x}, SpareRequests' \subseteq SpareRequests \ {r}
  PROVE  Budget'
<1>1. /\ IsFiniteSet(GoneTasks) /\ IsFiniteSet(SpareRequests)
      /\ Cardinality(GoneTasks) + Cardinality(SpareRequests) <= faults
  BY DEF Budget
<1>2. /\ IsFiniteSet(GoneTasks') /\ Cardinality(GoneTasks') <= Cardinality(GoneTasks) + 1
      /\ Cardinality(GoneTasks) \in Nat /\ Cardinality(GoneTasks') \in Nat
  BY <1>1, SetGrows
<1>3. /\ IsFiniteSet(SpareRequests')
      /\ Cardinality(SpareRequests') <= Cardinality(SpareRequests) - 1
      /\ Cardinality(SpareRequests) \in Nat /\ Cardinality(SpareRequests') \in Nat
  BY <1>1, SetShrinks
<1>4. Cardinality(GoneTasks') + Cardinality(SpareRequests') <= faults'
  BY <1>1, <1>2, <1>3
<1>5. QED
  BY <1>2, <1>3, <1>4 DEF Budget

-------------------------------------------------------------------------------
(* What a step wastes. *)

\* The tasks that were safe and may not be any more are in T, the requests that may
\* have become spare in C.
LEMMA TasksKept ==
  ASSUME NEW T,
         \A t \in Tasks : state'[t] = "SENT" => state[t] = "SENT" \/ t \in T,
         \A t \in Tasks \ T, w \in Workers : inHand[w] = t => Safe(t)',
         \A t \in Tasks \ T, w \in Workers : Coming(t, w) => Safe(t)',
         \A t \in Tasks \ T, i \in Nat : ReturnAt(t, i) /\ state'[t] = "SENT" => Safe(t)',
         \A t \in Tasks \ T :
           reply = t /\ ~Useless(Head(rpcQueue).from, Head(rpcQueue).corrId) => Safe(t)'
  PROVE  GoneTasks' \subseteq GoneTasks \cup T
<1> SUFFICES ASSUME NEW t \in Tasks \ T, state'[t] = "SENT", Safe(t)
             PROVE  Safe(t)'
  BY DEF GoneTasks, Gone
<1>1. QED
  BY DEF Safe

LEMMA RequestsKept ==
  ASSUME NEW C,
         \A w \in Workers, c \in CorrIds, i \in Nat :
           Asking(w, c, i)' /\ ~InWork(i)' /\ Useless(w, c)' /\ <<w, c>> \notin C => Spare(w, c)
  PROVE  SpareRequests' \subseteq SpareRequests \cup C
<1> SUFFICES ASSUME NEW r \in Workers \X CorrIds, Spare(r[1], r[2])', r \notin C
             PROVE  Spare(r[1], r[2])
  BY DEF SpareRequests
<1>1. r[1] \in Workers /\ r[2] \in CorrIds /\ r = <<r[1], r[2]>>
  OBVIOUS
<1>2. QED
  BY <1>1 DEF Spare

\* What keeps a task safe.
LEMMA SafeIf ==
  ASSUME NEW t
  PROVE  /\ \A w \in Workers : inHand[w] = t \/ Coming(t, w) => Safe(t)
         /\ \A i \in Nat : ReturnAt(t, i) => Safe(t)
         /\ reply = t /\ ~Useless(Head(rpcQueue).from, Head(rpcQueue).corrId) => Safe(t)
BY DEF Safe

\* Of the calls of a worker that gets no reply, begins no call and ends none.
LEMMA SameViews ==
  ASSUME NEW w \in Workers, replyQueue'[w] = replyQueue[w],
         Awaiting(w) \/ Awaiting(w)' => workerPc'[w] = workerPc[w] /\ corrId'[w] = corrId[w]
  PROVE  /\ \A c \in CorrIds : Useless(w, c)' <=> Useless(w, c)
         /\ \A t \in Tasks : Coming(t, w)' <=> Coming(t, w)
<1>1. /\ Awaiting(w)' <=> Awaiting(w)
      /\ \A c \in CorrIds : Current(w, c)' <=> Current(w, c)
      /\ \A c \in CorrIds, i \in Nat : AnswersAt(w, c, i)' <=> AnswersAt(w, c, i)
      /\ \A t \in Tasks, i \in Nat : ReplyAt(t, w, i)' <=> ReplyAt(t, w, i)
      /\ \A i \in Nat : Awaiting(w) =>
           (AnswersAt(w, corrId[w], i)' <=> AnswersAt(w, corrId[w], i))
  BY DEF Awaiting, Current, AnswersAt, ReplyAt
<1>2. \A i \in Nat : FirstCurrent(w, i)' <=> FirstCurrent(w, i)
  BY <1>1 DEF FirstCurrent
<1>3. QED
  BY <1>1, <1>2 DEF Useless, Coming

\* The request whose reply is in the server's hand.
LEMMA ReplyHead ==
  ASSUME TypeInv, NEW t \in Tasks, reply = t
  PROVE  /\ serverPc = "replying" /\ rpcQueue # <<>>
         /\ Head(rpcQueue).from \in Workers /\ Head(rpcQueue).corrId \in CorrIds
         /\ AsksAt(Head(rpcQueue).from, Head(rpcQueue).corrId, 1)
<1>1. serverPc = "replying" /\ rpcQueue # <<>>
  BY DispatchAssumption DEF TypeInv, ServerHolds
<1>2. Head(rpcQueue) = rpcQueue[1] /\ 1 \in 1 .. Len(rpcQueue) /\ rpcQueue[1] \in Request
  BY <1>1, QueueLengths DEF TypeInv
<1>3. QED
  BY <1>1, <1>2 DEF AsksAt, Request

LEMMA FaultsType ==
  ASSUME TypeInv
  PROVE  faults \in Nat /\ (\A kind : Fault(kind) => faults' \in Nat /\ faults' = faults + 1)
BY DispatchAssumption DEF TypeInv, TypeOK, Fault

\* Steps of the server that leave the queues alone.
LEMMA QuietLoss ==
  ASSUME TypeInv, Budget, UNCHANGED <<rpcQueue, replyQueue, worker, faults>>,
         \A t \in Tasks : state'[t] = "SENT" => state[t] = "SENT",
         \A t \in Tasks : reply = t => reply' = t,
         \A i \in Nat : InWork(i) => InWork(i)'
  PROVE  Budget'
<1>1. \A w \in Workers : /\ \A c \in CorrIds : Useless(w, c)' <=> Useless(w, c)
                         /\ \A t \in Tasks : Coming(t, w)' <=> Coming(t, w)
  BY SameViews DEF worker
<1>2. /\ \A t \in Tasks, i \in Nat : ReturnAt(t, i)' <=> ReturnAt(t, i)
      /\ \A w \in Workers, c \in CorrIds, i \in Nat : Asking(w, c, i)' <=> Asking(w, c, i)
  BY DEF ReturnAt, Asking, AsksAt
<1>3. GoneTasks' \subseteq GoneTasks \cup {}
  <2>1. \A t \in Tasks, w \in Workers : inHand[w] = t \/ Coming(t, w) => Safe(t)'
    BY <1>1 DEF Safe, worker
  <2>2. \A t \in Tasks, i \in Nat : ReturnAt(t, i) => Safe(t)'
    BY <1>2 DEF Safe
  <2>3. ASSUME NEW t \in Tasks, reply = t,
               ~Useless(Head(rpcQueue).from, Head(rpcQueue).corrId)
        PROVE  Safe(t)'
    BY <1>1, <2>3, ReplyHead DEF Safe
  <2>4. QED
    BY <2>1, <2>2, <2>3, TasksKept
<1>4. SpareRequests' \subseteq SpareRequests \cup {}
  BY <1>1, <1>2, RequestsKept DEF Spare
<1>5. QED
  BY <1>3, <1>4, BudgetKept, FaultsType

\* A task sent for a spare request is gone in its place; any other is on its way.
LEMMA SendLoss ==
  ASSUME TypeInv, UniqueIds, Budget, NEW u \in Tasks, SendTask(u)
  PROVE  Budget'
<1> DEFINE call == Head(rpcQueue)
<1>1. /\ UNCHANGED <<rpcQueue, replyQueue, worker, faults>>
      /\ state' = [state EXCEPT ![u] = "SENT"] /\ reply' = u
      /\ serverPc = "waiting" /\ serverPc' = "replying"
      /\ rpcQueue # <<>> /\ call.method = "gettask" /\ reply = Nothing
  BY DEF SendTask, Delivered, Respond, TypeInv, ServerHolds
<1>2. /\ call \in Request /\ call.from \in Workers /\ call.corrId \in CorrIds
      /\ Asking(call.from, call.corrId, 1)
  BY <1>1, QueueLengths DEF TypeInv, Request, Asking, AsksAt
<1>3. \A w \in Workers : /\ \A c \in CorrIds : Useless(w, c)' <=> Useless(w, c)
                         /\ \A t \in Tasks : Coming(t, w)' <=> Coming(t, w)
  BY <1>1, SameViews DEF worker
<1>4. /\ \A t \in Tasks, i \in Nat : ReturnAt(t, i)' <=> ReturnAt(t, i)
      /\ \A w \in Workers, c \in CorrIds, i \in Nat : Asking(w, c, i)' <=> Asking(w, c, i)
  BY <1>1 DEF ReturnAt, Asking, AsksAt
<1>5. /\ \A t \in Tasks, w \in Workers : inHand[w] = t \/ Coming(t, w) => Safe(t)'
      /\ \A t \in Tasks, i \in Nat : ReturnAt(t, i) => Safe(t)'
  BY <1>1, <1>3, <1>4 DEF Safe, worker
<1>6. GoneTasks' \subseteq GoneTasks \cup {u}
  <2>1. \A t \in Tasks \ {u} : state'[t] = state[t] /\ reply # t
    BY <1>1, DispatchAssumption DEF TypeInv, TypeOK
  <2>2. QED
    BY <1>5, <2>1, TasksKept
<1>7. CASE Useless(call.from, call.corrId)
  <2> DEFINE r == <<call.from, call.corrId>>
  <2>1. Spare(call.from, call.corrId) /\ r \in SpareRequests
    BY <1>1, <1>2, <1>7 DEF Spare, InWork, SpareRequests
  <2>2. SpareRequests' \subseteq SpareRequests \cup {}
    BY <1>1, <1>3, <1>4, RequestsKept DEF Spare, InWork
  <2>3. r \notin SpareRequests'
    <3>1. \A i \in Nat : Asking(call.from, call.corrId, i) => i = 1
      BY <1>2 DEF UniqueIds, Asking
    <3>2. ~Spare(call.from, call.corrId)'
      BY <1>1, <1>2, <1>4, <3>1 DEF Spare, InWork
    <3>3. QED
      BY <1>1, <3>2 DEF SpareRequests
  <2> HIDE DEF r
  <2>4. SpareRequests' \subseteq SpareRequests \ {r}
    BY <2>2, <2>3
  <2>5. QED
    BY <1>1, <1>6, <2>1, <2>4, BudgetMoved, FaultsType
<1>8. CASE ~Useless(call.from, call.corrId)
  <2>1. Safe(u)'
    BY <1>1, <1>2, <1>3, <1>8 DEF Safe
  <2>2. GoneTasks' \subseteq GoneTasks
    BY <1>6, <2>1 DEF GoneTasks, Gone
  <2>3. SpareRequests' \subseteq SpareRequests \cup {}
    BY <1>1, <1>3, <1>4, RequestsKept DEF Spare, InWork
  <2>4. QED
    BY <1>1, <2>2, <2>3, BudgetKept, FaultsType
<1>9. QED
  BY <1>7, <1>8

\* A stop, or an exception in the handler, loses the reply in hand, or makes the
\* request it was working on spare.
LEMMA StopLoss ==
  ASSUME TypeInv, Budget, Stop \/ HandlerError
  PROVE  Budget'
<1> DEFINE call == Head(rpcQueue)
           r == <<call.from, call.corrId>>
<1>1. /\ UNCHANGED <<state, rpcQueue, replyQueue, worker>>
      /\ faults \in Nat /\ faults' \in Nat /\ faults' = faults + 1
      /\ serverPc' \notin {"replying", "acking"}
  BY FaultsType DEF Stop, HandlerError, database
<1>2. \A w \in Workers : /\ \A c \in CorrIds : Useless(w, c)' <=> Useless(w, c)
                         /\ \A t \in Tasks : Coming(t, w)' <=> Coming(t, w)
  BY <1>1, SameViews DEF worker
<1>3. /\ \A t \in Tasks, i \in Nat : ReturnAt(t, i)' <=> ReturnAt(t, i)
      /\ \A w \in Workers, c \in CorrIds, i \in Nat : Asking(w, c, i)' <=> Asking(w, c, i)
  BY <1>1 DEF ReturnAt, Asking, AsksAt
<1>4. /\ \A t \in Tasks, w \in Workers : inHand[w] = t \/ Coming(t, w) => Safe(t)'
      /\ \A t \in Tasks, i \in Nat : ReturnAt(t, i) => Safe(t)'
  BY <1>1, <1>2, <1>3 DEF Safe, worker
<1>5. ASSUME NEW w \in Workers, NEW c \in CorrIds, NEW i \in Nat, Asking(w, c, i), InWork(i)
      PROVE  w = call.from /\ c = call.corrId
  BY <1>5, QueueLengths DEF TypeInv, ServerHolds, InWork, Asking, AsksAt
<1>6. CASE serverPc = "replying" /\ ~Useless(call.from, call.corrId)
  <2>1. GoneTasks' \subseteq GoneTasks \cup {reply}
    BY <1>1, <1>4, TasksKept
  <2>2. SpareRequests' \subseteq SpareRequests \cup {}
    BY <1>2, <1>3, <1>5, <1>6, RequestsKept DEF Spare
  <2>3. QED
    BY <1>1, <2>1, <2>2, BudgetSpent
<1>7. CASE ~(serverPc = "replying" /\ ~Useless(call.from, call.corrId))
  <2>1. GoneTasks' \subseteq GoneTasks \cup {}
    <3>1. \A t \in Tasks : ~(reply = t /\ ~Useless(call.from, call.corrId))
      BY <1>7, ReplyHead
    <3>2. QED
      BY <1>1, <1>4, <3>1, TasksKept
  <2>2. SpareRequests' \subseteq SpareRequests \cup {r}
    <3>1. ASSUME NEW w \in Workers, NEW c \in CorrIds, NEW i \in Nat,
                 Asking(w, c, i), Useless(w, c), <<w, c>> \notin {r}
          PROVE  Spare(w, c)
      BY <1>5, <3>1 DEF Spare
    <3> HIDE DEF r
    <3>2. QED
      BY <1>2, <1>3, <3>1, RequestsKept
  <2> HIDE DEF r
  <2>3. QED
    BY <1>1, <2>1, <2>2, BudgetSpent
<1>8. QED
  BY <1>6, <1>7

\* A published reply is taken, unless the call it was meant for was useless before.
LEMMA PublishLoss ==
  ASSUME TypeInv, UniqueIds, Budget, Publish
  PROVE  Budget'
<1>1. /\ UNCHANGED <<state, rpcQueue, worker, faults>>
      /\ serverPc = "replying" /\ serverPc' = "acking" /\ rpcQueue # <<>>
  BY DEF Publish, database, TypeInv, ServerHolds
<1>w. PICK w \in Workers, c0 \in CorrIds : w = Head(rpcQueue).from /\ c0 = Head(rpcQueue).corrId
  BY <1>1, QueueLengths DEF TypeInv, Request
<1>2. /\ AsksAt(w, c0, 1)
      /\ \A v \in Workers : v # w \/ workerPc[v] = "dead" => replyQueue'[v] = replyQueue[v]
  BY <1>w, PublishAnswers
<1>3. \A v \in Workers : v # w \/ workerPc[v] = "dead" =>
        /\ \A c \in CorrIds : Useless(v, c)' <=> Useless(v, c)
        /\ \A t \in Tasks : Coming(t, v)' <=> Coming(t, v)
  BY <1>1, <1>2, SameViews DEF worker
<1>4. PICK n \in Nat : n = Len(replyQueue[w]) + 1
  BY <1>2, QueueLengths DEF TypeInv
<1>5. ASSUME workerPc[w] # "dead"
      PROVE  /\ \A d \in CorrIds, i \in Nat :
                  AnswersAt(w, d, i)' <=> AnswersAt(w, d, i) \/ (d = c0 /\ i = n)
             /\ \A d \in CorrIds, i \in Nat : AnswersAt(w, d, i) => i < n
             /\ \A t \in Tasks, i \in Nat : ReplyAt(t, w, i) => ReplyAt(t, w, i)'
             /\ \A t \in Tasks : reply = t => ReplyAt(t, w, n)'
             /\ \A d \in CorrIds : Current(w, d)' <=> Current(w, d)
             /\ Awaiting(w)' <=> Awaiting(w)
  <2>1. /\ Len(replyQueue'[w]) = Len(replyQueue[w]) + 1 /\ Len(replyQueue[w]) \in Nat
        /\ \A i \in 1 .. Len(replyQueue[w]) : replyQueue'[w][i] = replyQueue[w][i]
        /\ replyQueue'[w][Len(replyQueue[w]) + 1].body = reply
    BY <1>w, <1>5, PublishAnswers, QueueLengths DEF TypeInv
  <2>2. /\ \A t \in Tasks, i \in Nat : ReplyAt(t, w, i) => ReplyAt(t, w, i)'
        /\ \A t \in Tasks : reply = t => ReplyAt(t, w, n)'
    BY <1>1, <1>4, <2>1 DEF ReplyAt
  <2>3. \A d \in CorrIds, i \in Nat : AnswersAt(w, d, i) => i < n
    BY <1>4, <2>1 DEF AnswersAt
  <2>4. \A d \in CorrIds, i \in Nat :
          AnswersAt(w, d, i)' <=> AnswersAt(w, d, i) \/ (d = c0 /\ i = n)
    BY <1>w, <1>4, <1>5, PublishAnswers
  <2>5. (\A d \in CorrIds : Current(w, d)' <=> Current(w, d)) /\ (Awaiting(w)' <=> Awaiting(w))
    BY <1>1 DEF Current, Awaiting, worker
  <2>6. QED
    BY <2>2, <2>3, <2>4, <2>5
<1>6. GoneTasks' \subseteq GoneTasks \cup {}
  <2>1. ASSUME NEW t \in Tasks, NEW v \in Workers, Coming(t, v)
        PROVE  Safe(t)'
    <3>1. CASE v # w \/ workerPc[v] = "dead"
      BY <1>3, <2>1, <3>1 DEF Safe
    <3>2. CASE v = w /\ workerPc[w] # "dead"
      <4>1. PICK i \in Nat : ReplyAt(t, w, i) /\ FirstCurrent(w, i)
        BY <2>1, <3>2 DEF Coming
      <4>2. PICK c \in CorrIds : c = corrId[w] /\ corrId'[w] = c
        BY <1>1, <1>2, <4>1, QueueLengths DEF worker, TypeInv, FirstCurrent, AnswersAt, Reply
      <4>3. FirstCurrent(w, i)'
        <5>1. AnswersAt(w, c, i)'
          BY <1>5, <3>2, <4>1, <4>2 DEF FirstCurrent
        <5>2. \A j \in Nat : AnswersAt(w, c, j)' => i <= j
          BY <1>5, <3>2, <4>1, <4>2 DEF FirstCurrent
        <5>3. QED
          BY <1>5, <3>2, <4>1, <4>2, <5>1, <5>2 DEF FirstCurrent
      <4>4. QED
        BY <1>1, <1>2, <1>5, <3>2, <4>1, <4>3 DEF Coming, Safe
    <3>3. QED
      BY <3>1, <3>2
  <2>2. ASSUME NEW t \in Tasks, reply = t, ~Useless(w, c0)
        PROVE  Safe(t)'
    <3>1. Current(w, c0) /\ (\A i \in Nat : ~AnswersAt(w, c0, i)) /\ workerPc[w] # "dead"
      BY <2>2 DEF Useless, Current, Awaiting
    <3>2. Awaiting(w)' /\ corrId'[w] = c0
      BY <1>1, <1>5, <3>1 DEF Current, worker
    <3>3. \A j \in Nat : AnswersAt(w, c0, j)' <=> j = n
      BY <1>2, <1>5, <3>1
    <3>4. FirstCurrent(w, n)'
      BY <3>2, <3>3 DEF FirstCurrent
    <3>5. QED
      BY <1>1, <1>2, <1>5, <2>2, <3>1, <3>4 DEF Coming, Safe
  <2>3. \A t \in Tasks, v \in Workers : inHand[v] = t => Safe(t)'
    BY <1>1 DEF Safe, worker
  <2>4. \A t \in Tasks, i \in Nat : ReturnAt(t, i) => Safe(t)'
    BY <1>1 DEF Safe, ReturnAt
  <2>5. QED
    BY <1>1, <1>w, <2>1, <2>2, <2>3, <2>4, TasksKept
<1>7. SpareRequests' \subseteq SpareRequests \cup {}
  <2>1. ASSUME NEW v \in Workers, NEW d \in CorrIds, NEW i \in Nat,
               Asking(v, d, i), i # 1, Useless(v, d)'
        PROVE  Spare(v, d)
    <3>1. v # w \/ d # c0
      BY <1>2, <2>1 DEF UniqueIds, Asking
    <3>2. Useless(v, d)
      BY <1>3, <1>5, <2>1, <3>1 DEF Useless
    <3>3. QED
      BY <2>1, <3>2 DEF Spare, InWork
  <2>2. \A v \in Workers, d \in CorrIds, i \in Nat : Asking(v, d, i)' <=> Asking(v, d, i)
    BY <1>1 DEF Asking, AsksAt
  <2>3. QED
    BY <1>1, <2>1, <2>2, RequestsKept DEF InWork
<1>8. QED
  BY <1>1, <1>6, <1>7, BudgetKept, FaultsType

\* An acknowledged result is stored, and the requests behind were not in work.
LEMMA AckLoss ==
  ASSUME TypeInv, Stored, Budget, Ack
  PROVE  Budget'
<1>1. /\ UNCHANGED <<state, reply, replyQueue, worker, faults>>
      /\ serverPc = "acking" /\ serverPc' = "waiting" /\ rpcQueue # <<>> /\ reply = Nothing
  BY DEF Ack, database, TypeInv, ServerHolds
<1>2. \A w \in Workers : /\ \A c \in CorrIds : Useless(w, c)' <=> Useless(w, c)
                         /\ \A t \in Tasks : Coming(t, w)' <=> Coming(t, w)
  BY <1>1, SameViews DEF worker
<1>3. GoneTasks' \subseteq GoneTasks \cup {}
  <2>1. ASSUME NEW t \in Tasks, NEW i \in Nat, ReturnAt(t, i), state'[t] = "SENT"
        PROVE  Safe(t)'
    <3>1. i # 1
      BY <1>1, <2>1, QueueLengths DEF Stored, TypeInv, ReturnAt
    <3>2. /\ Len(rpcQueue') = Len(rpcQueue) - 1 /\ Len(rpcQueue) \in Nat
          /\ \A j \in 1 .. Len(rpcQueue') : rpcQueue'[j] = rpcQueue[j + 1]
      BY AckAsks, QueueLengths DEF TypeInv
    <3>3. i - 1 \in Nat /\ i - 1 \in 1 .. Len(rpcQueue') /\ (i - 1) + 1 = i
      BY <2>1, <3>1, <3>2 DEF ReturnAt
    <3>4. ReturnAt(t, i - 1)'
      BY <2>1, <3>2, <3>3 DEF ReturnAt
    <3>5. QED
      BY <3>3, <3>4 DEF Safe
  <2>2. \A t \in Tasks, w \in Workers : inHand[w] = t \/ Coming(t, w) => Safe(t)'
    BY <1>1, <1>2 DEF Safe, worker
  <2>3. \A t \in Tasks : reply # t
    BY <1>1, DispatchAssumption
  <2>4. QED
    BY <1>1, <2>1, <2>2, <2>3, TasksKept
<1>4. SpareRequests' \subseteq SpareRequests \cup {}
  <2>1. ASSUME NEW w \in Workers, NEW c \in CorrIds, NEW i \in Nat,
               Asking(w, c, i)', Useless(w, c)'
        PROVE  Spare(w, c)
    <3>1. i # 0 /\ AsksAt(w, c, i + 1) /\ rpcQueue'[i] = rpcQueue[i + 1]
      BY <2>1, AckAsks DEF Asking, AsksAt
    <3>2. i + 1 \in Nat /\ i + 1 # 1
      BY <3>1
    <3>3. QED
      BY <1>2, <2>1, <3>1, <3>2 DEF Spare, Asking, InWork
  <2>2. QED
    BY <2>1, RequestsKept
<1>5. QED
  BY <1>1, <1>3, <1>4, BudgetKept, FaultsType

\* A step of w that leaves the queues of the others and the server alone, but for
\* requests of w behind the rest.
LEMMA OthersViews ==
  ASSUME TypeInv, NEW w \in Workers,
         \/ getTask(w) \/ sendCompleteTask(w) \/ DiscardReply(w)
         \/ TaskArrives(w) \/ ReturnAnswered(w) \/ Works(w) \/ Crash(w)
  PROVE  /\ UNCHANGED <<state, serverPc, reply>>
         /\ \A v \in Workers : v # w =>
              /\ \A c \in CorrIds : Useless(v, c)' <=> Useless(v, c)
              /\ \A t \in Tasks : Coming(t, v)' <=> Coming(t, v)
              /\ inHand'[v] = inHand[v]
         /\ \A i \in Nat : InWork(i)' <=> InWork(i)
<1>1. UNCHANGED <<state, serverPc, reply>>
  BY DEF getTask, sendCompleteTask, DiscardReply, TaskArrives, ReturnAnswered, Works, executeTask,
         ExecutorReturnsNothing, WorkerError, CallBeforeQueueExists, Crash, database, server
<1>2. ASSUME NEW v \in Workers, v # w
      PROVE  /\ \A c \in CorrIds : Useless(v, c)' <=> Useless(v, c)
             /\ \A t \in Tasks : Coming(t, v)' <=> Coming(t, v)
  BY <1>2, OthersStep, SameViews
<1>3. \A v \in Workers : v # w => inHand'[v] = inHand[v]
  BY DEF TypeInv, TypeOK, getTask, sendCompleteTask, DiscardReply, TaskArrives, ReturnAnswered,
         Works, executeTask, ExecutorReturnsNothing, WorkerError, CallBeforeQueueExists, Crash,
         worker
<1>4. QED
  BY <1>1, <1>2, <1>3 DEF InWork

\* A worker that makes no call has none in use.
LEMMA NoCallInUse ==
  ASSUME NEW w \in Workers, ~Awaiting(w)
  PROVE  /\ \A c \in CorrIds : Useless(w, c)
         /\ \A t \in Tasks : ~Coming(t, w)
BY DEF Useless, Current, Coming, FirstCurrent

\* A new call wastes nothing: a result goes from the worker's hand to the queue.
LEMMA CallLoss ==
  ASSUME TypeInv, Budget, NEW w \in Workers, getTask(w) \/ sendCompleteTask(w)
  PROVE  Budget'
<1>1. /\ UNCHANGED <<faults, replyQueue>> /\ ~Awaiting(w) /\ Awaiting(w)'
  BY DEF getTask, sendCompleteTask, TypeInv, TypeOK, Awaiting
<1>2. PICK method \in {"gettask", "rettask"},
           content \in Tasks \cup {NOTASK, Undecodable, Nothing} :
        /\ Call(w, method, content)
        /\ \A t \in Tasks : inHand[w] = t => content = t
  BY DispatchAssumption DEF getTask, sendCompleteTask, TypeInv, WorkerHolds
<1>3. TypeOK
  BY DEF TypeInv
<1>4. PICK c \in CorrIds : NewRequest(w, c, method, content)
  BY <1>2, <1>3, CallAsks
<1>5. PICK n \in Nat : n = Len(rpcQueue) + 1
  BY QueueLengths DEF TypeInv
<1>6. /\ \A i \in Nat : ~AnswersAt(w, c, i)
      /\ \A v \in Workers, d \in CorrIds, i \in Nat :
           AsksAt(v, d, i)' <=> AsksAt(v, d, i) \/ (v = w /\ d = c /\ i = n)
      /\ \A i \in 1 .. Len(rpcQueue) : rpcQueue'[i] = rpcQueue[i]
      /\ Len(rpcQueue') = Len(rpcQueue) + 1
      /\ rpcQueue'[n].content = content
  BY <1>4, <1>5 DEF NewRequest
<1>7. /\ \A t \in Tasks, i \in Nat : ReturnAt(t, i) => ReturnAt(t, i)'
      /\ \A t \in Tasks : content = t => ReturnAt(t, n)'
  BY <1>5, <1>6, QueueLengths DEF ReturnAt, TypeInv
<1>8. (\A d \in CorrIds : Useless(w, d)) /\ (\A t \in Tasks : ~Coming(t, w)) /\ ~Useless(w, c)'
  <2>1. Current(w, c)' /\ \A i \in Nat : ~AnswersAt(w, c, i)'
    BY <1>1, <1>4, <1>6 DEF NewRequest, TypeInv, TypeOK, Current, AnswersAt
  <2>2. QED
    BY <1>1, <2>1, NoCallInUse DEF Useless
<1>9. GoneTasks' \subseteq GoneTasks \cup {}
  <2>1. \A t \in Tasks, v \in Workers : inHand[v] = t \/ Coming(t, v) => Safe(t)'
    <3>1. \A t \in Tasks : inHand[w] = t => Safe(t)'
      BY <1>2, <1>7 DEF Safe
    <3>2. \A t \in Tasks, v \in Workers : v # w /\ (inHand[v] = t \/ Coming(t, v)) => Safe(t)'
      BY OthersViews DEF Safe
    <3>3. QED
      BY <1>8, <3>1, <3>2
  <2>2. \A t \in Tasks, i \in Nat : ReturnAt(t, i) => Safe(t)'
    BY <1>7 DEF Safe
  <2>3. ASSUME NEW t \in Tasks, reply = t, ~Useless(Head(rpcQueue).from, Head(rpcQueue).corrId)
        PROVE  Safe(t)'
    <3>1. PICK v \in Workers, d \in CorrIds : v = Head(rpcQueue).from /\ d = Head(rpcQueue).corrId
      BY <2>3, ReplyHead
    <3>2. Head(rpcQueue') = Head(rpcQueue) /\ reply' = t
      BY <2>3, ReplyHead, HeadStays, OthersViews
    <3>3. ~Useless(v, d) /\ v # w
      BY <1>8, <2>3, <3>1
    <3>4. ~Useless(v, d)'
      BY <3>3, OthersViews
    <3>5. QED
      BY <3>1, <3>2, <3>4 DEF Safe
  <2>4. UNCHANGED state
    BY OthersViews
  <2>5. QED
    BY <2>1, <2>2, <2>3, <2>4, TasksKept
<1>10. SpareRequests' \subseteq SpareRequests \cup {}
  <2>1. ASSUME NEW v \in Workers, NEW d \in CorrIds, NEW i \in Nat,
               Asking(v, d, i)', ~InWork(i)', Useless(v, d)'
        PROVE  Spare(v, d)
    <3>1. ~(v = w /\ d = c)
      BY <1>8, <2>1
    <3>2. AsksAt(v, d, i) /\ rpcQueue'[i] = rpcQueue[i]
      BY <1>6, <2>1, <3>1 DEF Asking, AsksAt
    <3>3. Useless(v, d) /\ ~InWork(i)
      BY <1>8, <2>1, OthersViews
    <3>4. QED
      BY <2>1, <3>2, <3>3 DEF Spare, Asking
  <2>2. QED
    BY <2>1, RequestsKept
<1>11. QED
  BY <1>1, <1>9, <1>10, BudgetKept, FaultsType

\* A step of w that leaves the requests alone, uses up no call of w's and leaves what
\* is not in T safe.
LEMMA WorkerLoss ==
  ASSUME TypeInv, NEW w \in Workers, NEW T,
         DiscardReply(w) \/ TaskArrives(w) \/ ReturnAnswered(w) \/ Works(w) \/ Crash(w),
         \A c \in CorrIds : Useless(w, c)' => Useless(w, c),
         \A t \in Tasks \ T : inHand[w] = t \/ Coming(t, w) => inHand'[w] = t \/ Coming(t, w)'
  PROVE  GoneTasks' \subseteq GoneTasks \cup T /\ SpareRequests' \subseteq SpareRequests
<1>1. UNCHANGED rpcQueue
  BY DEF DiscardReply, TaskArrives, ReturnAnswered, Works, executeTask, ExecutorReturnsNothing,
         WorkerError, CallBeforeQueueExists, Crash
<1>2. \A v \in Workers, c \in CorrIds : Useless(v, c)' => Useless(v, c)
  BY OthersViews
<1>3. UNCHANGED <<state, reply>>
  BY OthersViews
<1>4. GoneTasks' \subseteq GoneTasks \cup T
  <2>1. \A t \in Tasks \ T, v \in Workers : inHand[v] = t \/ Coming(t, v) => Safe(t)'
    BY OthersViews DEF Safe
  <2>2. \A t \in Tasks, i \in Nat : ReturnAt(t, i) => Safe(t)'
    BY <1>1 DEF Safe, ReturnAt
  <2>3. ASSUME NEW t \in Tasks, reply = t, ~Useless(Head(rpcQueue).from, Head(rpcQueue).corrId)
        PROVE  Safe(t)'
    <3>1. PICK v \in Workers, d \in CorrIds : v = Head(rpcQueue).from /\ d = Head(rpcQueue).corrId
      BY <2>3, ReplyHead
    <3>2. ~Useless(v, d)'
      BY <1>2, <2>3, <3>1
    <3>3. QED
      BY <1>1, <1>3, <2>3, <3>1, <3>2 DEF Safe
  <2>4. QED
    BY <1>3, <2>1, <2>2, <2>3, TasksKept
<1>5. SpareRequests' \subseteq SpareRequests \cup {}
  <2>1. \A v \in Workers, d \in CorrIds, i \in Nat : Asking(v, d, i)' <=> Asking(v, d, i)
    BY <1>1 DEF Asking, AsksAt
  <2>2. \A i \in Nat : InWork(i)' <=> InWork(i)
    BY OthersViews
  <2>3. QED
    BY <1>2, <2>1, <2>2, RequestsKept DEF Spare
<1>6. QED
  BY <1>4, <1>5

\* A reply that is dropped was not the one waited for.
LEMMA DiscardLoss ==
  ASSUME TypeInv, Budget, NEW w \in Workers, DiscardReply(w)
  PROVE  Budget'
<1>1. /\ UNCHANGED <<worker, faults>> /\ replyQueue[w] # <<>>
      /\ replyQueue' = [replyQueue EXCEPT ![w] = Tail(@)]
      /\ Head(replyQueue[w]).corrId # corrId[w]
  BY DEF DiscardReply
<1>2. /\ \A c \in CorrIds, i \in Nat : AnswersAt(w, c, i)' <=> i # 0 /\ AnswersAt(w, c, i + 1)
      /\ Len(replyQueue'[w]) = Len(replyQueue[w]) - 1 /\ Len(replyQueue[w]) \in Nat
      /\ \A i \in 1 .. Len(replyQueue'[w]) : replyQueue'[w][i] = replyQueue[w][i + 1]
  BY <1>1, TakenAnswers, QueueLengths DEF TypeInv
<1>3. \A c \in CorrIds : Useless(w, c)' => Useless(w, c)
  <2>1. \A c \in CorrIds : Current(w, c)' <=> Current(w, c)
    BY <1>1 DEF Current, Awaiting, worker
  <2>2. \A i \in Nat : i + 1 \in Nat
    OBVIOUS
  <2>3. QED
    BY <1>2, <2>1, <2>2 DEF Useless
<1>4. ASSUME NEW t \in Tasks, Coming(t, w)
      PROVE  Coming(t, w)'
  <2>1. PICK i \in Nat : ReplyAt(t, w, i) /\ FirstCurrent(w, i)
    BY <1>4 DEF Coming
  <2>2. PICK c \in CorrIds : c = corrId[w] /\ corrId'[w] = c
    BY <1>1, <2>1, QueueLengths DEF worker, TypeInv, FirstCurrent, AnswersAt, Reply
  <2>3. i # 1 /\ i # 0
    BY <1>1, <2>1, QueueLengths DEF TypeInv, FirstCurrent, AnswersAt
  <2>4. PICK k \in Nat : k = i - 1 /\ k + 1 = i /\ k # 0
    BY <2>3
  <2>5. ReplyAt(t, w, k)'
    <3>1. k \in 1 .. Len(replyQueue'[w]) /\ replyQueue[w][i].body = t
      BY <1>2, <2>1, <2>4 DEF ReplyAt
    <3>2. replyQueue'[w][k] = replyQueue[w][i]
      BY <1>2, <2>4, <3>1
    <3>3. QED
      BY <3>1, <3>2 DEF ReplyAt
  <2>6. AnswersAt(w, c, k)' /\ \A j \in Nat : AnswersAt(w, c, j)' => k <= j
    <3>1. \A j \in Nat : AnswersAt(w, c, j + 1) => i <= j + 1
      BY <2>1, <2>2 DEF FirstCurrent
    <3>2. QED
      BY <1>2, <2>1, <2>2, <2>4, <3>1 DEF FirstCurrent
  <2>7. Awaiting(w)'
    BY <1>1, <2>1 DEF FirstCurrent, Awaiting, worker
  <2>8. FirstCurrent(w, k)'
    BY <2>2, <2>6, <2>7 DEF FirstCurrent
  <2>9. QED
    BY <2>5, <2>8 DEF Coming
<1>5. GoneTasks' \subseteq GoneTasks \cup {} /\ SpareRequests' \subseteq SpareRequests
  <2>1. inHand'[w] = inHand[w]
    BY <1>1 DEF worker
  <2>2. QED
    BY <1>3, <1>4, <2>1, WorkerLoss
<1>6. QED
  BY <1>1, <1>5, BudgetKept, FaultsType

\* A call that returns takes the first reply to it: the task is in w's hand, and the
\* reply to a returned result is none.
LEMMA ReturnLoss ==
  ASSUME CallsInv, Budget, NEW w \in Workers, TaskArrives(w) \/ ReturnAnswered(w)
  PROVE  Budget'
<1>1. /\ TypeInv /\ CallInv(w) /\ Awaiting(w) /\ CallReturns(w) /\ faults' = faults
  BY DEF CallsInv, TaskArrives, ReturnAnswered, Awaiting
<1>2. PICK c \in CorrIds : c = corrId[w] /\ AnswersAt(w, c, 1)
  BY <1>1, QueueLengths DEF TypeInv, CallInv, Kept, CallReturns, AnswersAt
<1>3. \A d \in CorrIds : Useless(w, d)
  BY <1>2 DEF Useless, Current
<1>4. inHand[w] = Nothing
  BY <1>1 DEF TypeInv, WorkerHolds, Awaiting
<1>5. ASSUME NEW t \in Tasks, Coming(t, w)
      PROVE  inHand'[w] = t
  <2>1. PICK i \in Nat : ReplyAt(t, w, i) /\ FirstCurrent(w, i)
    BY <1>5 DEF Coming
  <2>2. i = 1
    BY <1>1, <1>2, <2>1, QueueLengths DEF FirstCurrent, AnswersAt, TypeInv
  <2>3. Head(replyQueue[w]).body = t
    BY <1>1, <2>1, <2>2, QueueLengths DEF ReplyAt, CallReturns, TypeInv
  <2>4. Fits(t, Asked(w))
    BY <1>1, <1>2, <2>1, <2>2 DEF CallInv, Kinds, Current, ReplyAt
  <2>5. ~ReturnAnswered(w)
    BY <2>4, DispatchAssumption DEF ReturnAnswered, Fits, Asked
  <2>6. QED
    BY <1>1, <2>3, <2>5, DispatchAssumption DEF TaskArrives, TypeInv, TypeOK
<1>6. GoneTasks' \subseteq GoneTasks \cup {} /\ SpareRequests' \subseteq SpareRequests
  <2>1. \A t \in Tasks : inHand[w] # t
    BY <1>4, DispatchAssumption
  <2>2. QED
    BY <1>1, <1>3, <1>5, <2>1, WorkerLoss
<1>7. QED
  BY <1>1, <1>6, BudgetKept, FaultsType

\* A task that comes to nothing, or to something that does not decode, is gone.
LEMMA WorksLoss ==
  ASSUME TypeInv, Budget, NEW w \in Workers, Works(w)
  PROVE  Budget'
<1>1. ~Awaiting(w)
  BY DEF Works, executeTask, ExecutorReturnsNothing, WorkerError, CallBeforeQueueExists, Awaiting
<1>2. /\ GoneTasks' \subseteq GoneTasks \cup {inHand[w]}
      /\ inHand'[w] = inHand[w] => GoneTasks' \subseteq GoneTasks \cup {}
      /\ SpareRequests' \subseteq SpareRequests
  <2>1. /\ \A c \in CorrIds : Useless(w, c)
        /\ \A t \in Tasks : ~Coming(t, w)
    BY <1>1, NoCallInUse
  <2>2. GoneTasks' \subseteq GoneTasks \cup {inHand[w]} /\ SpareRequests' \subseteq SpareRequests
    BY <2>1, WorkerLoss
  <2>3. inHand'[w] = inHand[w] => GoneTasks' \subseteq GoneTasks \cup {}
    BY <2>1, WorkerLoss
  <2>4. QED
    BY <2>2, <2>3
<1>3. CASE executeTask(w) \/ CallBeforeQueueExists(w)
  <2>1. UNCHANGED inHand /\ faults \in Nat /\ faults' \in Nat /\ faults' >= faults
    BY <1>3, FaultsType DEF executeTask, CallBeforeQueueExists
  <2>2. QED
    BY <1>2, <2>1, BudgetKept
<1>4. CASE ExecutorReturnsNothing(w) \/ WorkerError(w)
  <2>1. faults \in Nat /\ faults' = faults + 1
    BY <1>4, FaultsType DEF ExecutorReturnsNothing, WorkerError
  <2>2. QED
    BY <1>2, <2>1, BudgetSpent
<1>5. QED
  BY <1>3, <1>4 DEF Works

\* A crash loses the task in hand, the reply that was to be taken, the one being
\* prepared, or leaves a request for nobody: whichever there is of these is only one.
LEMMA CrashLoss ==
  ASSUME TypeInv, UniqueIds, Budget, NEW w \in Workers, Crash(w)
  PROVE  Budget'
<1>1. /\ faults \in Nat /\ faults' = faults + 1
      /\ UNCHANGED <<rpcQueue, state, reply, serverPc>>
  BY FaultsType DEF Crash, database, server
<1>2. Awaiting(w) => inHand[w] = Nothing
  BY DEF TypeInv, WorkerHolds, Awaiting
<1>3. \A t \in Tasks : Nothing # t
  BY DispatchAssumption
<1>4. CASE \A c \in CorrIds : Useless(w, c)
  <2>1. CASE \E i \in Nat : FirstCurrent(w, i)
    <3>1. PICK i \in Nat : FirstCurrent(w, i)
      BY <2>1
    <3> DEFINE x == replyQueue[w][i].body
    <3>2. Awaiting(w) /\ \A j \in Nat : FirstCurrent(w, j) => j = i
      BY <3>1 DEF FirstCurrent
    <3>3. \A t \in Tasks : Coming(t, w) => t = x
      BY <3>2 DEF Coming, ReplyAt
    <3> HIDE DEF x
    <3>4. GoneTasks' \subseteq GoneTasks \cup {x} /\ SpareRequests' \subseteq SpareRequests
      BY <1>2, <1>3, <1>4, <3>2, <3>3, WorkerLoss
    <3>5. QED
      BY <1>1, <3>4, BudgetSpent
  <2>2. CASE \A i \in Nat : ~FirstCurrent(w, i)
    <3>1. \A t \in Tasks : ~Coming(t, w)
      BY <2>2 DEF Coming
    <3>2. GoneTasks' \subseteq GoneTasks \cup {inHand[w]} /\ SpareRequests' \subseteq SpareRequests
      BY <1>4, <3>1, WorkerLoss
    <3>3. QED
      BY <1>1, <3>2, BudgetSpent
  <2>3. QED
    BY <2>1, <2>2
\* w waits and is not answered.
<1>5. ASSUME NEW c \in CorrIds, ~Useless(w, c)
      PROVE  Budget'
  <2>1. /\ Awaiting(w) /\ c = corrId[w] /\ \A i \in Nat : ~AnswersAt(w, c, i)
        /\ \A d \in CorrIds : d # c => Useless(w, d)
        /\ \A t \in Tasks : ~Coming(t, w) /\ inHand[w] # t
    BY <1>2, <1>3, <1>5 DEF Useless, Current, Coming, FirstCurrent
  <2>2. \A t \in Tasks, v \in Workers : inHand[v] = t \/ Coming(t, v) => Safe(t)'
    BY <2>1, OthersViews DEF Safe
  <2>3. \A t \in Tasks, i \in Nat : ReturnAt(t, i) => Safe(t)'
    BY <1>1 DEF Safe, ReturnAt
  <2>4. \A v \in Workers, d \in CorrIds : Useless(v, d)' => Useless(v, d) \/ (v = w /\ d = c)
    BY <2>1, OthersViews
  <2>5. /\ \A v \in Workers, d \in CorrIds, i \in Nat : Asking(v, d, i)' <=> Asking(v, d, i)
        /\ \A i \in Nat : InWork(i)' <=> InWork(i)
    BY <1>1 DEF Asking, AsksAt, InWork
  <2>6. CASE AsksAt(w, c, 1) /\ serverPc = "replying"
    <3>1. GoneTasks' \subseteq GoneTasks \cup {reply}
      BY <1>1, <2>2, <2>3, TasksKept
    <3>2. SpareRequests' \subseteq SpareRequests \cup {}
      <4>1. \A i \in Nat : Asking(w, c, i) => InWork(i)
        BY <2>6 DEF UniqueIds, Asking, InWork
      <4>2. \A v \in Workers, d \in CorrIds, i \in Nat :
              Asking(v, d, i)' /\ ~InWork(i)' /\ Useless(v, d)' => Spare(v, d)
        BY <2>4, <2>5, <4>1 DEF Spare
      <4>3. QED
        BY <4>2, RequestsKept
    <3>3. QED
      BY <1>1, <3>1, <3>2, BudgetSpent
  <2>7. CASE ~(AsksAt(w, c, 1) /\ serverPc = "replying")
    <3>1. ASSUME NEW t \in Tasks, reply = t,
                 ~Useless(Head(rpcQueue).from, Head(rpcQueue).corrId)
          PROVE  Safe(t)'
      <4>1. PICK v \in Workers, d \in CorrIds :
              v = Head(rpcQueue).from /\ d = Head(rpcQueue).corrId
        BY <3>1, ReplyHead
      <4>2. ~(v = w /\ d = c)
        BY <2>7, <3>1, <4>1, ReplyHead
      <4>3. ~Useless(v, d)'
        BY <2>4, <3>1, <4>1, <4>2
      <4>4. QED
        BY <1>1, <3>1, <4>1, <4>3 DEF Safe
    <3>2. GoneTasks' \subseteq GoneTasks \cup {}
      BY <1>1, <2>2, <2>3, <3>1, TasksKept
    <3>3. PICK r : r = <<w, c>>
      OBVIOUS
    <3>4. SpareRequests' \subseteq SpareRequests \cup {r}
      <4>1. \A v \in Workers, d \in CorrIds, i \in Nat :
              Asking(v, d, i)' /\ ~InWork(i)' /\ Useless(v, d)' /\ <<v, d>> \notin {r} =>
                Spare(v, d)
        BY <2>4, <2>5, <3>3 DEF Spare
      <4>2. QED
        BY <4>1, RequestsKept
    <3>5. QED
      BY <1>1, <3>2, <3>4, BudgetSpent
  <2>8. QED
    BY <2>6, <2>7
<1>6. QED
  BY <1>4, <1>5

-------------------------------------------------------------------------------
(* The budget. *)

LEMMA StoredStep ==
  ASSUME CallsInv, Stored, [Next]_vars
  PROVE  Stored'
<1> DEFINE call == Head(rpcQueue)
<1>1. TypeInv /\ RequestKinds
  BY DEF CallsInv
<1>2. rpcQueue # <<>> /\ call.method = "gettask" => call.content \notin Tasks
  BY <1>1, QueueLengths, DispatchAssumption DEF TypeInv, RequestKinds
<1>3. CASE init \/ RejectReturn \/ Stop \/ HandlerError \/ Ack
  BY <1>3 DEF init, RejectReturn, Stop, HandlerError, Ack, Stored
<1>4. CASE SendNoTask \/ \E t \in Tasks : SendTask(t)
  BY <1>2, <1>4 DEF SendNoTask, SendTask, Delivered, Respond, Stored
<1>5. CASE AcceptNoTask \/ \E t \in Tasks : CompleteTask(t)
  BY <1>1, <1>5, DispatchAssumption DEF AcceptNoTask, CompleteTask, Stored, TypeInv, TypeOK
<1>6. CASE Publish
  BY <1>6 DEF Publish, Stored, database
<1>7. ASSUME NEW t \in Tasks, insertTask(t)
      PROVE  Stored'
  BY <1>1, <1>7 DEF insertTask, Stored, server, TypeInv, TypeOK
<1>8. CASE UNCHANGED <<serverPc, state, rpcQueue>>
  BY <1>8 DEF Stored
<1>9. ASSUME NEW w \in Workers, getTask(w) \/ sendCompleteTask(w)
      PROVE  Stored'
  <2>1. UNCHANGED <<serverPc, state>>
    BY <1>9 DEF getTask, sendCompleteTask, server, database
  <2>2. serverPc \in {"replying", "acking"} => Head(rpcQueue') = call
    BY <1>1, <1>9, HeadStays DEF TypeInv, ServerHolds
  <2>3. QED
    BY <2>1, <2>2 DEF Stored
<1>10. QED
  BY <1>3, <1>4, <1>5, <1>6, <1>7, <1>8, <1>9, NextIsOneOf
  DEF Handles, DiscardReply, TaskArrives, ReturnAnswered, Works, executeTask,
      ExecutorReturnsNothing, WorkerError, CallBeforeQueueExists, Crash, vars, server, database

LEMMA BudgetStep ==
  ASSUME CallsInv, LossInv, [Next]_vars
  PROVE  Budget'
<1>1. TypeInv /\ UniqueIds /\ Stored /\ Budget
  BY DEF CallsInv, LossInv
<1>2. CASE \/ init \/ SendNoTask \/ AcceptNoTask \/ RejectReturn \/ UNCHANGED vars
           \/ \E t \in Tasks : insertTask(t) \/ CompleteTask(t)
  <2>1. UNCHANGED <<rpcQueue, replyQueue, worker, faults>>
    BY <1>2 DEF init, SendNoTask, AcceptNoTask, RejectReturn, vars, insertTask, CompleteTask
  <2>2. \A t \in Tasks : state'[t] = "SENT" => state[t] = "SENT"
    BY <1>1, <1>2 DEF init, SendNoTask, AcceptNoTask, RejectReturn, vars, insertTask, CompleteTask,
                      database, TypeInv, TypeOK
  <2>3. \/ UNCHANGED server
        \/ serverPc \in {"unstarted", "down", "waiting"}
    BY <1>2 DEF init, SendNoTask, AcceptNoTask, RejectReturn, vars, insertTask, CompleteTask,
                Delivered
  <2>4. /\ \A t \in Tasks : reply = t => reply' = t
        /\ \A i \in Nat : InWork(i) => InWork(i)'
    BY <1>1, <2>3, DispatchAssumption DEF server, TypeInv, ServerHolds, InWork
  <2>5. QED
    BY <1>1, <2>1, <2>2, <2>4, QuietLoss
<1>3. CASE Handles
  BY <1>1, <1>2, <1>3, SendLoss, StopLoss DEF Handles
<1>4. CASE Publish \/ Ack
  BY <1>1, <1>4, PublishLoss, AckLoss
<1>5. ASSUME NEW w \in Workers,
             \/ getTask(w) \/ sendCompleteTask(w) \/ DiscardReply(w)
             \/ TaskArrives(w) \/ ReturnAnswered(w) \/ Works(w) \/ Crash(w)
      PROVE  Budget'
  BY <1>1, <1>5, CallLoss, DiscardLoss, ReturnLoss, WorksLoss, CrashLoss
<1>6. QED
  BY <1>2, <1>3, <1>4, <1>5, NextIsOneOf

LEMMA InitLossInv == Init => LossInv
<1> SUFFICES ASSUME Init
             PROVE  LossInv
  OBVIOUS
<1>1. GoneTasks = {}
  BY DEF Init, GoneTasks, Gone
<1>2. SpareRequests = {}
  <2>1. rpcQueue = <<>> /\ Len(rpcQueue) = 0
    BY DEF Init
  <2>2. QED
    BY <2>1 DEF SpareRequests, Spare, Asking, AsksAt
<1>3. faults = 0 /\ serverPc = "unstarted"
  BY DEF Init
<1>4. Budget
  BY <1>1, <1>2, <1>3, FS_EmptySet DEF Budget
<1>5. QED
  BY <1>3, <1>4 DEF LossInv, Stored

\* No more tasks are lost than faults happened, whatever the number and the order of
\* the stops, crashes, exceptions and redeliveries.
THEOREM LossBudgetHolds == Spec => []LossBudget
<1>1. CallsInv /\ LossInv /\ [Next]_vars => LossInv'
  BY StoredStep, BudgetStep DEF LossInv
<1>2. CallsInv /\ LossInv => LossBudget
  <2> SUFFICES ASSUME CallsInv, Budget
               PROVE  Cardinality(Lost) <= faults
    BY DEF LossInv, LossBudget
  <2>1. Lost \subseteq GoneTasks
    <3> SUFFICES ASSUME NEW t \in Tasks, Custody(t) = {}
                 PROVE  ~Safe(t)
      BY DEF Lost, GoneTasks, Gone
    <3>1. /\ DOMAIN rpcQueue = 1 .. Len(rpcQueue)
          /\ \A w \in Workers : DOMAIN replyQueue[w] = 1 .. Len(replyQueue[w])
      BY QueueLengths, LenProperties DEF CallsInv, TypeInv
    <3>2. reply # t
      BY DEF Custody, AtServer
    <3>3. \A w \in Workers : inHand[w] # t
      BY DEF Custody, AtWorkers
    <3>4. \A i \in Nat : ~ReturnAt(t, i)
      BY <3>1 DEF Custody, InReturns, ReturnAt
    <3>5. ASSUME NEW w \in Workers, NEW i \in Nat
          PROVE  ~ReplyAt(t, w, i)
      <4>1. InReplies(t) = {}
        BY DEF Custody
      <4>2. ReplyAt(t, w, i) => <<"reply", w, i>> \in InReplies(t)
        BY <3>1 DEF InReplies, ReplyAt
      <4>3. QED
        BY <4>1, <4>2
    <3>6. QED
      BY <3>2, <3>3, <3>4, <3>5 DEF Safe, Coming
  <2>2. /\ IsFiniteSet(GoneTasks) /\ IsFiniteSet(SpareRequests)
        /\ Cardinality(GoneTasks) + Cardinality(SpareRequests) <= faults
    BY DEF Budget
  <2>3. /\ Cardinality(GoneTasks) \in Nat /\ Cardinality(SpareRequests) \in Nat
        /\ Cardinality(Lost) \in Nat /\ Cardinality(Lost) <= Cardinality(GoneTasks)
        /\ faults \in Nat
    BY <2>1, <2>2, SetShrinks, FS_CardinalityType, FaultsType DEF CallsInv
  <2>4. QED
    BY <2>2, <2>3
<1>3. QED
  BY <1>1, <1>2, InitLossInv, CallsInvariance, PTL DEF Spec
===============================================================================
