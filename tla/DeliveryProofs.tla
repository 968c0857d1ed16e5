----------------------------- MODULE DeliveryProofs -----------------------------
(* One send per lock session and truthful statuses, for any number of children *)
(* and readers, any modes of the proxy and any number of lost sessions.        *)
EXTENDS Delivery, FiniteSetTheorems, TLAPS

-----------------------------------------------------------------------------
(* The inductive invariant. *)

\* One request at the proxy: where an answer can come from.  A refused connection
\* put nothing on the wire, and the node's word about the bytes is true.
RequestOK(c) ==
  LET r == request[c] IN
  /\ r # NoRequest => r.method \in Methods /\ r.stage # "NONE"
  /\ r.method = "send" => c \in Children
  /\ r.answer = "EXPECTED" => taken
  /\ r.answer = "REFUSED" => r.stage = "DONE"
  /\ (r.answer = "REFUSED" \/ r = NoRequest) => c \notin wire
  /\ r.method = "send" /\ (r.forwarded \/ r.stage \in {"RESPONDED", "HELD"}) => taken

\* One child: what it has concluded, and what it has left behind in the row.
ChildOK(c) ==
  /\ verdict[c] = "ACCEPTED" => taken
  /\ verdict[c] = "REJECTED" => senderProves /\ request[c].answer = "REFUSED"
  /\ report[c] = "OK" => attempt = "ACCEPTED"
  /\ (child[c] \in {"SEND", "WAIT", "FINISH"} \/ request[c] # NoRequest)
       => attempt # "NONE"
  /\ child[c] = "FINISH" => verdict[c] # "NONE"

\* The row and the node.
AttemptOK ==
  /\ attempt = "ACCEPTED" => taken
  /\ attempt = "REJECTED" =>
       senderProves /\ \E c \in Children : request[c].answer = "REFUSED"
  /\ taken => \E c \in Children : request[c].method = "send"
                                    /\ request[c].answer # "REFUSED"

Running == {c \in Children : child[c] \in {"FIND", "START", "SEND", "WAIT", "FINISH"}}

\* Children that go on although their session, and with it the lock, is gone.
Astray == Running \ {lock}

\* Children that have sent or can still come to send: they saw no attempt.
Committed ==
  {c \in Children : child[c] \in {"START", "SEND"} \/ request[c] # NoRequest}

\* Nobody is astray without a lost session; those who saw no attempt before it
\* was recorded are the holder of the lock and those astray.
SessionsOK ==
  /\ lock # None => lock \in Running
  /\ Cardinality(Astray) <= lost
  /\ Cardinality(Committed) <= 1 + lost

DeliveryInv ==
  /\ DeliveryTypeOK
  /\ \A c \in Clients : RequestOK(c)
  /\ \A c \in Children : ChildOK(c)
  /\ AttemptOK
  /\ SessionsOK

-----------------------------------------------------------------------------
(* The proxy, the node and the harness. *)

RequestRows ==
  [method    : Methods \union {"NONE"},
   mode      : FAULT_PROXY_MODES \union {"NONE"},
   stage     : {"NONE", "UPSTREAM", "RESPONDED", "HELD", "DONE"},
   answer    : Answers,
   forwarded : BOOLEAN]

\* What an answered request keeps, and what an answer may become on the way back.
LEMMA AnswerTypes ==
  ASSUME NEW r \in RequestRows, NEW answer \in Answers
  PROVE  /\ Answered(r, answer) \in RequestRows
         /\ Answered(r, answer).stage = "DONE"
         /\ Answered(r, answer).answer = answer
         /\ Answered(r, answer).method = r.method
         /\ Answered(r, answer).forwarded = r.forwarded
         /\ mutateResponse(r) \in Answers
         /\ mutateResponse(r) = "EXPECTED" => r.answer = "EXPECTED"
         /\ mutateResponse(r) = "REFUSED" => r.answer = "REFUSED"
BY DEF RequestRows, Answered, mutateResponse, Answers

\* The rule for a request is a mode, whatever the harness has set.
LEMMA RuleTypes ==
  ASSUME ProxyTypeOK, NEW method \in Methods
  PROVE  ruleFor(method) \in FAULT_PROXY_MODES
BY DEF ProxyTypeOK, ruleFor, FAULT_PROXY_MODES

\* Setting a rule keeps the table of rules.
LEMMA RulesTyped ==
  ASSUME NEW old \in [Methods \union {"*"} -> FAULT_PROXY_MODES \union {"NONE"}],
         NEW mode \in FAULT_PROXY_MODES, NEW method \in MethodOptions
  PROVE  RulesAfter(old, mode, method)
           \in [Methods \union {"*"} -> FAULT_PROXY_MODES \union {"NONE"}]
<1>1. methodForMode(mode) \in Methods \union {"*"}
  BY DEF methodForMode, Methods
<1>2. method \in Methods \union {"*", "DEFAULT"}
  BY FaultProxyAssumption DEF Methods
<1> QED BY <1>1, <1>2 DEF RulesAfter, NoRules

\* A step that nobody asked for through a new request: it answers, drops or
\* alters, but no request appears, disappears or changes what it asked.
SameRequest(c) ==
  /\ request[c] = NoRequest => request'[c] = NoRequest
  /\ request[c] # NoRequest =>
       /\ request'[c] # NoRequest
       /\ request'[c].method = request[c].method
       /\ request'[c].answer = "REFUSED" <=> request[c].answer = "REFUSED"

ProxyEffect ==
  /\ ProxyTypeOK'
  /\ \A c \in Clients : RequestOK(c)' /\ SameRequest(c)
  /\ taken => taken'
  /\ taken' => taken \/ \E c \in Children : request[c].method = "send"
                                              /\ request[c].answer # "REFUSED"

\* The rewriting of one request that keeps its method and does not refuse it.
Rewritten(c, r) ==
  /\ r \in RequestRows
  /\ r.method = request[c].method
  /\ r.stage # "NONE" /\ r.answer # "REFUSED"
  /\ r.answer = "EXPECTED" => taken'
  /\ r.method = "send" /\ (r.forwarded \/ r.stage \in {"RESPONDED", "HELD"}) => taken'

\* It is all that most steps do.
LEMMA RewriteEffect ==
  ASSUME ProxyTypeOK, \A d \in Clients : RequestOK(d), NEW c \in Clients, NEW r,
         Rewritten(c, r), request[c] # NoRequest, request[c].answer # "REFUSED",
         request' = [request EXCEPT ![c] = r],
         UNCHANGED <<rules, released, modeChanges>>, up' \in BOOLEAN, wire' \subseteq wire,
         taken' \in BOOLEAN, taken => taken',
         taken' => taken \/ request[c].method = "send"
  PROVE  ProxyEffect
<1>1. request \in [Clients -> RequestRows] /\ request' \in [Clients -> RequestRows]
  BY DEF ProxyTypeOK, RequestRows, Rewritten
<1>2. request'[c] = r /\ \A d \in Clients \ {c} : request'[d] = request[d]
  BY <1>1
<1>3. ProxyTypeOK'
  BY <1>1 DEF ProxyTypeOK, RequestRows
<1>4. request[c].method \in Methods /\ RequestOK(c)
  BY DEF RequestOK
<1>5. ASSUME NEW d \in Clients \ {c} PROVE RequestOK(d)' /\ SameRequest(d)
  <2>1. RequestOK(d) /\ request'[d] = request[d]
    BY <1>2
  <2> QED BY <2>1 DEF RequestOK, SameRequest
<1>6. r # NoRequest
  BY <1>4 DEF Rewritten, NoRequest, Methods
<1>7. RequestOK(c)' /\ SameRequest(c)
  BY <1>2, <1>4, <1>6 DEF RequestOK, SameRequest, Rewritten
<1>8. taken' => taken \/ \E d \in Children : request[d].method = "send"
                                               /\ request[d].answer # "REFUSED"
  BY <1>4 DEF RequestOK
<1> QED BY <1>3, <1>5, <1>7, <1>8 DEF ProxyEffect

\* A request that is under way has been made, and was not refused.
LEMMA UnderWay ==
  ASSUME ProxyTypeOK, NEW c \in Clients, RequestOK(c),
         c \in wire \/ request[c].stage \in {"UPSTREAM", "RESPONDED", "HELD"}
  PROVE  /\ request[c] # NoRequest /\ request[c].answer # "REFUSED"
         /\ request[c].method \in Methods /\ request[c] \in RequestRows
BY DEF RequestOK, NoRequest, ProxyTypeOK, RequestRows

\* The node has the bytes once it has handled a send, and says so truthfully.
LEMMA NodeEffect ==
  ASSUME ProxyTypeOK, \A d \in Clients : RequestOK(d), NEW c \in Clients, NodeHandles(c)
  PROVE  ProxyEffect
<1> DEFINE answer == CASE request[c].method # "send" -> "CHAIN"
                       [] taken -> "ERROR"
                       [] OTHER -> "EXPECTED"
           r == IF request[c].stage = "UPSTREAM"
                THEN [request[c] EXCEPT !.stage = "RESPONDED", !.answer = answer]
                ELSE request[c]
<1>1. c \in wire /\ request' = [request EXCEPT ![c] = r]
      /\ taken' = (taken \/ request[c].method = "send")
      /\ wire' \subseteq wire /\ UNCHANGED <<rules, released, up, modeChanges>>
  BY DEF NodeHandles
<1>2. /\ request[c] # NoRequest /\ request[c].answer # "REFUSED"
      /\ request[c] \in RequestRows /\ RequestOK(c)
  BY <1>1, UnderWay
<1>3. taken \in BOOLEAN /\ up \in BOOLEAN
  BY DEF ProxyTypeOK
<1>4. answer \in {"CHAIN", "ERROR", "EXPECTED"}
      /\ (answer = "EXPECTED" => taken' = TRUE)
  BY <1>1, <1>3
<1>5. Rewritten(c, r)
  <2>1. CASE request[c].stage = "UPSTREAM"
    <3> HIDE DEF answer
    <3> QED BY <1>1, <1>2, <1>3, <1>4, <2>1 DEF Rewritten, RequestRows, Answers, RequestOK
  <2>2. CASE request[c].stage # "UPSTREAM"
    BY <1>1, <1>2, <1>3, <2>2 DEF Rewritten, RequestOK
  <2> QED BY <2>1, <2>2
<1> HIDE DEF r
<1>6. taken' \in BOOLEAN /\ (taken => taken') /\ (taken' => taken \/ request[c].method = "send")
  BY <1>1, <1>3
<1> QED BY <1>1, <1>2, <1>3, <1>5, <1>6, RewriteEffect

\* What is lost, or comes back broken, is answered by a closed connection.
LEMMA FailEffect ==
  ASSUME ProxyTypeOK, \A d \in Clients : RequestOK(d), NEW c \in Clients,
         LostOnWire(c) \/ ForwardFails(c)
  PROVE  ProxyEffect
<1> DEFINE r == Answered(request[c], "CLOSED")
<1>1. /\ request[c] # NoRequest /\ request[c].answer # "REFUSED"
      /\ request[c] \in RequestRows /\ RequestOK(c)
  BY UnderWay DEF LostOnWire, ForwardFails
<1>2. taken \in BOOLEAN /\ up \in BOOLEAN /\ request \in [Clients -> RequestRows]
  BY DEF ProxyTypeOK, RequestRows
<1>3. /\ UNCHANGED <<rules, released, modeChanges, up, taken>> /\ wire' \subseteq wire
      /\ request' \in {[request EXCEPT ![c] = r], [request EXCEPT ![c] = request[c]]}
  BY <1>1, <1>2 DEF LostOnWire, ForwardFails
<1>4. Rewritten(c, r)
  <2>1. r \in RequestRows /\ r.stage = "DONE" /\ r.answer = "CLOSED"
        /\ r.method = request[c].method /\ r.forwarded = request[c].forwarded
    BY <1>1, AnswerTypes DEF Answers
  <2> HIDE DEF r
  <2> QED BY <1>1, <1>2, <1>3, <2>1 DEF Rewritten, RequestOK
<1>5. Rewritten(c, request[c])
  BY <1>1, <1>3 DEF Rewritten, RequestOK
<1> HIDE DEF r
<1> QED BY <1>1, <1>2, <1>3, <1>4, <1>5, RewriteEffect

\* An answer on its way back is dropped, withheld, altered or passed on, by the
\* mode the request was met with.
LEMMA ReturnEffect ==
  ASSUME ProxyTypeOK, \A d \in Clients : RequestOK(d), NEW c \in Clients,
         ForwardReturns(c)
  PROVE  ProxyEffect
<1> DEFINE q == [request[c] EXCEPT !.forwarded = TRUE]
<1>1. /\ request[c] # NoRequest /\ request[c].answer # "REFUSED"
      /\ request[c] \in RequestRows /\ RequestOK(c) /\ request[c].stage = "RESPONDED"
  BY UnderWay DEF ForwardReturns
<1>2. taken \in BOOLEAN /\ up \in BOOLEAN /\ (request[c].method = "send" => taken)
  BY <1>1 DEF ProxyTypeOK, RequestOK
<1>3. /\ q \in RequestRows /\ q.method = request[c].method
      /\ q.answer = request[c].answer /\ q.forwarded
  BY <1>1 DEF RequestRows
<1>4. PICK r \in {Answered(q, "CLOSED"), [q EXCEPT !.stage = "HELD"],
                  Answered(q, mutateResponse(q))} :
        request' = [request EXCEPT ![c] = r]
  BY DEF ForwardReturns
<1>5. /\ UNCHANGED <<rules, released, modeChanges, wire, taken>> /\ up' \in BOOLEAN
  BY <1>2 DEF ForwardReturns
<1> HIDE DEF q
<1>6. Rewritten(c, r)
  <2>1. CASE r = [q EXCEPT !.stage = "HELD"]
    BY <1>1, <1>2, <1>3, <1>5, <2>1 DEF Rewritten, RequestOK, RequestRows
  <2>2. CASE r \in {Answered(q, "CLOSED"), Answered(q, mutateResponse(q))}
    <3>1. PICK answer \in Answers :
            /\ r = Answered(q, answer)
            /\ answer = "EXPECTED" => q.answer = "EXPECTED"
            /\ answer = "REFUSED" => q.answer = "REFUSED"
      BY <1>3, <2>2, AnswerTypes DEF Answers
    <3>2. /\ r \in RequestRows /\ r.stage = "DONE" /\ r.answer = answer
          /\ r.method = q.method
      BY <1>3, <3>1, AnswerTypes
    <3> QED BY <1>1, <1>2, <1>3, <1>5, <3>1, <3>2 DEF Rewritten, RequestOK
  <2> QED BY <1>4, <2>1, <2>2
<1> QED BY <1>1, <1>2, <1>4, <1>5, <1>6, RewriteEffect

\* The harness changes rules, lets withheld answers go, or closes the proxy.
LEMMA HarnessEffect ==
  ASSUME ProxyTypeOK, \A d \in Clients : RequestOK(d), HarnessStep
  PROVE  ProxyEffect
<1>1. ASSUME NEW mode \in FAULT_PROXY_MODES, NEW method \in MethodOptions,
             SetMode(mode, method)
      PROVE  ProxyEffect
  <2>1. rules' \in [Methods \union {"*"} -> FAULT_PROXY_MODES \union {"NONE"}]
    BY <1>1, RulesTyped DEF SetMode, ProxyTypeOK
  <2>2. ProxyTypeOK'
    BY <1>1, <2>1, FaultProxyAssumption DEF SetMode, ProxyTypeOK
  <2> QED BY <1>1, <2>2 DEF SetMode, ProxyEffect, RequestOK, SameRequest
<1>2. ASSUME UNCHANGED <<rules, wire, taken, modeChanges>>,
             up' \in BOOLEAN, released' \in BOOLEAN,
             request' \in [Clients -> RequestRows],
             \A c \in Clients :
               \/ request'[c] = request[c]
               \/ /\ Rewritten(c, request'[c])
                  /\ request[c].stage \in {"UPSTREAM", "RESPONDED", "HELD"}
      PROVE  ProxyEffect
  <2>1. ProxyTypeOK'
    BY <1>2 DEF ProxyTypeOK, RequestRows
  <2>2. ASSUME NEW c \in Clients PROVE RequestOK(c)' /\ SameRequest(c)
    <3>1. CASE request'[c] = request[c]
      <4>1. RequestOK(c)
        OBVIOUS
      <4> QED BY <1>2, <3>1, <4>1 DEF RequestOK, SameRequest
    <3>2. CASE request'[c] # request[c]
      <4>1. /\ Rewritten(c, request'[c]) /\ RequestOK(c)
            /\ request[c] # NoRequest /\ request[c].answer # "REFUSED"
            /\ request[c].method \in Methods
        BY <1>2, <3>2, UnderWay
      <4>2. request'[c] # NoRequest
        BY <4>1 DEF Rewritten, NoRequest, Methods
      <4> QED BY <1>2, <4>1, <4>2 DEF RequestOK, SameRequest, Rewritten
    <3> QED BY <3>1, <3>2
  <2> QED BY <1>2, <2>1, <2>2 DEF ProxyEffect
<1>3. request \in [Clients -> RequestRows] /\ up \in BOOLEAN /\ released \in BOOLEAN
  BY DEF ProxyTypeOK, RequestRows
<1>4. ASSUME NEW c \in Clients, NEW answer \in Answers,
             request[c].stage \in {"UPSTREAM", "RESPONDED", "HELD"},
             answer = "EXPECTED" => request[c].answer = "EXPECTED",
             answer = "REFUSED" => request[c].answer = "REFUSED",
             UNCHANGED taken
      PROVE  /\ Answered(request[c], answer) \in RequestRows
             /\ Rewritten(c, Answered(request[c], answer))
  <2>1. request[c] \in RequestRows /\ RequestOK(c) /\ request[c].answer # "REFUSED"
    BY <1>4, UnderWay
  <2> DEFINE r == Answered(request[c], answer)
  <2>2. r \in RequestRows /\ r.stage = "DONE" /\ r.answer = answer
        /\ r.method = request[c].method /\ r.forwarded = request[c].forwarded
    BY <2>1, AnswerTypes
  <2> HIDE DEF r
  <2>3. r \in RequestRows /\ Rewritten(c, r)
    BY <1>4, <2>1, <2>2 DEF Rewritten, RequestOK
  <2> QED BY <2>3 DEF r
<1>5. CASE ReleaseReceipt
  <2>1. \A c \in Clients : request[c] \in RequestRows =>
          /\ mutateResponse(request[c]) \in Answers
          /\ mutateResponse(request[c]) = "EXPECTED" => request[c].answer = "EXPECTED"
          /\ mutateResponse(request[c]) = "REFUSED" => request[c].answer = "REFUSED"
    BY AnswerTypes DEF Answers
  <2>2. ASSUME NEW c \in Clients
        PROVE  /\ request'[c] \in RequestRows
               /\ \/ request'[c] = request[c]
                  \/ /\ Rewritten(c, request'[c])
                     /\ request[c].stage \in {"UPSTREAM", "RESPONDED", "HELD"}
    BY <1>3, <1>4, <1>5, <2>1 DEF ReleaseReceipt
  <2>3. request' \in [Clients -> RequestRows]
    BY <1>5, <2>2 DEF ReleaseReceipt
  <2> QED BY <1>2, <1>3, <1>5, <2>2, <2>3 DEF ReleaseReceipt
<1>6. CASE Close
  <2>1. ASSUME NEW c \in Clients
        PROVE  /\ request'[c] \in RequestRows
               /\ \/ request'[c] = request[c]
                  \/ /\ Rewritten(c, request'[c])
                     /\ request[c].stage \in {"UPSTREAM", "RESPONDED", "HELD"}
    BY <1>3, <1>4, <1>6 DEF Close, Answers
  <2>2. request' \in [Clients -> RequestRows]
    BY <1>6, <2>1 DEF Close
  <2> QED BY <1>2, <1>6, <2>1, <2>2 DEF Close
<1> QED BY <1>1, <1>5, <1>6 DEF HarnessStep

\* A new request: answered at once, or on the wire.
LEMMA RequestEffect ==
  ASSUME ProxyTypeOK, \A d \in Clients : RequestOK(d), NEW c \in Clients,
         NEW method \in Methods, method = "send" => c \in Children, Request(c, method)
  PROVE  /\ ProxyTypeOK'
         /\ \A d \in Clients : RequestOK(d)'
         /\ \A d \in Clients \ {c} : request'[d] = request[d]
         /\ request[c] = NoRequest /\ request'[c] # NoRequest
         /\ request'[c].method = method
         /\ UNCHANGED <<taken, modeChanges>>
<1> DEFINE q == [NoRequest EXCEPT !.method = method, !.mode = ruleFor(method)]
           n == [NoRequest EXCEPT !.method = method]
<1>1. /\ q \in RequestRows /\ q.method = method /\ q.answer = "NONE" /\ ~q.forwarded
      /\ n \in RequestRows /\ n.method = method /\ ~n.forwarded
      /\ [q EXCEPT !.stage = "UPSTREAM"] \in RequestRows
  BY RuleTypes DEF NoRequest, RequestRows, Answers
<1>2. /\ request[c] = NoRequest /\ UNCHANGED <<rules, released, taken, modeChanges>>
      /\ \/ /\ request' = [request EXCEPT ![c] = Answered(n, "REFUSED")]
            /\ UNCHANGED <<up, wire>>
         \/ /\ request' \in {[request EXCEPT ![c] = Answered(q, "CLOSED")],
                             [request EXCEPT ![c] = Answered(q, "ERROR")]}
            /\ up' \in BOOLEAN /\ UNCHANGED wire
         \/ /\ request' = [request EXCEPT ![c] = [q EXCEPT !.stage = "UPSTREAM"]]
            /\ wire' = wire \union {c} /\ UNCHANGED up
  BY DEF Request, ProxyTypeOK
<1>3. request \in [Clients -> RequestRows]
  BY DEF ProxyTypeOK, RequestRows
<1>4. c \notin wire
  BY <1>2 DEF RequestOK
<1> HIDE DEF q, n
<1>5. PICK r \in RequestRows :
        /\ request' = [request EXCEPT ![c] = r]
        /\ r.method = method /\ ~r.forwarded
        /\ r.answer # "EXPECTED"
        /\ \/ r.stage = "DONE" /\ wire' = wire
           \/ r.stage = "UPSTREAM" /\ r.answer = "NONE" /\ wire' = wire \union {c}
        /\ up' \in BOOLEAN
  <2>1. CASE request' = [request EXCEPT ![c] = Answered(n, "REFUSED")]
             /\ UNCHANGED <<up, wire>>
    <3>1. /\ Answered(n, "REFUSED") \in RequestRows
          /\ Answered(n, "REFUSED").stage = "DONE"
          /\ Answered(n, "REFUSED").answer = "REFUSED"
          /\ Answered(n, "REFUSED").method = method
          /\ ~Answered(n, "REFUSED").forwarded
      BY <1>1, AnswerTypes DEF Answers
    <3> QED BY <2>1, <3>1 DEF ProxyTypeOK
  <2>2. ASSUME NEW answer \in {"CLOSED", "ERROR"},
               request' = [request EXCEPT ![c] = Answered(q, answer)],
               up' \in BOOLEAN, UNCHANGED wire
        PROVE  \E r \in RequestRows :
                 /\ request' = [request EXCEPT ![c] = r]
                 /\ r.method = method /\ ~r.forwarded
                 /\ r.answer # "EXPECTED"
                 /\ r.stage = "DONE" /\ wire' = wire
                 /\ up' \in BOOLEAN
    <3>1. /\ Answered(q, answer) \in RequestRows
          /\ Answered(q, answer).stage = "DONE"
          /\ Answered(q, answer).answer = answer
          /\ Answered(q, answer).method = method
          /\ ~Answered(q, answer).forwarded
      BY <1>1, AnswerTypes DEF Answers
    <3> QED BY <2>2, <3>1
  <2>3. CASE request' = [request EXCEPT ![c] = [q EXCEPT !.stage = "UPSTREAM"]]
             /\ wire' = wire \union {c} /\ UNCHANGED up
    BY <1>1, <2>3 DEF ProxyTypeOK, RequestRows
  <2> QED BY <1>2, <2>1, <2>2, <2>3
<1>6. request'[c] = r /\ \A d \in Clients \ {c} : request'[d] = request[d]
  BY <1>3, <1>5
<1>7. ProxyTypeOK'
  BY <1>2, <1>3, <1>5 DEF ProxyTypeOK, RequestRows
<1>8. request'[c] # NoRequest
  BY <1>5, <1>6 DEF NoRequest, Methods
<1>9. RequestOK(c)'
  BY <1>2, <1>4, <1>5, <1>6, <1>8 DEF RequestOK
<1>10. ASSUME NEW d \in Clients \ {c} PROVE RequestOK(d)'
  BY <1>2, <1>5, <1>6 DEF RequestOK
<1> QED BY <1>2, <1>5, <1>6, <1>7, <1>8, <1>9, <1>10

-----------------------------------------------------------------------------
(* The children, one action at a time. *)

\* Whatever is neither a child nor a request of a child keeps the invariant.
LEMMA ProxyKeeps ==
  ASSUME DeliveryInv, UNCHANGED childVars, ProxyTypeOK',
         \A c \in Clients : RequestOK(c)',
         \A c \in Children : SameRequest(c),
         taken => taken',
         taken' => taken \/ \E c \in Children : request[c].method = "send"
                                                  /\ request[c].answer # "REFUSED"
  PROVE  DeliveryInv'
<1> USE DEF childVars
<1>1. DeliveryTypeOK'
  BY DEF DeliveryInv, DeliveryTypeOK
<1>2. ASSUME NEW c \in Children PROVE ChildOK(c)'
  <2>1. ChildOK(c) /\ SameRequest(c)
    BY DEF DeliveryInv
  <2> QED BY <2>1 DEF ChildOK, SameRequest, NoRequest
<1>3. AttemptOK'
  <2>1. \A c \in Children : request[c].method = "send" /\ request[c].answer # "REFUSED" =>
          request'[c].method = "send" /\ request'[c].answer # "REFUSED"
    BY DEF SameRequest, NoRequest
  <2>2. \A c \in Children : request[c].answer = "REFUSED" => request'[c].answer = "REFUSED"
    BY DEF SameRequest, NoRequest
  <2> QED BY <2>1, <2>2 DEF DeliveryInv, AttemptOK
<1>4. SessionsOK'
  <2>1. Running' = Running /\ Astray' = Astray
    BY DEF Running, Astray
  <2>2. Committed' = Committed
    BY DEF Committed, SameRequest
  <2> QED BY <2>1, <2>2 DEF DeliveryInv, SessionsOK
<1> QED BY <1>1, <1>2, <1>3, <1>4 DEF DeliveryInv

\* Children are finitely many, and so is every set of them.
LEMMA ChildSets ==
  /\ Children \subseteq Clients /\ None \notin Children
  /\ \A S \in SUBSET Children : IsFiniteSet(S) /\ Cardinality(S) \in Nat
  /\ \A S, T \in SUBSET Children : S \subseteq T => Cardinality(S) <= Cardinality(T)
<1>1. Children \subseteq Clients /\ None \notin Children /\ IsFiniteSet(Clients)
  BY DeliveryAssumption, FaultProxyAssumption
<1>2. \A S \in SUBSET Children : IsFiniteSet(S)
  BY <1>1, FS_Subset
<1> QED BY <1>1, <1>2, FS_CardinalityType, FS_Subset

\* The sets of children, and the numbers that bound them, stay what they are.
LEMMA SetsTyped ==
  ASSUME DeliveryTypeOK
  PROVE  /\ Running \in SUBSET Children /\ Astray \in SUBSET Children
         /\ Committed \in SUBSET Children
         /\ lost \in Nat
         /\ Cardinality(Astray) \in Nat /\ Cardinality(Committed) \in Nat
<1>1. /\ Running \in SUBSET Children /\ Astray \in SUBSET Children
      /\ Committed \in SUBSET Children
  BY DEF Running, Astray, Committed
<1> QED BY <1>1, ChildSets, DeliveryAssumption DEF DeliveryTypeOK

\* A step of one child that neither takes nor loses the lock, sends or commits.
LEMMA SessionsKept ==
  ASSUME DeliveryTypeOK, SessionsOK, lost' = lost,
         Astray' \subseteq Astray, Committed' \subseteq Committed,
         lock' # None => lock' \in Running'
  PROVE  SessionsOK'
<1>1. Cardinality(Astray') <= Cardinality(Astray)
      /\ Cardinality(Committed') <= Cardinality(Committed)
      /\ Cardinality(Astray') \in Nat /\ Cardinality(Committed') \in Nat
  BY SetsTyped, ChildSets
<1> QED BY <1>1, SetsTyped DEF SessionsOK

\* A child that ends, whatever it reports, gives up lock and commitment.
LEMMA ReportSessions ==
  ASSUME DeliveryTypeOK, SessionsOK, NEW c \in Children, NEW status, Reports(c, status),
         UNCHANGED <<request, lost>>
  PROVE  SessionsOK'
<1>1. /\ child'[c] = "ENDED" /\ \A d \in Children \ {c} : child'[d] = child[d]
      /\ lock' = IF lock = c THEN None ELSE lock
  BY DEF Reports, Unlocked, DeliveryTypeOK
<1>2. Running' = Running \ {c}
  BY <1>1 DEF Running
<1>3. lock' # None => lock' \in Running'
  BY <1>1, <1>2 DEF SessionsOK
<1>4. Astray' \subseteq Astray
  BY <1>1, <1>2 DEF Astray
<1>5. Committed' \subseteq Committed
  BY <1>1 DEF Committed
<1> QED BY <1>3, <1>4, <1>5, SessionsKept

\* Requests are judged by the proxy's own variables.
LEMMA RequestsStay ==
  ASSUME DeliveryInv, UNCHANGED proxyVars
  PROVE  ProxyTypeOK' /\ \A c \in Clients : RequestOK(c)'
BY DEF DeliveryInv, DeliveryTypeOK, ProxyTypeOK, RequestOK, proxyVars

\* A child ends and reports the row as it is, or nothing.
LEMMA ReportKeeps ==
  ASSUME DeliveryInv, NEW c \in Children, NEW status \in Statuses \union {"NONE", "STARTED"},
         Reports(c, status), status = "ACCEPTED" => attempt = "ACCEPTED",
         UNCHANGED <<proxyVars, attempt, verdict, lost, senderProves>>
  PROVE  DeliveryInv'
<1> USE DEF proxyVars
<1>1. /\ child'[c] = "ENDED" /\ \A d \in Children \ {c} : child'[d] = child[d]
      /\ report'[c] = "OK" => attempt = "ACCEPTED"
      /\ \A d \in Children \ {c} : report'[d] = report[d]
  BY DEF Reports, DeliveryInv, DeliveryTypeOK
<1>2. DeliveryTypeOK'
  BY RequestsStay DEF DeliveryInv, DeliveryTypeOK, Reports, Unlocked
<1>3. ASSUME NEW d \in Children PROVE ChildOK(d)'
  <2>1. ChildOK(d)
    BY DEF DeliveryInv
  <2> QED BY <1>1, <2>1 DEF ChildOK
<1>4. AttemptOK'
  BY DEF DeliveryInv, AttemptOK
<1>5. SessionsOK'
  BY ReportSessions DEF DeliveryInv
<1> QED BY <1>2, <1>3, <1>4, <1>5, RequestsStay DEF DeliveryInv

\* A child is started, or dies.
LEMMA ProcessKeeps ==
  ASSUME DeliveryInv, NEW c \in Children, Spawn(c) \/ ChildDies(c)
  PROVE  DeliveryInv'
<1> USE DEF proxyVars
<1>1. CASE Spawn(c)
  <2> USE <1>1 DEF Spawn
  <2>1. child'[c] = "LOCKING" /\ \A d \in Children \ {c} : child'[d] = child[d]
    BY DEF DeliveryInv, DeliveryTypeOK
  <2>2. DeliveryTypeOK'
    BY RequestsStay DEF DeliveryInv, DeliveryTypeOK
  <2>3. ASSUME NEW d \in Children PROVE ChildOK(d)'
    <3>1. ChildOK(d)
      BY DEF DeliveryInv
    <3> QED BY <2>1, <3>1 DEF ChildOK
  <2>4. AttemptOK'
    BY DEF DeliveryInv, AttemptOK
  <2>5. Running' = Running /\ Committed' = Committed
    BY <2>1 DEF Running, Committed
  <2>6. SessionsOK'
    BY <2>5 DEF DeliveryInv, SessionsOK, Astray
  <2> QED BY <2>2, <2>3, <2>4, <2>6, RequestsStay DEF DeliveryInv
<1>2. CASE ChildDies(c)
  BY <1>2, ReportKeeps DEF ChildDies, Statuses
<1> QED BY <1>1, <1>2

\* Taking the lock puts nobody astray.
LEMMA LockKeeps ==
  ASSUME DeliveryInv, NEW c \in Children, TakeLock(c)
  PROVE  DeliveryInv'
<1> USE DEF TakeLock, proxyVars
<1>1. child'[c] = "FIND" /\ \A d \in Children \ {c} : child'[d] = child[d]
  BY DEF DeliveryInv, DeliveryTypeOK
<1>2. DeliveryTypeOK'
  BY RequestsStay DEF DeliveryInv, DeliveryTypeOK
<1>3. ASSUME NEW d \in Children PROVE ChildOK(d)'
  <2>1. ChildOK(d)
    BY DEF DeliveryInv
  <2> QED BY <1>1, <2>1 DEF ChildOK
<1>4. AttemptOK'
  BY DEF DeliveryInv, AttemptOK
<1>5. Running' = Running \union {c} /\ Committed' = Committed
  BY <1>1 DEF Running, Committed
<1>6. Astray' \subseteq Astray
  BY <1>5, ChildSets DEF Astray, Running
<1>7. SessionsOK'
  BY <1>5, <1>6, SessionsKept DEF DeliveryInv
<1> QED BY <1>2, <1>3, <1>4, <1>7, RequestsStay DEF DeliveryInv

\* One more child at most: the holder of the lock joins those astray.
LEMMA HolderAdds ==
  ASSUME DeliveryTypeOK, SessionsOK, NEW S \in SUBSET Children, S \subseteq Astray \union {lock}
  PROVE  Cardinality(S) <= 1 + lost
<1>1. lost \in Nat /\ Cardinality(Astray) \in Nat /\ Cardinality(S) \in Nat
      /\ Astray \in SUBSET Children /\ IsFiniteSet(Astray)
  BY SetsTyped, ChildSets
<1>2. CASE lock = None
  <2>1. S \subseteq Astray
    BY <1>2, ChildSets
  <2>2. Cardinality(S) <= Cardinality(Astray)
    BY <1>1, <2>1, ChildSets
  <2> QED BY <1>1, <2>2 DEF SessionsOK
<1>3. CASE lock # None
  <2>1. Astray \union {lock} \in SUBSET Children /\ lock \notin Astray
    BY <1>1, <1>3 DEF DeliveryTypeOK, Astray
  <2>2. Cardinality(S) <= Cardinality(Astray \union {lock})
    BY <2>1, ChildSets
  <2>3. Cardinality(Astray \union {lock}) = Cardinality(Astray) + 1
    BY <1>1, <2>1, FS_AddElement
  <2> QED BY <1>1, <2>2, <2>3 DEF SessionsOK
<1> QED BY <1>2, <1>3

\* A child that sees no attempt is one of those that took the lock before the row
\* was written.
LEMMA FindKeeps ==
  ASSUME DeliveryInv, NEW c \in Children, FindAttempt(c)
  PROVE  DeliveryInv'
<1> USE DEF FindAttempt, proxyVars
<1>1. CASE attempt # "NONE" /\ Reports(c, attempt)
  BY <1>1, ReportKeeps DEF DeliveryInv, DeliveryTypeOK
<1>2. CASE attempt = "NONE" /\ child' = [child EXCEPT ![c] = "START"]
           /\ UNCHANGED <<lock, report>>
  <2>1. child'[c] = "START" /\ \A d \in Children \ {c} : child'[d] = child[d]
    BY <1>2 DEF DeliveryInv, DeliveryTypeOK
  <2>2. DeliveryTypeOK'
    BY <1>2, RequestsStay DEF DeliveryInv, DeliveryTypeOK
  <2>3. ASSUME NEW d \in Children PROVE ChildOK(d)'
    <3>1. ChildOK(d)
      BY DEF DeliveryInv
    <3> QED BY <1>2, <2>1, <3>1 DEF ChildOK
  <2>4. AttemptOK'
    BY <1>2 DEF DeliveryInv, AttemptOK
  <2>5. Running' = Running /\ Astray' = Astray
    BY <1>2, <2>1 DEF Running, Astray
  <2>6. Committed' \subseteq Running
    BY <1>2, <2>1 DEF Committed, Running, DeliveryInv, ChildOK
  <2>7. Cardinality(Committed') <= 1 + lost
    BY <2>6, HolderAdds DEF Astray, Running, DeliveryInv
  <2>8. SessionsOK'
    BY <1>2, <2>5, <2>7 DEF SessionsOK, DeliveryInv
  <2> QED BY <2>2, <2>3, <2>4, <2>8, RequestsStay DEF DeliveryInv
<1> QED BY <1>1, <1>2

\* The row is written, or found as somebody astray has left it.
LEMMA StartKeeps ==
  ASSUME DeliveryInv, NEW c \in Children, StartAttempt(c)
  PROVE  DeliveryInv'
<1> USE DEF StartAttempt, proxyVars
<1>1. CASE attempt \in Statuses /\ Reports(c, attempt) /\ UNCHANGED attempt
  BY <1>1, ReportKeeps DEF DeliveryInv
<1>2. CASE /\ attempt \in {"NONE", "STARTED"} /\ attempt' = "STARTED"
           /\ child' = [child EXCEPT ![c] = "SEND"] /\ UNCHANGED <<lock, report>>
  <2>1. child'[c] = "SEND" /\ \A d \in Children \ {c} : child'[d] = child[d]
    BY <1>2 DEF DeliveryInv, DeliveryTypeOK
  <2>2. DeliveryTypeOK'
    BY <1>2, RequestsStay DEF DeliveryInv, DeliveryTypeOK
  <2>3. ASSUME NEW d \in Children PROVE ChildOK(d)'
    <3>1. ChildOK(d)
      BY DEF DeliveryInv
    <3> QED BY <1>2, <2>1, <3>1 DEF ChildOK
  <2>4. AttemptOK'
    BY <1>2 DEF DeliveryInv, AttemptOK
  <2>5. Running' = Running /\ Astray' = Astray /\ Committed' = Committed
    BY <1>2, <2>1 DEF Running, Astray, Committed
  <2>6. SessionsOK'
    BY <1>2, <2>5 DEF DeliveryInv, SessionsOK
  <2> QED BY <2>2, <2>3, <2>4, <2>6, RequestsStay DEF DeliveryInv
<1> QED BY <1>1, <1>2

\* The send: the child was committed before it.
LEMMA SendKeeps ==
  ASSUME DeliveryInv, NEW c \in Children, SendRawTransaction(c)
  PROVE  DeliveryInv'
<1> USE DEF SendRawTransaction
<1>1. child'[c] = "WAIT" /\ \A d \in Children \ {c} : child'[d] = child[d]
  BY DEF DeliveryInv, DeliveryTypeOK
<1>2. /\ ProxyTypeOK'
      /\ \A d \in Clients : RequestOK(d)'
      /\ \A d \in Clients \ {c} : request'[d] = request[d]
      /\ request[c] = NoRequest /\ request'[c] # NoRequest
      /\ request'[c].method = "send"
      /\ UNCHANGED <<taken, modeChanges>>
  BY RequestEffect, ChildSets DEF DeliveryInv, DeliveryTypeOK, Methods
<1>3. DeliveryTypeOK'
  BY <1>2 DEF DeliveryInv, DeliveryTypeOK
<1>4. request[c].answer = "NONE" /\ request[c].method = "NONE"
  BY <1>2 DEF NoRequest
<1>5. ASSUME NEW d \in Children PROVE ChildOK(d)'
  <2>1. ChildOK(d)
    BY DEF DeliveryInv
  <2> QED BY <1>1, <1>2, <1>4, <2>1, ChildSets DEF ChildOK
<1>6. AttemptOK'
  <2>1. \A d \in Children : request[d].method = "send" \/ request[d].answer = "REFUSED"
                              => request'[d] = request[d]
    BY <1>2, <1>4, ChildSets
  <2> QED BY <1>2, <2>1 DEF DeliveryInv, AttemptOK
<1>7. Running' = Running /\ Astray' = Astray
  BY <1>1 DEF Running, Astray
<1>8. Committed' = Committed
  BY <1>1, <1>2, ChildSets DEF Committed
<1>9. SessionsOK'
  BY <1>7, <1>8 DEF DeliveryInv, SessionsOK
<1> QED BY <1>2, <1>3, <1>5, <1>6, <1>9 DEF DeliveryInv

\* The classification believes only what the node or the socket has proved.
LEMMA ClassifyKeeps ==
  ASSUME DeliveryInv, NEW c \in Children, ClassifyAnswer(c)
  PROVE  DeliveryInv'
<1> USE DEF ClassifyAnswer, proxyVars
<1>1. /\ child'[c] = "FINISH" /\ \A d \in Children \ {c} : child'[d] = child[d]
      /\ \A d \in Children \ {c} : verdict'[d] = verdict[d]
  BY DEF DeliveryInv, DeliveryTypeOK
<1>2. \/ verdict' = [verdict EXCEPT ![c] = "UNKNOWN"]
      \/ verdict' = [verdict EXCEPT ![c] = Classify(request[c].answer)]
  OBVIOUS
<1>3. /\ verdict'[c] \in Statuses
      /\ verdict'[c] = "ACCEPTED" => request[c].answer = "EXPECTED"
      /\ verdict'[c] = "REJECTED" => request[c].answer = "REFUSED" /\ senderProves
  BY <1>2 DEF DeliveryInv, DeliveryTypeOK, Classify, Statuses
<1>4. DeliveryTypeOK'
  BY <1>2, <1>3, RequestsStay DEF DeliveryInv, DeliveryTypeOK
<1>5. RequestOK(c)
  BY ChildSets DEF DeliveryInv
<1>6. ASSUME NEW d \in Children PROVE ChildOK(d)'
  <2>1. ChildOK(d)
    BY DEF DeliveryInv
  <2> QED BY <1>1, <1>3, <1>5, <2>1 DEF ChildOK, RequestOK, Statuses
<1>7. AttemptOK'
  BY DEF DeliveryInv, AttemptOK
<1>8. Running' = Running /\ Astray' = Astray /\ Committed' = Committed
  BY <1>1 DEF Running, Astray, Committed
<1>9. SessionsOK'
  BY <1>8 DEF DeliveryInv, SessionsOK
<1> QED BY <1>4, <1>6, <1>7, <1>9, RequestsStay DEF DeliveryInv

\* A verdict is written once; a second one meets the trigger.
LEMMA FinishKeeps ==
  ASSUME DeliveryInv, NEW c \in Children, FinishAttempt(c)
  PROVE  DeliveryInv'
<1> USE DEF FinishAttempt, proxyVars
<1>1. CASE Reports(c, "NONE") /\ UNCHANGED attempt
  BY <1>1, ReportKeeps DEF Statuses
<1>2. CASE attempt = "STARTED" /\ attempt' = verdict[c] /\ Reports(c, verdict[c])
  <2>1. /\ child'[c] = "ENDED" /\ \A d \in Children \ {c} : child'[d] = child[d]
        /\ report'[c] = "OK" => verdict[c] = "ACCEPTED"
        /\ \A d \in Children \ {c} : report'[d] = report[d]
    BY <1>2 DEF Reports, DeliveryInv, DeliveryTypeOK
  <2>2. ChildOK(c) /\ verdict[c] \in Statuses
    BY DEF DeliveryInv, DeliveryTypeOK, ChildOK
  <2>3. DeliveryTypeOK'
    BY <1>2, <2>2, RequestsStay DEF DeliveryInv, DeliveryTypeOK, Reports, Unlocked
  <2>4. ASSUME NEW d \in Children PROVE ChildOK(d)'
    <3>1. ChildOK(d)
      BY DEF DeliveryInv
    <3> QED BY <1>2, <2>1, <2>2, <3>1 DEF ChildOK, Statuses
  <2>5. AttemptOK'
    BY <1>2, <2>2 DEF DeliveryInv, AttemptOK, ChildOK
  <2>6. SessionsOK'
    BY <1>2, ReportSessions DEF DeliveryInv
  <2> QED BY <2>3, <2>4, <2>5, <2>6, RequestsStay DEF DeliveryInv
<1> QED BY <1>1, <1>2

\* A lost session leaves one more child astray.
LEMMA LoseKeeps ==
  ASSUME DeliveryInv, LoseLockSession
  PROVE  DeliveryInv'
<1> USE DEF LoseLockSession, proxyVars
<1>1. lost \in Nat /\ modeChanges \in Nat /\ MaxFaults \in Nat
  BY DeliveryAssumption, FaultProxyAssumption DEF DeliveryInv, DeliveryTypeOK, ProxyTypeOK
<1>2. DeliveryTypeOK'
  BY <1>1, RequestsStay DEF DeliveryInv, DeliveryTypeOK
<1>3. ASSUME NEW d \in Children PROVE ChildOK(d)'
  <2>1. ChildOK(d)
    BY DEF DeliveryInv
  <2> QED BY <2>1 DEF ChildOK
<1>4. AttemptOK'
  BY DEF DeliveryInv, AttemptOK
<1>5. SessionsOK'
  <2>1. Running' = Running /\ Committed' = Committed
    BY DEF Running, Committed
  <2>2. Astray' \subseteq Astray \union {lock} /\ Astray' \in SUBSET Children
    BY <2>1 DEF Astray, Running
  <2>3. Cardinality(Astray') <= 1 + lost
    BY <2>2, HolderAdds DEF DeliveryInv
  <2>4. Cardinality(Committed) \in Nat /\ Cardinality(Astray') \in Nat
    BY <2>2, SetsTyped, ChildSets DEF DeliveryInv
  <2>5. Cardinality(Committed) <= 1 + lost
    BY DEF DeliveryInv, SessionsOK
  <2> QED BY <1>1, <2>1, <2>3, <2>4, <2>5 DEF SessionsOK
<1> QED BY <1>2, <1>3, <1>4, <1>5, RequestsStay DEF DeliveryInv

-----------------------------------------------------------------------------
(* The theorems. *)

\* Initially nobody has asked anything.
LEMMA DeliveryInitInv == DeliveryInit => DeliveryInv
<1> SUFFICES ASSUME DeliveryInit PROVE DeliveryInv
  OBVIOUS
<1> USE DEF DeliveryInit, ProxyInit
<1>1. rules \in [Methods \union {"*"} -> FAULT_PROXY_MODES \union {"NONE"}]
  <2>1. NoRules \in [Methods \union {"*"} -> FAULT_PROXY_MODES \union {"NONE"}]
    BY DEF NoRules
  <2> QED BY <2>1, RulesTyped, FaultProxyAssumption
<1>2. DeliveryTypeOK
  <2>1. /\ released \in BOOLEAN /\ up \in BOOLEAN /\ taken \in BOOLEAN
        /\ senderProves \in BOOLEAN
    OBVIOUS
  <2>2. NoRequest \in
          [method    : Methods \union {"NONE"},
           mode      : FAULT_PROXY_MODES \union {"NONE"},
           stage     : {"NONE", "UPSTREAM", "RESPONDED", "HELD", "DONE"},
           answer    : Answers,
           forwarded : BOOLEAN]
    BY DEF NoRequest, Answers
  <2>3. wire \subseteq Clients /\ modeChanges \in 0..MaxModeChanges
    BY FaultProxyAssumption
  <2>4. ProxyTypeOK
    BY <1>1, <2>1, <2>2, <2>3 DEF ProxyTypeOK
  <2>5. /\ child \in [Children -> {"IDLE", "LOCKING", "FIND", "START", "SEND", "WAIT",
                                    "FINISH", "ENDED"}]
        /\ lock \in Children \union {None}
        /\ attempt \in Statuses \union {"NONE", "STARTED"}
        /\ verdict \in [Children -> Statuses \union {"NONE"}]
        /\ report \in [Children -> {"NONE", "OK", "FAILED"}]
        /\ lost \in 0..MaxFaults
    BY DeliveryAssumption
  <2> QED BY <2>1, <2>4, <2>5 DEF DeliveryTypeOK
<1>3. \A c \in Clients : RequestOK(c)
  BY DEF RequestOK, NoRequest
<1>4. (\A c \in Children : ChildOK(c)) /\ AttemptOK
  BY ChildSets DEF ChildOK, AttemptOK
<1>5. Running = {} /\ Committed = {}
  BY ChildSets DEF Running, Committed
<1>6. SessionsOK
  BY <1>5, FS_EmptySet DEF SessionsOK, Astray
<1> QED BY <1>2, <1>3, <1>4, <1>6 DEF DeliveryInv

\* Every step keeps the invariant.
LEMMA DeliveryNextInv ==
  ASSUME DeliveryInv, [DeliveryNext]_deliveryVars
  PROVE  DeliveryInv'
<1>1. ASSUME NEW c \in Children, Spawn(c) \/ ChildStep(c) \/ ChildDies(c)
      PROVE  DeliveryInv'
  BY <1>1, ProcessKeeps, LockKeeps, FindKeeps, StartKeeps, SendKeeps, ClassifyKeeps,
     FinishKeeps DEF ChildStep
<1>2. ASSUME NEW c \in Readers, NEW method \in {"transaction", "receipt"},
             Request(c, method), UNCHANGED childVars
      PROVE  DeliveryInv'
  <2>1. c \in Clients /\ c \notin Children /\ method \in Methods
    BY DeliveryAssumption DEF Methods
  <2>2. /\ ProxyTypeOK' /\ UNCHANGED taken
        /\ \A d \in Clients : RequestOK(d)'
        /\ \A d \in Clients \ {c} : request'[d] = request[d]
    BY <1>2, <2>1, RequestEffect DEF DeliveryInv, DeliveryTypeOK
  <2>3. \A d \in Children : SameRequest(d)
    BY <2>1, <2>2, ChildSets DEF SameRequest
  <2> QED BY <1>2, <2>2, <2>3, ProxyKeeps
<1>3. ASSUME ProxyEffect, UNCHANGED childVars PROVE DeliveryInv'
  BY <1>3, ProxyKeeps, ChildSets DEF ProxyEffect
<1>4. ASSUME NEW c \in Clients, ProxyStep(c), UNCHANGED childVars PROVE DeliveryInv'
  BY <1>3, <1>4, NodeEffect, FailEffect, ReturnEffect
  DEF ProxyStep, DeliveryInv, DeliveryTypeOK
<1>5. ASSUME HarnessStep, UNCHANGED childVars PROVE DeliveryInv'
  BY <1>3, <1>5, HarnessEffect DEF DeliveryInv, DeliveryTypeOK
<1>6. CASE UNCHANGED deliveryVars
  <2>1. UNCHANGED proxyVars /\ UNCHANGED childVars
    BY <1>6 DEF deliveryVars
  <2>2. \A c \in Children : SameRequest(c)
    BY <2>1 DEF proxyVars, SameRequest
  <2> QED BY <2>1, <2>2, RequestsStay, ProxyKeeps DEF proxyVars
<1> QED BY <1>1, <1>2, <1>4, <1>5, <1>6, LoseKeeps DEF DeliveryNext

\* The invariant holds in every behaviour of children, proxy and node.
THEOREM DeliveryHolds == DeliverySpec => []DeliveryInv
BY DeliveryInitInv, DeliveryNextInv, PTL DEF DeliverySpec

\* However children are killed, restarted or run side by side, the bytes are sent
\* at most once for every lock session.
THEOREM SendsAreBounded == DeliverySpec => []OneSendPerLockSession
<1>1. DeliveryInv => OneSendPerLockSession
  <2> SUFFICES ASSUME DeliveryInv PROVE Cardinality(Sends) <= 1 + lost
    BY DEF OneSendPerLockSession
  <2>1. Sends \subseteq Committed /\ Sends \in SUBSET Children
    BY DEF Sends, Committed
  <2>2. /\ Cardinality(Sends) <= Cardinality(Committed) /\ Cardinality(Sends) \in Nat
        /\ Cardinality(Committed) \in Nat /\ lost \in Nat
    BY <2>1, SetsTyped, ChildSets DEF DeliveryInv
  <2>3. Cardinality(Committed) <= 1 + lost
    BY DEF DeliveryInv, SessionsOK
  <2> QED BY <2>2, <2>3
<1> QED BY <1>1, DeliveryHolds, PTL

\* Two children that have both sent are two, and one lost session is the price.
LEMMA TwoSends ==
  ASSUME DeliveryInv, NEW c \in Children, NEW d \in Children, c # d,
         request[c] # NoRequest, request[d] # NoRequest
  PROVE  lost # 0
<1>1. {c, d} \in SUBSET Children /\ {c, d} \subseteq Committed
  BY DEF Committed
<1>2. Cardinality({c, d}) <= Cardinality(Committed) /\ Cardinality(Committed) \in Nat
  BY <1>1, SetsTyped, ChildSets DEF DeliveryInv
<1>3. Cardinality({c, d}) = 2
  <2>1. IsFiniteSet({c}) /\ Cardinality({c}) = 1 /\ {c, d} = {c} \union {d} /\ d \notin {c}
    BY FS_Singleton
  <2> QED BY <2>1, FS_AddElement
<1>4. Cardinality(Committed) <= 1 + lost
  BY DEF DeliveryInv, SessionsOK
<1> QED BY <1>2, <1>3, <1>4

\* What the row says and what the parent is told is true of the node, under every
\* fault of the endpoint and every death of a child.
THEOREM StatusIsTrue == DeliverySpec => []StatusTellsTheTruth
<1>1. DeliveryInv => StatusTellsTheTruth
  <2> SUFFICES ASSUME DeliveryInv PROVE StatusTellsTheTruth
    OBVIOUS
  <2>1. ASSUME attempt = "REJECTED", senderProves => lost = 0
        PROVE  ~taken /\ wire \intersect Children = {}
    <3>1. PICK c \in Children : request[c].answer = "REFUSED"
      BY <2>1 DEF DeliveryInv, AttemptOK
    <3>2. lost = 0 /\ request[c] # NoRequest
      BY <2>1, <3>1 DEF DeliveryInv, AttemptOK, NoRequest
    <3>3. ASSUME taken PROVE FALSE
      <4>1. PICK d \in Children : request[d].method = "send" /\ request[d].answer # "REFUSED"
        BY <3>3 DEF DeliveryInv, AttemptOK
      <4>2. request[d] # NoRequest /\ c # d
        BY <3>1, <4>1 DEF NoRequest
      <4> QED BY <3>2, <4>2, TwoSends
    <3>4. ASSUME NEW d \in wire \intersect Children PROVE FALSE
      <4>1. RequestOK(d)
        BY <3>4, ChildSets DEF DeliveryInv
      <4>2. request[d] # NoRequest /\ c # d
        BY <3>1, <3>4, <4>1 DEF RequestOK
      <4> QED BY <3>2, <3>4, <4>2, TwoSends
    <3> QED BY <3>3, <3>4
  <2>2. /\ attempt = "ACCEPTED" => taken
        /\ \A c \in Children : report[c] = "OK" => attempt = "ACCEPTED"
    BY DEF DeliveryInv, AttemptOK, ChildOK
  <2> QED BY <2>1, <2>2 DEF StatusTellsTheTruth
<1> QED BY <1>1, DeliveryHolds, PTL

\* What the proxy counts as forwarded has reached the node.
THEOREM ForwardedIsTaken == DeliverySpec => []ForwardedReachedNode
<1>1. DeliveryInv => ForwardedReachedNode
  BY DEF DeliveryInv, RequestOK, ForwardedReachedNode
<1> QED BY <1>1, DeliveryHolds, PTL

=============================================================================
