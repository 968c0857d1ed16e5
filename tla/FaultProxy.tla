------------------------------ MODULE FaultProxy ------------------------------
(* adapters/local-anvil/src/fault-proxy.ts: the loopback proxy between a client *)
(* and the node, which drops, refuses, alters or withholds what passes, and the *)
(* node behind it.  A client has one request.  The node is the local chain, so  *)
(* the guard on eth_chainId never refuses it.                                   *)
EXTENDS Naturals, FiniteSets

CONSTANTS
  Clients,         \* who sends a request through the proxy
  StartModes,      \* bound: the modes createFaultProxy is given
  MethodOptions,   \* the method options the harness gives; DEFAULT is none
  MaxModeChanges   \* bound: calls of setMode after the start

VARIABLES
  rules,        \* the mode set for a method, or for "*"
  released,     \* receiptReleased
  up,           \* the server accepts connections: neither crashed nor closed
  request,      \* each client's request as the proxy handles it
  wire,         \* requests on their way to the node
  taken,        \* the node has the signed bytes (external)
  modeChanges   \* calls of setMode so far

proxyVars == <<rules, released, up, request, wire, taken, modeChanges>>

Methods == {"send", "transaction", "receipt"}

FAULT_PROXY_MODES ==
  {"passthrough", "unavailable-before-send", "explicit-rpc-rejection",
   "forward-then-drop", "wrong-transaction-hash", "mutated-transaction",
   "mutated-receipt", "withhold-receipt", "crash-before-send",
   "crash-after-forward"}

ASSUME FaultProxyAssumption ==
  /\ IsFiniteSet(Clients)
  /\ StartModes \subseteq FAULT_PROXY_MODES /\ StartModes # {}
  /\ MethodOptions \subseteq {"send", "transaction", "receipt", "*", "DEFAULT"}
  /\ MaxModeChanges \in Nat

methodForMode(mode) ==
  CASE mode = "passthrough" -> "*"
    [] mode = "mutated-transaction" -> "transaction"
    [] mode \in {"mutated-receipt", "withhold-receipt"} -> "receipt"
    [] OTHER -> "send"

\* What a client gets: the node's own answer (EXPECTED is the hash of the bytes,
\* CHAIN what the chain says), another one, an error, or a closed connection.
Answers == {"NONE", "EXPECTED", "CHAIN", "OTHER_HASH", "ALTERED", "NO_RESULT",
            "ERROR", "CLOSED", "REFUSED"}

NoRequest == [method |-> "NONE", mode |-> "NONE", stage |-> "NONE",
              answer |-> "NONE", forwarded |-> FALSE]

\* Rules, requests and answers stay within their values.
ProxyTypeOK ==
  /\ rules \in [Methods \union {"*"} -> FAULT_PROXY_MODES \union {"NONE"}]
  /\ released \in BOOLEAN /\ up \in BOOLEAN /\ taken \in BOOLEAN
  /\ request \in
       [Clients -> [method    : Methods \union {"NONE"},
                    mode      : FAULT_PROXY_MODES \union {"NONE"},
                    stage     : {"NONE", "UPSTREAM", "RESPONDED", "HELD", "DONE"},
                    answer    : Answers,
                    forwarded : BOOLEAN]]
  /\ wire \subseteq Clients
  /\ modeChanges \in 0..MaxModeChanges

NoRules == [m \in Methods \union {"*"} |-> "NONE"]

\* setRule: passthrough without a method forgets every rule.
RulesAfter(old, mode, method) ==
  IF mode = "passthrough" /\ method = "DEFAULT" THEN NoRules
  ELSE [old EXCEPT ![IF method = "DEFAULT" THEN methodForMode(mode)
                       ELSE method] = mode]

SetMode(mode, method) ==
  /\ modeChanges < MaxModeChanges
  /\ rules' = RulesAfter(rules, mode, method)
  /\ modeChanges' = modeChanges + 1
  /\ UNCHANGED <<released, up, request, wire, taken>>

ruleFor(method) ==
  IF rules[method] # "NONE" THEN rules[method]
  ELSE IF rules["*"] # "NONE" THEN rules["*"] ELSE "passthrough"

Answered(r, answer) == [r EXCEPT !.stage = "DONE", !.answer = answer]

\* handle up to the call of forward.
Request(c, method) ==
  /\ request[c] = NoRequest
  /\ LET mode == ruleFor(method)
         r == [NoRequest EXCEPT !.method = method, !.mode = mode]
     IN  \/ /\ ~up
            /\ request' = [request EXCEPT
                 ![c] = Answered([NoRequest EXCEPT !.method = method], "REFUSED")]
            /\ UNCHANGED <<up, wire>>
         \/ /\ up
            /\ mode \in {"unavailable-before-send", "crash-before-send"}
            /\ request' = [request EXCEPT ![c] = Answered(r, "CLOSED")]
            /\ up' = (mode # "crash-before-send")
            /\ UNCHANGED wire
         \/ /\ up
            /\ mode = "explicit-rpc-rejection"
            /\ request' = [request EXCEPT ![c] = Answered(r, "ERROR")]
            /\ UNCHANGED <<up, wire>>
         \/ /\ up
            /\ mode \notin {"unavailable-before-send", "crash-before-send",
                            "explicit-rpc-rejection"}
            /\ request' = [request EXCEPT ![c] = [r EXCEPT !.stage = "UPSTREAM"]]
            /\ wire' = wire \union {c}
            /\ UNCHANGED up
  /\ UNCHANGED <<rules, released, taken, modeChanges>>

\* The node handles what reaches it, also when nobody waits for its answer any
\* more; the same bytes a second time are an error (external).
NodeHandles(c) ==
  /\ c \in wire
  /\ wire' = wire \ {c}
  /\ taken' = (taken \/ request[c].method = "send")
  /\ LET r == request[c]
         answer == CASE r.method # "send" -> "CHAIN"
                     [] r.method = "send" /\ taken -> "ERROR"
                     [] OTHER -> "EXPECTED"
     IN  request' = [request EXCEPT ![c] =
           IF r.stage = "UPSTREAM"
           THEN [r EXCEPT !.stage = "RESPONDED", !.answer = answer] ELSE r]
  /\ UNCHANGED <<rules, released, up, modeChanges>>

LostOnWire(c) ==
  /\ c \in wire
  /\ wire' = wire \ {c}
  /\ request' = [request EXCEPT ![c] =
       IF @.stage = "UPSTREAM" THEN Answered(@, "CLOSED") ELSE @]
  /\ UNCHANGED <<rules, released, up, taken, modeChanges>>

\* Sensitivity variant: the request is counted as forwarded before the fetch.
ForwardFailsCounted(c) ==
  /\ request[c].stage \in {"UPSTREAM", "RESPONDED"}
  /\ LET r == [request[c] EXCEPT !.forwarded = TRUE]
     IN  request' = [request EXCEPT ![c] = Answered(r, "CLOSED")]
  /\ UNCHANGED <<rules, released, up, wire, taken, modeChanges>>

\* forward's fetch fails or the answer cannot be parsed: `forwarded` stays false.
ForwardFails(c) ==
  /\ request[c].stage \in {"UPSTREAM", "RESPONDED"}
  /\ request' = [request EXCEPT ![c] = Answered(@, "CLOSED")]
  /\ UNCHANGED <<rules, released, up, wire, taken, modeChanges>>

\* mutateResponse; only a record can be altered, and an error loses its message.
mutateResponse(r) ==
  CASE r.mode = "wrong-transaction-hash" -> "OTHER_HASH"
    [] r.mode \in {"mutated-transaction", "mutated-receipt"} ->
         IF r.answer = "CHAIN" THEN "ALTERED"
         ELSE IF r.answer = "ERROR" THEN "NO_RESULT" ELSE r.answer
    [] OTHER -> r.answer

\* handle after forward returned the node's answer.
ForwardReturns(c) ==
  /\ request[c].stage = "RESPONDED"
  /\ LET r == [request[c] EXCEPT !.forwarded = TRUE]
         Holds == r.mode = "withhold-receipt" /\ ~released
     IN  /\ request' = [request EXCEPT ![c] =
              CASE r.mode \in {"forward-then-drop", "crash-after-forward"} ->
                     Answered(r, "CLOSED")
                [] Holds -> [r EXCEPT !.stage = "HELD"]
                [] OTHER -> Answered(r, mutateResponse(r))]
         /\ up' = (up /\ r.mode # "crash-after-forward")
  /\ UNCHANGED <<rules, released, wire, taken, modeChanges>>

\* Every waiter goes on, and nothing is withheld any more.
ReleaseReceipt ==
  /\ ~released
  /\ released' = TRUE
  /\ request' = [c \in Clients |->
       IF request[c].stage = "HELD"
       THEN Answered(request[c], mutateResponse(request[c])) ELSE request[c]]
  /\ UNCHANGED <<rules, up, wire, taken, modeChanges>>

\* close: what is on its way upstream is aborted and every response closed, the
\* withheld ones before their handlers go on; also after a crash, and a second
\* close finds nothing to do.
Close ==
  /\ up' = FALSE
  /\ released' = TRUE
  /\ request' = [c \in Clients |->
       IF request[c].stage \in {"UPSTREAM", "RESPONDED", "HELD"}
       THEN Answered(request[c], "CLOSED") ELSE request[c]]
  /\ UNCHANGED <<rules, wire, taken, modeChanges>>

\* createFaultProxy, with the mode it is given.
ProxyInit ==
  /\ \E mode \in StartModes, method \in MethodOptions :
       rules = RulesAfter(NoRules, mode, method)
  /\ released = FALSE
  /\ up = TRUE
  /\ request = [c \in Clients |-> NoRequest]
  /\ wire = {}
  /\ taken = FALSE
  /\ modeChanges = 0

ProxyStep(c) ==
  NodeHandles(c) \/ LostOnWire(c) \/ ForwardFails(c) \/ ForwardReturns(c)

HarnessStep ==
  \/ \E mode \in FAULT_PROXY_MODES, method \in MethodOptions :
       SetMode(mode, method)
  \/ ReleaseReceipt
  \/ Close

=============================================================================
