------------------------------ MODULE Gateway ------------------------------
(***************************************************************************)
(* The three doors of the program: the REST routes and the MCP tools of     *)
(* src/internal/api, and questions in natural language (src/internal/nl),   *)
(* asked through POST /v1/nl/query or by a chat front end that knows its     *)
(* user and keeps the conversation.  A request is one step: what it called  *)
(* on which backend, for which tenant, is in did.                           *)
(*                                                                          *)
(* The authorizer is the environment's; a request asks it once, so what it  *)
(* grants is fixed at the start and nothing is kept of an earlier answer.   *)
(* A text is what the interpreter finds in it: the intents it matches with  *)
(* their best priority, how far its words are from each service's name, and  *)
(* whether it quotes an error.                                               *)
(***************************************************************************)
EXTENDS Integers, Sequences, FiniteSets, FiniteSetsExt

CONSTANTS
  Subjects,      \* who authenticates
  TenantOf,      \* subject -> its tenant, or None
  None,
  Catalog,       \* the services of the live graph, in the order it lists them
  Texts,         \* [matches |-> intent -> priority, far |-> distances to the catalog's names, quotes]
  Deployments,   \* the dependencies that may be configured
  Grants,        \* the sets of capabilities somebody may hold
  ContextTurns,  \* DefaultContextTurns
  ContextTTL,    \* DefaultContextTTL
  MaxIdle        \* bound on idleness, for checking

\* The intents in the order of IntentKind, which breaks ties.
IntentKinds == <<"trace_search", "service_health", "topology", "incident_status", "investigation_ask", "memory_lookup",
           "investigate", "compare_windows", "explain_trace", "remediate">>

ASSUME GatewayAssumption ==
  /\ ContextTurns \in Nat \ {0} /\ ContextTTL \in Nat
  /\ \A x \in Texts : /\ DOMAIN x.matches \subseteq {IntentKinds[i] : i \in DOMAIN IntentKinds}
                       /\ \A k \in DOMAIN x.matches : x.matches[k] \in Nat

VARIABLES
  wired,    \* the dependencies that are not nil
  granted,  \* what the authorizer allows: subject -> capabilities
  thread,   \* the conversation of the chat front end's user: turns [kind, service]
  idle,     \* time since its last turn
  did,      \* the calls of the last request: [op, door, tenant, held]
  reply     \* how the last request ended

gatewayVars == <<wired, granted, thread, idle, did, reply>>

GatewayInit ==
  /\ wired \in Deployments
  /\ granted \in [Subjects -> Grants]
  /\ thread = <<>> /\ idle = 0 /\ did = {} /\ reply = [is |-> "none"]

Refused(why) == did' = {} /\ reply' = [is |-> why]
CallsOf(s, door, ops) == {[op |-> o, door |-> door, tenant |-> TenantOf[s], held |-> granted[s]] : o \in ops}
Calls(s, door, ops) == did' = CallsOf(s, door, ops) /\ reply' = [is |-> "called"]

\* Authenticated, with a tenant.
Known(s) == "auth" \in wired /\ TenantOf[s] # None

\* Not the code: reading left to whoever has authenticated.
CanReading(s, cap) == cap = "telemetry:read" \/ ("authz" \in wired /\ cap \in granted[s])

Can(s, cap) == "authz" \in wired /\ cap \in granted[s]

-----------------------------------------------------------------------------
(* REST.  Input that a route checks may be malformed, a missing             *)
(* Idempotency-Key included.                                                *)

R(cap, dep, checks) == [cap |-> cap, dep |-> dep, checks |-> checks]
Reads ==
  [overview |-> R("telemetry:read", "none", FALSE), search_traces |-> R("telemetry:read", "store", FALSE),
   get_trace |-> R("telemetry:read", "store", TRUE), topology |-> R("telemetry:read", "topology", FALSE),
   incidents |-> R("telemetry:read", "anomaly", FALSE), investigation |-> R("telemetry:read", "rca", FALSE)]
InvestigationRoutes == [replay |-> R("investigation:replay", "rca", TRUE), correct |-> R("investigation:correct", "rca", TRUE)]
ActionRoutes ==
  [list_actions |-> R("telemetry:read", "remediate", FALSE), propose |-> R("remediation_action:propose", "remediate", TRUE),
   approve |-> R("remediation_action:approve", "remediate", TRUE), rollback |-> R("remediation_action:approve", "remediate", TRUE)]
Routes ==
  [r \in DOMAIN Reads \cup DOMAIN InvestigationRoutes \cup DOMAIN ActionRoutes |->
     IF r \in DOMAIN Reads THEN Reads[r]
     ELSE IF r \in DOMAIN InvestigationRoutes THEN InvestigationRoutes[r] ELSE ActionRoutes[r]]

\* The overview takes what is there.
Ops(r) == IF r = "overview" THEN {o \in {"incidents", "query_red"} : IF o = "incidents" THEN "anomaly" \in wired ELSE "store" \in wired}
          ELSE {r}

Rest(s, r, wellFormed) ==
  /\ CASE ~Known(s) -> Refused("unauthenticated")
       [] Known(s) /\ ~Can(s, Routes[r].cap) -> Refused("forbidden")
       [] Known(s) /\ Can(s, Routes[r].cap) /\ Routes[r].dep \notin wired \cup {"none"} -> Refused("unavailable")
       [] OTHER -> IF Routes[r].checks /\ ~wellFormed THEN Refused("invalid") ELSE Calls(s, "rest", Ops(r))
  /\ UNCHANGED <<wired, granted, thread, idle>>

-----------------------------------------------------------------------------
(* MCP: every tool has its role, mapped onto the routes' capabilities; nine *)
(* of the twelve are not implemented.                                       *)

CapabilityForRole == [viewer |-> "telemetry:read", operator |-> "incident:investigate"]
T(role, dep, requires) == [role |-> role, dep |-> dep, requires |-> requires]
Tools == [search_traces |-> T("viewer", "store", FALSE), get_trace |-> T("viewer", "store", TRUE),
          topology |-> T("viewer", "topology", TRUE), memory |-> T("viewer", "none", TRUE), investigate |-> T("operator", "none", TRUE)]
Implemented == {"search_traces", "get_trace", "topology"}

Mcp(s, t, complete) ==
  /\ CASE ~Known(s) -> Refused("unauthenticated")
       [] Known(s) /\ ~Can(s, CapabilityForRole[Tools[t].role]) -> Refused("forbidden")
       [] Known(s) /\ Can(s, CapabilityForRole[Tools[t].role]) /\ t \notin Implemented -> Refused("unimplemented")
       [] OTHER -> IF Tools[t].requires /\ ~complete THEN Refused("invalid")
                   ELSE IF Tools[t].dep \notin wired THEN Refused("unavailable") ELSE Calls(s, "mcp", {t})
  /\ UNCHANGED <<wired, granted, thread, idle>>

-----------------------------------------------------------------------------
(* Questions.                                                              *)

\* In hundredths.
Confidence(p) == IF 50 + 5 * p > 95 THEN 95 ELSE IF 50 + 5 * p < 50 THEN 50 ELSE 50 + 5 * p

Index(k) == CHOOSE i \in DOMAIN IntentKinds : IntentKinds[i] = k
Ahead(x, j, k) == \/ Confidence(x.matches[j]) > Confidence(x.matches[k])
                  \/ Confidence(x.matches[j]) = Confidence(x.matches[k]) /\ Index(j) < Index(k)
First(x, S) == CHOOSE k \in S : \A j \in S \ {k} : Ahead(x, k, j)

\* A gap of exactly the threshold decides, but the difference of 0.95 and 0.80
\* rounds to less than 0.15.
TooClose(p, q) == Confidence(p) - Confidence(q) < 15 \/ (Confidence(p) = 95 /\ Confidence(q) = 80)

Follows == {"trace_search", "explain_trace", "service_health", "compare_windows", "topology"}

\* matchService: the nearest name within two edits, the first one of several.
Nearest(x) == {i \in DOMAIN Catalog : x.far[i] <= 2 /\ \A j \in DOMAIN Catalog : x.far[i] <= x.far[j]}
Named(x) == IF Nearest(x) = {} THEN None ELSE Catalog[Min(Nearest(x))]
Exact(x) == \E i \in DOMAIN Catalog : x.far[i] = 0

\* A quoted error is looked up in the memory instead of a service, a focused
\* investigation is asked about instead of one, and incidents are all listed.
UsesService(x, kind, focus) ==
  /\ kind # "incident_status"
  /\ kind = "memory_lookup" => ~x.quotes
  /\ kind = "investigation_ask" => ~focus.investigation

\* What the text names, else the conversation's focus, else what the last turn
\* with the same intent was about.
ServiceFor(x, kind, turns, focus) ==
  LET last == turns[Len(turns)] IN
  IF ~UsesService(x, kind, focus) THEN None
  ELSE IF Named(x) # None THEN Named(x) ELSE IF focus.service # None THEN focus.service
  ELSE IF turns # <<>> /\ kind \in Follows /\ last.kind = kind THEN last.service ELSE None

\* fuzzy: the service is one that the text nearly names.
Interpret(x, turns, focus) ==
  IF DOMAIN x.matches = {} THEN [kind |-> "unknown", service |-> None, among |-> {}, fuzzy |-> FALSE]
  ELSE LET k == First(x, DOMAIN x.matches)
           rest == DOMAIN x.matches \ {k}
           doubtful == rest # {} /\ TooClose(x.matches[k], x.matches[First(x, rest)])
       IN  [kind |-> IF doubtful THEN "unknown" ELSE k, service |-> ServiceFor(x, k, turns, focus),
            among |-> IF doubtful THEN {k, First(x, rest)} ELSE {},
            fuzzy |-> UsesService(x, k, focus) /\ Named(x) # None /\ ~Exact(x)]

\* An answer for tenant t to a user with these capabilities: the tenant is the
\* server's, whatever the intent says; the two gated intents need a capability.
Gate == [investigate |-> "incident:investigate", remediate |-> "remediation_action:propose"]
Answered(in, held) ==
  LET call == CASE in.kind = "incident_status" -> IF "anomaly" \in wired THEN {"incidents"} ELSE {}
                [] in.kind = "investigate" -> IF "rca" \in wired THEN {"investigate"} ELSE {}
                [] in.kind = "remediate" -> IF "remediate" \in wired THEN {"propose"} ELSE {}
                [] OTHER -> IF "registry" \in wired THEN {"dispatch"} ELSE {}
      gated == in.kind \in DOMAIN Gate
      refused == gated /\ ~("authz" \in wired /\ Gate[in.kind] \in held)
  IN  [ops |-> IF in.kind = "unknown" \/ refused THEN {} ELSE call,
       clarifying |-> in.kind = "unknown" \/ refused]

Replied(s, door, x, in, a) ==
  /\ did' = CallsOf(s, door, a.ops)
  /\ reply' = [is |-> IF a.clarifying THEN "clarifying" ELSE "answered", intent |-> in, text |-> x,
               caveat |-> ~a.clarifying /\ in.fuzzy]

NoFocus == [service |-> None, investigation |-> FALSE]

\* POST /v1/nl/query: no conversation, and the answer's subject has no roles.
NLQuery(s, x) ==
  /\ IF ~Known(s) THEN Refused("unauthenticated")
     ELSE IF ~Can(s, "telemetry:read") THEN Refused("forbidden")
     ELSE IF "nl" \notin wired THEN Refused("unavailable")
     ELSE LET in == Interpret(x, <<>>, NoFocus) IN Replied(s, "rest", x, in, Answered(in, {}))
  /\ UNCHANGED <<wired, granted, thread, idle>>

\* The chat front end: the resolved subject, its thread unless that expired, and
\* the service and the investigation it holds to be in focus.
Expired == thread # <<>> /\ idle > ContextTTL
LastTurns(q) == IF Len(q) > ContextTurns THEN SubSeq(q, Len(q) - ContextTurns + 1, Len(q)) ELSE q

Chat(s, x, focus) ==
  LET turns == IF Expired THEN <<>> ELSE thread
      in == Interpret(x, turns, focus)
  IN /\ Known(s) /\ "nl" \in wired
     /\ Replied(s, "chat", x, in, Answered(in, granted[s]))
     /\ thread' = LastTurns(Append(turns, [kind |-> in.kind, service |-> in.service]))
     /\ idle' = 0
  /\ UNCHANGED <<wired, granted>>

Wait == idle < MaxIdle /\ idle' = idle + 1 /\ UNCHANGED <<wired, granted, thread, did, reply>>

Foci == [service : {Catalog[i] : i \in DOMAIN Catalog} \cup {None}, investigation : BOOLEAN]

GatewayNext ==
  \/ \E s \in Subjects :
       \/ \E b \in BOOLEAN : (\E r \in DOMAIN Routes : Rest(s, r, b)) \/ (\E t \in DOMAIN Tools : Mcp(s, t, b))
       \/ \E x \in Texts : NLQuery(s, x) \/ (\E f \in Foci : Chat(s, x, f))
  \/ Wait

GatewaySpec == GatewayInit /\ [][GatewayNext]_gatewayVars

-----------------------------------------------------------------------------
(* Properties.                                                             *)

\* The capability that DR-25 gives an operation.
Needs(op) ==
  CASE op = "investigate" -> "incident:investigate"
    [] op = "propose" -> "remediation_action:propose"
    [] op \in {"approve", "rollback"} -> "remediation_action:approve"
    [] op = "replay" -> "investigation:replay"
    [] op = "correct" -> "investigation:correct"
    [] OTHER -> "telemetry:read"

Gated == {"investigate", "propose", "approve", "rollback", "replay", "correct"}

\* Through REST, MCP and questions over REST, whatever is called, reads included,
\* is called by an authenticated subject of some tenant that holds the capability
\* the operation needs, as the authorizer says: a route or a tool that loses its
\* check, or skips it where no authorizer is wired, lets through what the other
\* doors refuse.  A chat front end reads on its own account; the two gated intents
\* are checked there too (authenticate, requireCapability, mcpToolsCall,
\* AnswerForSubject).
EveryDoorChecks ==
  \A c \in did : /\ "auth" \in wired /\ c.tenant # None
                 /\ c.door # "chat" \/ c.op \in Gated => "authz" \in wired /\ Needs(c.op) \in c.held

\* An answer is never about a service out of an older turn or the focus when the
\* text names one, and a guessed name is called a guess exactly when the answer is
\* about it (extractToolArgs, mergeFollowUpArgs, appendFuzzyServiceCaveat).
NoSilentGuess ==
  reply.is = "answered" =>
    LET named == Named(reply.text)  about == reply.intent.service IN
    /\ named # None => about = named \/ (about = None /\ reply.intent.kind \notin Follows \cup DOMAIN Gate)
    /\ reply.caveat <=> named # None /\ about = named /\ ~Exact(reply.text)

\* An intent is acted on only when every other one the text matches is less
\* likely; otherwise both are put to the user (Interpret, FR-F10-11).
ActsOnTheClearest ==
  reply.is \in {"answered", "clarifying"} /\ reply.intent.kind # "unknown" =>
    \A k \in DOMAIN reply.text.matches \ {reply.intent.kind} :
      reply.text.matches[reply.intent.kind] > reply.text.matches[k] + 2

GatewaySound == EveryDoorChecks /\ NoSilentGuess /\ ActsOnTheClearest
=============================================================================
