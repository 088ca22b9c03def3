-------------------------- MODULE RequestPipeline --------------------------
(***************************************************************************)
(* One request on its way through the routers of a prepared application    *)
(* (__internals/helpers/prepare.helper.ts and __internals/transform): the  *)
(* guards of the application, of each module and of the controller above a *)
(* route, those of the route, its arguments, its handler and the answer.   *)
(* hyper-express runs the guards in the order they were mounted.           *)
(***************************************************************************)
EXTENDS SequencesExt, Integers

CONSTANTS Route,
          Layer,       (* the classes that have guards                      *)
          Above,       (* those above each route, the application first     *)
          Middlewares, (* metadata.middlewares of layers and routes         *)
          Scopes,      (* metadata.scopes                                   *)
          Roles,       (* metadata.roles                                    *)
          Held,        (* the roles and scopes requests may be given        *)
          FULL_ACCESS

VARIABLES pc,      (* where the request is                                  *)
          route,
          held,    (* what setRole and setScopes gave it                    *)
          at,      (* the guard it is at                                    *)
          granted, (* a middleware has called setRole and setScopes         *)
          answers, (* how often it was answered                             *)
          result   (* what the handler returned                             *)

requestVars == <<pc, route, held, at, granted, answers, result>>

Guard(kind, names) == <<[kind |-> kind, names |-> names]>>

(* scopeTransfrom and roleTransform call back only for a non-empty list.    *)
ScopeGuard(names) == IF names = {} THEN <<>> ELSE Guard("scopes", names)
RoleGuard(names) == IF names = {} THEN <<>> ELSE Guard("roles", names)

MiddlewaresOf(c) == [i \in DOMAIN Middlewares[c] |->
                       [kind |-> "middleware", names |-> {Middlewares[c][i]}]]

applyCommonPipeline(c) == MiddlewaresOf(c) \o ScopeGuard(Scopes[c]) \o RoleGuard(Roles[c])

(* What prepareRoute mounts before the handler.                             *)
prepareRoute(r) ==
    LET c == Last(Above[r]) IN
      MiddlewaresOf(r) \o RoleGuard(Roles[c] \cup Roles[r]) \o ScopeGuard(Scopes[c] \cup Scopes[r])

GuardsOf(r) == FlattenSeq([i \in DOMAIN Above[r] |-> applyCommonPipeline(Above[r][i])])
                 \o prepareRoute(r)
Guards == [r \in Route |-> GuardsOf(r)]
Now == Guards[route][at]

(* getRoles and getScopes                                                   *)
Has(kind) == IF granted THEN held[kind] ELSE {}

RoleAllows == FULL_ACCESS \in Has("roles") \/ Now.names \cap Has("roles") # {}

(* Faulty: one of the scopes is enough.                                     *)
ScopeAllowsIfAny == FULL_ACCESS \in Has("scopes") \/ Now.names \cap Has("scopes") # {}

ScopeAllows == FULL_ACCESS \in Has("scopes") \/ Now.names \subseteq Has("scopes")

Init == /\ pc = "none" /\ at = 1 /\ granted = FALSE /\ answers = 0 /\ result = "none"
        /\ route = CHOOSE r \in Route : TRUE
        /\ held = CHOOSE h \in Held : TRUE

Receive == /\ pc = "none"
           /\ route' \in Route /\ held' \in Held
           /\ pc' = IF Guards[route'] = <<>> THEN "arguments" ELSE "guards"
           /\ UNCHANGED <<at, granted, answers, result>>
-----------------------------------------------------------------------------
(* next()                                                                   *)
Passes == /\ at' = at + 1
          /\ pc' = IF at < Len(Guards[route]) THEN "guards" ELSE "arguments"

(* The error handler of the server, or the catch of the route's handler.    *)
AnswerError == answers' = IF answers > 0 THEN answers ELSE answers + 1

Allows == CASE Now.kind = "roles" -> RoleAllows
            [] Now.kind = "scopes" -> ScopeAllows
            [] OTHER -> FALSE

GuardAllows ==
    /\ pc = "guards" /\ Allows
    /\ Passes
    /\ UNCHANGED <<route, held, granted, answers, result>>

GuardRefuses ==
    /\ pc = "guards" /\ Now.kind # "middleware" /\ ~Allows
    /\ AnswerError
    /\ pc' = "done"
    /\ UNCHANGED <<route, held, at, granted, result>>

(* A middleware may answer before it calls next, or a timer of it later.    *)
MiddlewareNext ==
    /\ pc = "guards" /\ Now.kind = "middleware"
    /\ granted' = (granted \/ Now.names = {"authenticate"})
    /\ answers' \in {answers, 1}
    /\ Passes
    /\ UNCHANGED <<route, held, result>>

(* It answers without calling next, throws, or calls next with an error.    *)
MiddlewareEnds ==
    /\ pc = "guards" /\ Now.kind = "middleware"
    /\ AnswerError
    /\ pc' = "done"
    /\ UNCHANGED <<route, held, at, granted, result>>

(* A timer answers for whoever is late, if nobody has answered yet.         *)
TimerAnswers ==
    /\ pc \in {"guards", "arguments", "handler", "transform"} /\ answers = 0
    /\ answers' = 1
    /\ UNCHANGED <<pc, route, held, at, granted, result>>
-----------------------------------------------------------------------------
(* The arguments are resolved, from the body and through the transformers.  *)
ArgumentsResolved ==
    /\ pc = "arguments"
    /\ pc' = "handler"
    /\ UNCHANGED <<route, held, at, granted, answers, result>>

(* Anything thrown up to the answer is answered as an error.                *)
Throws ==
    /\ pc \in {"arguments", "handler", "transform"}
    /\ AnswerError
    /\ pc' = "done"
    /\ UNCHANGED <<route, held, at, granted, result>>

(* The handler returns a value, or undefined when it answers for itself;    *)
(* buildResponseSender looks at headersSent before it transforms a value.   *)
HandlerReturns ==
    /\ pc = "handler"
    /\ result' \in {"value", "undefined"}
    /\ answers' \in {answers, 1}
    /\ pc' = IF result' = "undefined" \/ answers' > 0 THEN "done" ELSE "transform"
    /\ UNCHANGED <<route, held, at, granted>>

(* Faulty: not looked at again after the transformers were awaited.         *)
SendUnchecked ==
    /\ pc = "transform"
    /\ answers' = answers + 1
    /\ pc' = "done"
    /\ UNCHANGED <<route, held, at, granted, result>>

Send ==
    /\ pc = "transform"
    /\ answers' = IF answers > 0 THEN answers ELSE answers + 1
    /\ pc' = "done"
    /\ UNCHANGED <<route, held, at, granted, result>>

Step == \/ Receive \/ GuardAllows \/ GuardRefuses \/ MiddlewareNext \/ MiddlewareEnds
        \/ TimerAnswers \/ ArgumentsResolved \/ Throws \/ HandlerReturns \/ Send
-----------------------------------------------------------------------------
(* A request is answered at most once, and once at the end unless its       *)
(* handler returned undefined, whoever answers while something is awaited.  *)
AnsweredOnce == /\ answers <= 1
                /\ pc = "done" /\ result # "undefined" => answers = 1

(* A handler runs only for a request that has every scope asked for by a    *)
(* layer above it or by the route, for each layer that asks for roles one   *)
(* of them, and one of those of its controller and the route.               *)
HandlerAllowed ==
    pc \in {"handler", "transform"} =>
      LET Full(kind) == FULL_ACCESS \in held[kind]
          Holds(S, R) == /\ S \subseteq held["scopes"] \/ Full("scopes")
                         /\ R = {} \/ R \cap held["roles"] # {} \/ Full("roles")
          c == Last(Above[route])
      IN  /\ \A l \in Range(Above[route]) : Holds(Scopes[l], Roles[l])
          /\ Holds(Scopes[route], Roles[c] \cup Roles[route])
=============================================================================
