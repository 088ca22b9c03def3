---------------------------- MODULE Application ----------------------------
(***************************************************************************)
(* An application that was created and answers requests: Bootstrap, and    *)
(* then RequestPipeline for one request.  hyper-express handles requests   *)
(* independently of each other, so one stands for all.                     *)
(***************************************************************************)
EXTENDS Bootstrap

CONSTANTS Route, Layer, Above, Middlewares, Scopes, Roles, Held, FULL_ACCESS
ASSUME ApplicationAssumption ==
       /\ Above \in [Route -> Seq(Layer) \ {<<>>}]
       /\ \A c \in Layer \cup Route : Middlewares[c] \in Seq(Range(Middlewares[c]))

VARIABLES pc, route, held, guard, granted, answers, result

requests == <<pc, route, held, guard, granted, answers, result>>

Request == INSTANCE RequestPipeline WITH at <- guard

AppInit == Init /\ Request!Init

Prepares == Next /\ UNCHANGED requests

(* A bound on the interleavings: the request comes when no call can go on,  *)
(* and only if all of them went well.                                       *)
Serves == /\ \A a \in App : mode[a] = "up"
          /\ gen = 0 /\ throws = 0
          /\ Request!Step
          /\ UNCHANGED vars

AppSpec == /\ AppInit /\ [][Prepares \/ Serves]_<<vars, requests>>
           /\ \A a \in App : WF_vars(Continue(a))

(* The two properties of RequestPipeline, for this application.             *)
AnsweredOnce == Request!AnsweredOnce
HandlerAllowed == Request!HandlerAllowed
=============================================================================
