---------------------------- MODULE MCApplication --------------------------
(* Two calls for one application: a module with a controller, a service  *)
(* that two of them import, two transports, a store and a bootstrap; one of *)
(* its routes is guarded on every level, the other by the middleware of the *)
(* application.                                                             *)
EXTENDS Application

CONSTANTS list, edit, a1, a2, app, mod, ctl, svc, net, mem, idem, warm

MCComponent == {app, mod, ctl}
MCToken == {svc, net, mem, idem, warm}
Lists(f) == [c \in MCComponent \cup MCToken |-> IF c \in DOMAIN f THEN f[c] ELSE <<>>]
MCImports == Lists([c \in {app, ctl} |-> <<svc>>])
MCModules == Lists([c \in {app} |-> <<mod>>])
MCControllers == Lists([c \in {mod} |-> <<ctl>>])
MCTransports == Lists([c \in {app} |-> <<mem, net>>])
MCStore == Lists([c \in {app} |-> <<idem>>])
MCBootstraps == Lists([c \in {app} |-> <<warm>>])
MCHandlers == Lists([c \in {svc, ctl} |-> IF c = svc THEN <<"created", "deleted">>
                                                     ELSE <<"updated">>])
MCAbove == [r \in Route |-> IF r = edit THEN <<app, mod, ctl>> ELSE <<app>>]
Named(f, none) == [c \in MCComponent \cup Route |-> IF c \in DOMAIN f THEN f[c] ELSE none]
MCMiddlewares == Named([c \in {app, edit} |-> IF c = app THEN <<"authenticate">>
                                                        ELSE <<"timeout">>], <<>>)
MCScopes == Named([c \in {mod, edit} |-> IF c = mod THEN {"read"} ELSE {"write", "draft"}], {})
MCRoles == Named([c \in {mod, ctl, edit} |-> IF c = mod THEN {"staff", "guest"}
                                             ELSE IF c = ctl THEN {"staff"} ELSE {"editor"}], {})
MCHeld == [roles : {{"guest"}, {"staff"}, {"guest", "editor"}},
           scopes : {{}, {"read", "write", "draft"}, {"read", "write"}}]
            \cup [roles : {{}, {"*"}}, scopes : {{"*"}}]
MCClass == [a \in App |-> app]
=============================================================================
