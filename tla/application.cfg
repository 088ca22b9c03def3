SPECIFICATION AppSpec
CONSTANTS
  list = list
  edit = edit
  Route = {list, edit}
  Layer <- MCComponent
  Above <- MCAbove
  Middlewares <- MCMiddlewares
  Scopes <- MCScopes
  Roles <- MCRoles
  Held <- MCHeld
  FULL_ACCESS = "*"
  a1 = a1
  a2 = a2
  app = app
  mod = mod
  ctl = ctl
  svc = svc
  net = net
  mem = mem
  idem = idem
  warm = warm
  Component <- MCComponent
  Token <- MCToken
  Imports <- MCImports
  Modules <- MCModules
  Controllers <- MCControllers
  Transports <- MCTransports
  Store <- MCStore
  Bootstraps <- MCBootstraps
  Handlers <- MCHandlers
  App = {a1, a2}
  Class <- MCClass
  Singleton = {svc, ctl, warm}
  Value = {net, mem}
  HasInit = {svc, net, mem, idem, warm, app}
  MaxThrows = 1
  MaxResets = 1
INVARIANTS TypeOK InitAtMostOnce  TwiceOnlyIfExcused AnsweredOnce HandlerAllowed
PROPERTY PreparationEnds
