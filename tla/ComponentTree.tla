--------------------------- MODULE ComponentTree ---------------------------
(***************************************************************************)
(* The tree of an application and the order in which prepareApplication    *)
(* (__internals/helpers/prepare.helper.ts) and createApplication           *)
(* (common/bootstrap.ts) walk it.  A step is what happens between two      *)
(* awaits that another preparation can observe: who it is about, and the   *)
(* component whose list it comes from.                                     *)
(***************************************************************************)
EXTENDS SequencesExt, FiniteSets

CONSTANTS Component,   (* app, module and controller classes               *)
          Token,       (* imports, stores, transports, bootstrap classes   *)
          Imports,     (* metadata.imports of each component               *)
          Modules,     (* metadata.modules                                 *)
          Controllers, (* metadata.controllers                             *)
          Transports,  (* metadata.transports of an app                    *)
          Store,       (* the idempotency store of an app, as a sequence   *)
          Bootstraps,  (* metadata.bootstraps                              *)
          Handlers     (* the @OnMessage methods of each class             *)

ASSUME TreeAssumption ==
       /\ IsFiniteSet(Component)
       /\ \A c \in Component :
            /\ Modules[c] \in Seq(Component) /\ Controllers[c] \in Seq(Component)
            /\ \A list \in {Imports[c], Transports[c], Store[c], Bootstraps[c]} :
                 list \in Seq(Token)
       /\ \A t \in Token \cup Component : Handlers[t] \in Seq(Range(Handlers[t]))

(* No class is below itself: the walk of the tree would not end.            *)
Below(c) == Range(Modules[c]) \cup Range(Controllers[c])
ASSUME NoCycle ==
       \A S \in SUBSET Component : S # {} => \E c \in S : Below(c) \cap S = {}

Do(op, who, of) == [op |-> op, who |-> who, of |-> of, on |-> "-"]

Each(s, F(_)) == FlattenSeq([i \in DOMAIN s |-> F(s[i])])

(* registerInstanceHandlers: one bus.listen after the other.                *)
ListenSteps(who, of) ==
    [i \in DOMAIN Handlers[who] |-> [Do("listen", who, of) EXCEPT !.on = Handlers[who][i]]]

(* prepareImportsInternal: for each import its handlers, then its onInit.   *)
ImportSteps(c) ==
    Each(Imports[c], LAMBDA t : ListenSteps(t, c) \o <<Do("init", t, c)>>)

(* prepareModule and prepareController: imports, own handlers, modules,     *)
(* controllers; nobody's onInit.  Guards and routes are mounted without     *)
(* an await and are left out.                                               *)
Prepare[c \in Component] ==
    ImportSteps(c) \o ListenSteps(c, c)
        \o Each(Modules[c], LAMBDA m : Prepare[m])
        \o Each(Controllers[c], LAMBDA k : Prepare[k])

(* The bootstraps of createApplication: the handlers of each, its onInit.   *)
BootstrapSteps(c) == Each(Bootstraps[c], LAMBDA b : ListenSteps(b, c) \o <<Do("boot", b, c)>>)

(* createApplication: prepareApplication, and then the bootstraps.          *)
Plan(c) ==
    Each(Store[c], LAMBDA s : <<Do("store", s, c)>>)
        \o Each(Transports[c], LAMBDA t : <<Do("transport", t, c)>>)
        \o Prepare[c] \o <<Do("init", c, c)>>
        \o BootstrapSteps(c)
=============================================================================
