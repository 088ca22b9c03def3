------------------------------ MODULE Redlock ------------------------------
(***************************************************************************)
(* lib/lock/redis.lock.ts: locks on a majority of independent Redis        *)
(* servers.  Every caller has a connection to each server, which keeps the *)
(* order of its commands; a server that does not have a script cached      *)
(* answers NOSCRIPT, and the text is sent behind whatever was sent since.  *)
(* Times are what is left of them, and Tick lets one unit pass everywhere. *)
(***************************************************************************)
EXTENDS Integers, Sequences, FiniteSets

CONSTANTS Caller,     (* calls of acquire; the lock value is the caller      *)
          Client,     (* the servers                                        *)
          Resource,
          Resources,  (* what each caller asks for                          *)
          RetryCount, (* of the settings of each call                       *)
          Duration, Drift,
          Extends,    (* the callers that extend their lock, once            *)
          MaxTrouble, (* how many commands, replies or script caches are lost *)
          Absent

Script == {"acquire", "extend", "release"}

ASSUME RedlockAssumption ==
       /\ IsFiniteSet(Client) /\ Client # {}
       /\ Resources \in [Caller -> SUBSET Resource]
       /\ RetryCount \in [Caller -> Nat] /\ MaxTrouble \in Nat
       /\ Duration \in Nat \ {0} /\ Drift \in 0..Duration
       /\ Absent \notin [of : Caller, left : 1..Duration]

VARIABLES key,      (* the entries of each server                           *)
          cached,   (* its script cache                                     *)
          queue,    (* the commands on their way from a caller to a server  *)
          pc,
          attempt,  (* of _execute                                          *)
          votes,    (* the votes for and against the attempt                *)
          since,    (* what would be left of a lock of this attempt         *)
          left,     (* what is left of the lock: expiration - now           *)
          lost, reordered

vars == <<key, cached, queue, pc, attempt, votes, since, left, lost, reordered>>

(* Faulty: half of the servers are taken for a quorum.                      *)
HalfQuorum == Cardinality(Client) \div 2

(* Faulty: every server has to agree.                                       *)
FullQuorum == Cardinality(Client)

Quorum == Cardinality(Client) \div 2 + 1

Command(op, how, n) == [op |-> op, how |-> how, n |-> n]

NoVotes == [on |-> <<>>, for |-> {}, against |-> {}]

Init == /\ key = [k \in Client |-> [r \in Resource |-> Absent]]
        /\ cached \in [Client -> {{}, Script}]
        /\ lost = Cardinality({k \in Client : cached[k] = {}}) /\ lost <= MaxTrouble
        /\ queue = [c \in Caller |-> [k \in Client |-> <<>>]]
        /\ pc = [c \in Caller |-> "idle"]
        /\ attempt = [c \in Caller |-> 0]
        /\ votes = [c \in Caller |-> NoVotes]
        /\ since = [c \in Caller |-> 0] /\ left = [c \in Caller |-> 0]
        /\ reordered = {}

(* _attemptOperation: a command to every server, and a new count of votes.  *)
Send(c, op, n) ==
    /\ queue' = [queue EXCEPT ![c] = [k \in Client |-> Append(@[k], Command(op, "sha", n))]]
    /\ attempt' = [attempt EXCEPT ![c] = n]
    /\ votes' = [votes EXCEPT ![c] = [on |-> <<op, n>>, for |-> {}, against |-> {}]]
    /\ since' = [since EXCEPT ![c] = IF op = "release" THEN 0 ELSE Duration - Drift]
-----------------------------------------------------------------------------
(* The scripts on server k for caller c.                                    *)
Mine(c, k) == {r \in Resources[c] : key[k][r] # Absent /\ key[k][r].of = c}
Applies(c, k, op) == CASE op = "acquire" -> \A r \in Resources[c] : key[k][r] = Absent
                       [] OTHER -> Mine(c, k) = Resources[c]

Scripted(c, k, op) ==
    [r \in Resource |->
       IF r \notin Resources[c] THEN key[k][r]
       ELSE IF op = "release" THEN (IF r \in Mine(c, k) THEN Absent ELSE key[k][r])
       ELSE IF Applies(c, k, op) THEN [of |-> c, left |-> Duration] ELSE key[k][r]]

Vote(c, k, m, for) ==
    votes' = IF <<m.op, m.n>> # votes[c].on THEN votes
             ELSE IF for THEN [votes EXCEPT ![c].for = @ \cup {k}]
             ELSE [votes EXCEPT ![c].against = @ \cup {k}]

Pending(c, k) == queue[c][k] # <<>>
Runs(c, k) == Head(queue[c][k]).how = "text" \/ Head(queue[c][k]).op \in cached[k]
Executed(c, k) ==
    LET m == Head(queue[c][k]) IN
      /\ key' = [key EXCEPT ![k] = Scripted(c, k, m.op)]
      /\ cached' = [cached EXCEPT ![k] = @ \cup {m.op}]
      /\ queue' = [queue EXCEPT ![c][k] = Tail(@)]
      /\ reordered' = IF m.op = "acquire" /\ Applies(c, k, "acquire")
                         /\ pc[c] \in {"undoing", "release", "ended"}
                         /\ \A i \in 2..Len(queue[c][k]) : queue[c][k][i].op # "release"
                      THEN reordered \cup {<<c, k>>} ELSE reordered

(* evalsha or eval runs the script, and the reply comes.                    *)
Execute(c, k) ==
    /\ Pending(c, k) /\ Runs(c, k)
    /\ Executed(c, k)
    /\ Vote(c, k, Head(queue[c][k]), Applies(c, k, Head(queue[c][k]).op))
    /\ UNCHANGED <<pc, attempt, since, left, lost>>

(* NOSCRIPT: the text of the script is sent.                                *)
NoScript(c, k) ==
    /\ Pending(c, k) /\ ~Runs(c, k)
    /\ queue' = [queue EXCEPT ![c][k] = Append(Tail(@), [Head(@) EXCEPT !.how = "text"])]
    /\ UNCHANGED <<key, cached, pc, attempt, votes, since, left, lost, reordered>>

(* The command or its reply is lost: the client votes against.              *)
Lose(c, k) ==
    /\ Pending(c, k) /\ lost < MaxTrouble
    /\ \/ Runs(c, k) /\ Executed(c, k)
       \/ /\ queue' = [queue EXCEPT ![c][k] = Tail(@)]
          /\ reordered' = IF Head(queue[c][k]).op = "release" /\ Mine(c, k) # {}
                            THEN reordered \cup {<<c, k>>} ELSE reordered
          /\ UNCHANGED <<key, cached>>
    /\ Vote(c, k, Head(queue[c][k]), FALSE)
    /\ lost' = lost + 1
    /\ UNCHANGED <<pc, attempt, since, left>>
-----------------------------------------------------------------------------
For(c) == Cardinality(votes[c].for) >= Quorum
Against(c) == Cardinality(votes[c].against) >= Quorum

Goes(c, place) == pc' = [pc EXCEPT ![c] = place]

(* _execute returns or throws; replies that come later change nothing.      *)
Settles(c, place) ==
    /\ Goes(c, place)
    /\ attempt' = [attempt EXCEPT ![c] = 0]
    /\ votes' = [votes EXCEPT ![c] = NoVotes]
    /\ since' = [since EXCEPT ![c] = 0]

acquire(c) ==
    /\ pc[c] = "idle"
    /\ Send(c, "acquire", 1) /\ Goes(c, "acquire")
    /\ UNCHANGED <<key, cached, left, lost, reordered>>

(* _execute tries again with the same value, and releases nothing between.  *)
Retry(c) ==
    /\ pc[c] \in Script /\ Against(c) /\ attempt[c] < RetryCount[c] + 1
    /\ Send(c, pc[c], attempt[c] + 1)
    /\ UNCHANGED <<key, cached, pc, left, lost, reordered>>

(* acquire returns a lock.                                                  *)
Won(c) ==
    /\ pc[c] = "acquire" /\ For(c)
    /\ left' = [left EXCEPT ![c] = since[c]]
    /\ Settles(c, "holding")
    /\ UNCHANGED <<key, cached, queue, lost, reordered>>

(* Faulty: what a minority granted is left to expire.                       *)
GiveUpAtOnce(c) ==
    /\ pc[c] = "acquire" /\ Against(c) /\ attempt[c] = RetryCount[c] + 1
    /\ Settles(c, "ended")
    /\ UNCHANGED <<key, cached, queue, left, lost, reordered>>

(* The catch of acquire releases what a minority granted, once.             *)
GiveUp(c) ==
    /\ pc[c] = "acquire" /\ Against(c) /\ attempt[c] = RetryCount[c] + 1
    /\ Send(c, "release", RetryCount[c] + 2) /\ Goes(c, "undoing")
    /\ UNCHANGED <<key, cached, left, lost, reordered>>

extend(c) ==
    /\ c \in Extends /\ pc[c] = "holding" /\ left[c] > 0
    /\ Send(c, "extend", 1) /\ Goes(c, "extend")
    /\ UNCHANGED <<key, cached, left, lost, reordered>>

(* The lock that extend returns takes the place of the one it was given.    *)
Extended(c) ==
    /\ pc[c] = "extend" /\ For(c)
    /\ left' = [left EXCEPT ![c] = since[c]]
    /\ Settles(c, "extended")
    /\ UNCHANGED <<key, cached, queue, lost, reordered>>

(* extend throws; what the caller knows of its lock stays.                  *)
ExtendThrows(c) ==
    /\ pc[c] = "extend" /\ Against(c) /\ attempt[c] = RetryCount[c] + 1
    /\ Settles(c, "extended")
    /\ UNCHANGED <<key, cached, queue, left, lost, reordered>>

release(c) ==
    /\ pc[c] \in {"holding", "extended"}
    /\ left' = [left EXCEPT ![c] = 0]
    /\ Send(c, "release", 1) /\ Goes(c, "release")
    /\ UNCHANGED <<key, cached, lost, reordered>>

Ended(c) ==
    /\ \/ pc[c] \in {"release", "undoing"} /\ For(c)
       \/ pc[c] = "release" /\ Against(c) /\ attempt[c] = RetryCount[c] + 1
       \/ pc[c] = "undoing" /\ Against(c)
    /\ Settles(c, "ended")
    /\ UNCHANGED <<key, cached, queue, left, lost, reordered>>

Tick ==
    /\ key' = [k \in Client |-> [r \in Resource |->
                 IF key[k][r] = Absent \/ key[k][r].left = 1 THEN Absent
                 ELSE [key[k][r] EXCEPT !.left = @ - 1]]]
    /\ since' = [c \in Caller |-> IF since[c] = 0 THEN 0 ELSE since[c] - 1]
    /\ left' = [c \in Caller |-> IF left[c] = 0 THEN 0 ELSE left[c] - 1]
    /\ UNCHANGED <<cached, queue, pc, attempt, votes, lost, reordered>>
-----------------------------------------------------------------------------
Call(c) == Retry(c) \/ Won(c) \/ GiveUp(c) \/ Extended(c) \/ ExtendThrows(c) \/ Ended(c)
Serve(c, k) == Execute(c, k) \/ NoScript(c, k)

(* A call whose attempt is decided goes on before its process sees another  *)
(* reply or asks for the time: what awaits a resolved promise runs at once. *)
Next == \/ \E c \in Caller : Call(c)
        \/ /\ \A c \in Caller : ~For(c) /\ ~Against(c)
           /\ \/ \E c \in Caller : acquire(c) \/ extend(c) \/ release(c)
              \/ \E c \in Caller, k \in Client : Serve(c, k) \/ Lose(c, k)
              \/ Tick

Spec == Init /\ [][Next]_vars
-----------------------------------------------------------------------------
Holds(c) == pc[c] \in {"holding", "extend", "extended"} /\ left[c] > 0

(* No two callers hold a resource: what a majority granted one of them no   *)
(* majority grants another before the first's expiration or release,        *)
(* whatever is retried, lost or late.                                       *)
AtMostOneHolder ==
    \A c, d \in Caller : Holds(c) /\ Holds(d) /\ c # d => Resources[c] \cap Resources[d] = {}

(* A call that has ended leaves nothing on a server that has run all its    *)
(* commands, unless the release was lost or overtook the acquire.           *)
NoLeftovers ==
    \A c \in Caller, k \in Client :
      pc[c] = "ended" /\ queue[c][k] = <<>> /\ <<c, k>> \notin reordered => Mine(c, k) = {}

(* When all servers have voted, the promise of the attempt is resolved: no  *)
(* caller waits for ever.  With an even number of servers it may.           *)
Decided == \A c \in Caller :
    votes[c].for \cup votes[c].against = Client => For(c) \/ Against(c)
=============================================================================
