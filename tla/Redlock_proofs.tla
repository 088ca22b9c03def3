---------------------------- MODULE Redlock_proofs ---------------------------
(***************************************************************************)
(* The locks of lib/lock/redis.lock.ts are exclusive, for every set of     *)
(* callers, servers and resources, every duration and drift, every number  *)
(* of retries and of losses.  A lock rests on the servers that voted for   *)
(* it: none of them loses the caller's entries, before what is left of     *)
(* the lock has run out, but by a release of the caller itself, and a      *)
(* caller sends none while it has the lock or asks for it.  Two majorities *)
(* have a server in common, and there a resource has one entry.            *)
(***************************************************************************)
EXTENDS Redlock, FiniteSetTheorems, SequenceTheorems, TLAPS

Entry == [of : Caller, left : 1..Duration]
Commands == [op : Script, how : {"sha", "text"}, n : Nat]
Place == Script \cup {"idle", "holding", "extended", "undoing", "ended"}
Ballots == [on : {<<>>} \cup (Script \X Nat), for : SUBSET Client, against : SUBSET Client]

TypeOK ==
    /\ key \in [Client -> [Resource -> Entry \cup {Absent}]]
    /\ cached \in [Client -> SUBSET Script]
    /\ queue \in [Caller -> [Client -> Seq(Commands)]]
    /\ pc \in [Caller -> Place]
    /\ attempt \in [Caller -> Nat]
    /\ votes \in [Caller -> Ballots]
    /\ since \in [Caller -> 0..Duration]
    /\ left \in [Caller -> 0..Duration]
    /\ lost \in Nat

(* The calls that release, or have released.                                *)
Late == {"release", "undoing", "ended"}

Releases(q) == \E i \in DOMAIN q : q[i].op = "release"

(* Nothing of a lock is released before its caller gives it up, ...         *)
NoneReleasedYet == \A c \in Caller : pc[c] \notin Late =>
                     \A k \in Client : ~Releases(queue[c][k])

(* ... and a caller that releases has no time left to count.                *)
NothingLate == \A c \in Caller : pc[c] \in Late => since[c] = 0

(* The entries of a caller on a server outlast m units.                     *)
Cover(entries, c, m) ==
    m > 0 => \A r \in Resources[c] :
               entries[r] # Absent /\ entries[r].of = c /\ entries[r].left >= m

VotesCover == \A c \in Caller : \A k \in votes[c].for : Cover(key[k], c, since[c])

(* A lock rests on a majority.                                              *)
Rests(c) == \E Q \in SUBSET Client :
              Cardinality(Q) >= Quorum /\ \A k \in Q : Cover(key[k], c, left[c])

HoldersRest == \A c \in Caller : Holds(c) => Rests(c)

LInv == TypeOK /\ NoneReleasedYet /\ NothingLate /\ VotesCover /\ HoldersRest

(* What a late caller has on a server it has a release on its way to, or    *)
(* the release was lost or overtook the acquire.                            *)
ReleaseOnItsWay ==
    \A c \in Caller, k \in Client :
      pc[c] \in Late /\ <<c, k>> \notin reordered /\ Mine(c, k) # {} => Releases(queue[c][k])
-----------------------------------------------------------------------------
(* Two majorities are more than all.                                        *)
LEMMA QuorumFacts ==
    /\ IsFiniteSet(Client) /\ Cardinality(Client) \in Nat
    /\ Quorum \in Nat \ {0} /\ 2 * Quorum > Cardinality(Client)
  <1>1. IsFiniteSet(Client) /\ Cardinality(Client) \in Nat
    BY RedlockAssumption, FS_CardinalityType
  <1> QED BY <1>1 DEF Quorum

LEMMA QuorumsMeet ==
    ASSUME NEW P \in SUBSET Client, NEW Q \in SUBSET Client,
           Cardinality(P) >= Quorum, Cardinality(Q) >= Quorum
    PROVE  P \cap Q # {}
  <1>1. IsFiniteSet(P) /\ IsFiniteSet(Q)
    BY QuorumFacts, FS_Subset
  <1>2. Cardinality(P) \in Nat /\ Cardinality(Q) \in Nat
    BY <1>1, FS_CardinalityType
  <1>3. Cardinality(P) + Cardinality(Q) > Cardinality(Client)
    BY <1>2, QuorumFacts
  <1> QED BY <1>3, QuorumFacts, FS_MajoritiesIntersect

LEMMA ResourcesType == \A c \in Caller : Resources[c] \in SUBSET Resource
  BY RedlockAssumption

LEMMA EntryFacts ==
    /\ Absent \notin Entry
    /\ \A c \in Caller : [of |-> c, left |-> Duration] \in Entry
    /\ Duration \in Nat \ {0} /\ Duration - Drift \in 0..Duration
  BY RedlockAssumption DEF Entry

-----------------------------------------------------------------------------
(* What a script does to the entries of one server.                         *)
LEMMA ScriptedType ==
    ASSUME TypeOK, NEW c \in Caller, NEW k \in Client, NEW op \in Script
    PROVE  Scripted(c, k, op) \in [Resource -> Entry \cup {Absent}]
  <1>1. key[k] \in [Resource -> Entry \cup {Absent}]
    BY DEF TypeOK
  <1>2. ASSUME NEW r \in Resource PROVE Scripted(c, k, op)[r] \in Entry \cup {Absent}
    BY <1>1, EntryFacts DEF Scripted
  <1> QED BY <1>2 DEF Scripted

(* No script touches another caller's entry, and only a release shortens    *)
(* the time that is left of one's own.                                      *)
LEMMA ScriptedKeeps ==
    ASSUME TypeOK, NEW c \in Caller, NEW d \in Caller, NEW k \in Client,
           NEW op \in Script, NEW m \in 0..Duration,
           c = d /\ op = "release" => m = 0, Cover(key[k], c, m)
    PROVE  Cover(Scripted(d, k, op), c, m)
  <1> SUFFICES ASSUME m > 0, NEW r \in Resources[c]
               PROVE  LET e == Scripted(d, k, op)[r] IN
                        e # Absent /\ e.of = c /\ e.left >= m
    BY DEF Cover
  <1>1. key[k][r] # Absent /\ key[k][r].of = c /\ key[k][r].left >= m
    BY DEF Cover
  <1>2. r \in Resource
    BY ResourcesType
  <1>3. CASE Scripted(d, k, op)[r] = key[k][r]
    BY <1>1, <1>3
  <1>4. CASE Scripted(d, k, op)[r] # key[k][r]
    <2>1. r \in Resources[d]
      BY <1>2, <1>4 DEF Scripted
    <2>2. CASE op = "release"
      <3>1. r \in Mine(d, k)
        BY <1>2, <1>4, <2>1, <2>2 DEF Scripted
      <3> QED BY <1>1, <2>2, <3>1 DEF Mine
    <2>3. CASE op # "release"
      <3>1. Applies(d, k, op) /\ Scripted(d, k, op)[r] = [of |-> d, left |-> Duration]
        BY <1>2, <1>4, <2>1, <2>3 DEF Scripted
      <3>2. op # "acquire"
        BY <1>1, <2>1, <3>1 DEF Applies
      <3>3. r \in Mine(d, k)
        BY <2>1, <3>1, <3>2 DEF Applies
      <3>4. d = c
        BY <1>1, <3>3 DEF Mine
      <3>5. [of |-> d, left |-> Duration] # Absent
        BY EntryFacts
      <3> QED BY <3>1, <3>4, <3>5
    <2> QED BY <2>2, <2>3
  <1> QED BY <1>3, <1>4

(* A vote for comes from a server that has the entries for the whole time.  *)
LEMMA AppliedCovers ==
    ASSUME TypeOK, NEW c \in Caller, NEW k \in Client, NEW op \in Script,
           op # "release", Applies(c, k, op), NEW m \in 0..Duration
    PROVE  Cover(Scripted(c, k, op), c, m)
  <1>1. ASSUME NEW r \in Resources[c]
        PROVE  Scripted(c, k, op)[r] = [of |-> c, left |-> Duration]
    BY <1>1, ResourcesType DEF Scripted
  <1>2. [of |-> c, left |-> Duration] # Absent
    BY EntryFacts
  <1> QED BY <1>1, <1>2 DEF Cover
-----------------------------------------------------------------------------
LEMMA InitType == Init => TypeOK
  <1> SUFFICES ASSUME Init PROVE TypeOK
    OBVIOUS
  <1>1. key \in [Client -> [Resource -> Entry \cup {Absent}]] /\ cached \in [Client -> SUBSET Script]
    BY DEF Init, Script
  <1>2. queue \in [Caller -> [Client -> Seq(Commands)]]
    BY DEF Init
  <1>3. pc \in [Caller -> Place] /\ attempt \in [Caller -> Nat] /\ votes \in [Caller -> Ballots]
    BY DEF Init, Place, NoVotes, Ballots
  <1>4. since \in [Caller -> 0..Duration] /\ left \in [Caller -> 0..Duration]
    BY EntryFacts DEF Init
  <1>5. lost \in Nat
    <2>1. IsFiniteSet({k \in Client : cached[k] = {}})
      BY QuorumFacts, FS_Subset
    <2> QED BY <2>1, FS_CardinalityType DEF Init
  <1> QED BY <1>1, <1>2, <1>3, <1>4, <1>5 DEF TypeOK

(* _attemptOperation appends a command to every queue of the caller.        *)
LEMMA SendType ==
    ASSUME TypeOK, NEW c \in Caller, NEW op \in Script, NEW n \in Nat, Send(c, op, n)
    PROVE  /\ queue' \in [Caller -> [Client -> Seq(Commands)]]
           /\ attempt' \in [Caller -> Nat] /\ votes' \in [Caller -> Ballots]
           /\ since' \in [Caller -> 0..Duration]
  <1>1. Command(op, "sha", n) \in Commands
    BY DEF Command, Commands
  <1>2. [k \in Client |-> Append(queue[c][k], Command(op, "sha", n))] \in [Client -> Seq(Commands)]
    BY <1>1 DEF TypeOK
  <1>3. queue' \in [Caller -> [Client -> Seq(Commands)]]
    BY <1>2 DEF TypeOK, Send
  <1>4. attempt' \in [Caller -> Nat] /\ votes' \in [Caller -> Ballots]
    BY DEF TypeOK, Send, Ballots
  <1>5. since' \in [Caller -> 0..Duration]
    BY EntryFacts DEF TypeOK, Send
  <1> QED BY <1>3, <1>4, <1>5

LEMMA SettlesType ==
    ASSUME TypeOK, NEW c \in Caller, NEW place \in Place, Settles(c, place)
    PROVE  /\ pc' \in [Caller -> Place] /\ attempt' \in [Caller -> Nat]
           /\ votes' \in [Caller -> Ballots] /\ since' \in [Caller -> 0..Duration]
  BY EntryFacts DEF TypeOK, Settles, Goes, NoVotes, Ballots

LEMMA HeadType ==
    ASSUME TypeOK, NEW c \in Caller, NEW k \in Client, Pending(c, k)
    PROVE  /\ queue[c][k] \in Seq(Commands) /\ queue[c][k] # <<>>
           /\ Head(queue[c][k]) \in Commands /\ Head(queue[c][k]).op \in Script
           /\ Head(queue[c][k]) = queue[c][k][1] /\ 1 \in DOMAIN queue[c][k]
           /\ Tail(queue[c][k]) \in Seq(Commands)
  <1>1. queue[c][k] \in Seq(Commands) /\ queue[c][k] # <<>>
    BY DEF TypeOK, Pending
  <1>2. 1 \in 1..Len(queue[c][k]) /\ DOMAIN queue[c][k] = 1..Len(queue[c][k])
    BY <1>1
  <1>3. Head(queue[c][k]) = queue[c][k][1] /\ queue[c][k][1] \in Commands
    BY <1>1, <1>2
  <1>4. Tail(queue[c][k]) \in Seq(Commands)
    BY <1>1
  <1>5. Head(queue[c][k]).op \in Script
    BY <1>3 DEF Commands
  <1> QED BY <1>1, <1>2, <1>3, <1>4, <1>5

LEMMA VoteType ==
    ASSUME TypeOK, NEW c \in Caller, NEW k \in Client, NEW m, NEW for \in BOOLEAN,
           Vote(c, k, m, for)
    PROVE  votes' \in [Caller -> Ballots]
  <1>1. votes \in [Caller -> Ballots]
    BY DEF TypeOK
  <1>2. CASE votes' = votes
    BY <1>1, <1>2
  <1>3. CASE votes' = [votes EXCEPT ![c].for = @ \cup {k}]
    BY <1>1, <1>3 DEF Ballots
  <1>4. CASE votes' = [votes EXCEPT ![c].against = @ \cup {k}]
    BY <1>1, <1>4 DEF Ballots
  <1> QED BY <1>2, <1>3, <1>4 DEF Vote

LEMMA ExecutedType ==
    ASSUME TypeOK, NEW c \in Caller, NEW k \in Client, Pending(c, k), Executed(c, k)
    PROVE  /\ key' \in [Client -> [Resource -> Entry \cup {Absent}]]
           /\ cached' \in [Client -> SUBSET Script]
           /\ queue' \in [Caller -> [Client -> Seq(Commands)]]
  <1>1. Head(queue[c][k]).op \in Script /\ Tail(queue[c][k]) \in Seq(Commands)
    BY HeadType
  <1>2. Scripted(c, k, Head(queue[c][k]).op) \in [Resource -> Entry \cup {Absent}]
    BY <1>1, ScriptedType
  <1> QED BY <1>1, <1>2 DEF TypeOK, Executed

LEMMA TickType ==
    ASSUME TypeOK, Tick
    PROVE  /\ key' \in [Client -> [Resource -> Entry \cup {Absent}]]
           /\ since' \in [Caller -> 0..Duration] /\ left' \in [Caller -> 0..Duration]
  <1>1. ASSUME NEW k \in Client, NEW r \in Resource
        PROVE  (IF key[k][r] = Absent \/ key[k][r].left = 1 THEN Absent
                ELSE [key[k][r] EXCEPT !.left = @ - 1]) \in Entry \cup {Absent}
    <2>1. CASE key[k][r] = Absent \/ key[k][r].left = 1
      BY <2>1
    <2>2. CASE ~(key[k][r] = Absent \/ key[k][r].left = 1)
      <3>1. key[k][r] \in Entry
        BY <2>2 DEF TypeOK
      <3> QED BY <2>2, <3>1, EntryFacts DEF Entry
    <2> QED BY <2>1, <2>2
  <1>2. key' \in [Client -> [Resource -> Entry \cup {Absent}]]
    BY <1>1 DEF Tick
  <1> QED BY <1>2, EntryFacts DEF Tick, TypeOK

LEMMA TypeStep == TypeOK /\ [Next]_vars => TypeOK'
  <1> SUFFICES ASSUME TypeOK, [Next]_vars PROVE TypeOK'
    OBVIOUS
  <1> USE DEF Script
  <1>1. ASSUME NEW c \in Caller, acquire(c) PROVE TypeOK'
    <2>1. Send(c, "acquire", 1) /\ Goes(c, "acquire") /\ UNCHANGED <<key, cached, left, lost>>
      BY <1>1 DEF acquire
    <2>2. pc' \in [Caller -> Place]
      BY <2>1 DEF Goes, TypeOK, Place
    <2> QED BY <2>1, <2>2, SendType DEF TypeOK
  <1>2. ASSUME NEW c \in Caller, Retry(c) PROVE TypeOK'
    <2>1. /\ pc[c] \in Script /\ Send(c, pc[c], attempt[c] + 1)
          /\ UNCHANGED <<key, cached, pc, left, lost>> /\ attempt[c] + 1 \in Nat
      BY <1>2 DEF Retry, TypeOK
    <2> QED BY <2>1, SendType DEF TypeOK
  <1>3. ASSUME NEW c \in Caller, Won(c) PROVE TypeOK'
    <2>1. Settles(c, "holding") /\ UNCHANGED <<key, cached, queue, lost>> /\ "holding" \in Place
      BY <1>3 DEF Won, Place
    <2>2. left' \in [Caller -> 0..Duration]
      BY <1>3 DEF Won, TypeOK
    <2> QED BY <2>1, <2>2, SettlesType DEF TypeOK
  <1>4. ASSUME NEW c \in Caller, GiveUp(c) PROVE TypeOK'
    <2>1. /\ Send(c, "release", RetryCount[c] + 2) /\ Goes(c, "undoing")
          /\ UNCHANGED <<key, cached, left, lost>> /\ RetryCount[c] + 2 \in Nat
      BY <1>4, RedlockAssumption DEF GiveUp
    <2>2. pc' \in [Caller -> Place]
      BY <2>1 DEF Goes, TypeOK, Place
    <2> QED BY <2>1, <2>2, SendType DEF TypeOK
  <1>5. ASSUME NEW c \in Caller, extend(c) PROVE TypeOK'
    <2>1. Send(c, "extend", 1) /\ Goes(c, "extend") /\ UNCHANGED <<key, cached, left, lost>>
      BY <1>5 DEF extend
    <2>2. pc' \in [Caller -> Place]
      BY <2>1 DEF Goes, TypeOK, Place
    <2> QED BY <2>1, <2>2, SendType DEF TypeOK
  <1>6. ASSUME NEW c \in Caller, Extended(c) PROVE TypeOK'
    <2>1. Settles(c, "extended") /\ UNCHANGED <<key, cached, queue, lost>> /\ "extended" \in Place
      BY <1>6 DEF Extended, Place
    <2>2. left' \in [Caller -> 0..Duration]
      BY <1>6 DEF Extended, TypeOK
    <2> QED BY <2>1, <2>2, SettlesType DEF TypeOK
  <1>7. ASSUME NEW c \in Caller, ExtendThrows(c) PROVE TypeOK'
    <2>1. Settles(c, "extended") /\ UNCHANGED <<key, cached, queue, left, lost>> /\ "extended" \in Place
      BY <1>7 DEF ExtendThrows, Place
    <2> QED BY <2>1, SettlesType DEF TypeOK
  <1>8. ASSUME NEW c \in Caller, release(c) PROVE TypeOK'
    <2>1. Send(c, "release", 1) /\ Goes(c, "release") /\ UNCHANGED <<key, cached, lost>>
      BY <1>8 DEF release
    <2>2. pc' \in [Caller -> Place] /\ left' \in [Caller -> 0..Duration]
      BY <1>8, <2>1, EntryFacts DEF release, Goes, TypeOK, Place
    <2> QED BY <2>1, <2>2, SendType DEF TypeOK
  <1>9. ASSUME NEW c \in Caller, Ended(c) PROVE TypeOK'
    <2>1. Settles(c, "ended") /\ UNCHANGED <<key, cached, queue, left, lost>> /\ "ended" \in Place
      BY <1>9 DEF Ended, Place
    <2> QED BY <2>1, SettlesType DEF TypeOK
  <1>10. ASSUME NEW c \in Caller, NEW k \in Client, Execute(c, k) PROVE TypeOK'
    <2>1. Pending(c, k) /\ Executed(c, k) /\ UNCHANGED <<pc, attempt, since, left, lost>>
      BY <1>10 DEF Execute
    <2>2. votes' \in [Caller -> Ballots]
      <3>1. Applies(c, k, Head(queue[c][k]).op) \in BOOLEAN
        BY DEF Applies
      <3> QED BY <1>10, <3>1, VoteType DEF Execute
    <2> QED BY <2>1, <2>2, ExecutedType DEF TypeOK
  <1>11. ASSUME NEW c \in Caller, NEW k \in Client, NoScript(c, k) PROVE TypeOK'
    <2>1. Head(queue[c][k]) \in Commands /\ Tail(queue[c][k]) \in Seq(Commands)
      BY <1>11, HeadType DEF NoScript
    <2>2. [Head(queue[c][k]) EXCEPT !.how = "text"] \in Commands
      BY <2>1 DEF Commands
    <2>3. Append(Tail(queue[c][k]), [Head(queue[c][k]) EXCEPT !.how = "text"]) \in Seq(Commands)
      BY <2>1, <2>2
    <2>4. queue' \in [Caller -> [Client -> Seq(Commands)]]
      BY <1>11, <2>3 DEF NoScript, TypeOK
    <2> QED BY <1>11, <2>4 DEF NoScript, TypeOK
  <1>12. ASSUME NEW c \in Caller, NEW k \in Client, Lose(c, k) PROVE TypeOK'
    <2>1. Pending(c, k) /\ UNCHANGED <<pc, attempt, since, left>> /\ lost' \in Nat
      BY <1>12 DEF Lose, TypeOK
    <2>2. votes' \in [Caller -> Ballots]
      BY <1>12, VoteType DEF Lose
    <2>3. CASE Executed(c, k)
      BY <2>1, <2>2, <2>3, ExecutedType DEF TypeOK
    <2>4. CASE queue' = [queue EXCEPT ![c][k] = Tail(@)] /\ UNCHANGED <<key, cached>>
      BY <2>1, <2>2, <2>4, HeadType DEF TypeOK
    <2> QED BY <1>12, <2>3, <2>4 DEF Lose
  <1>13. CASE Tick
    BY <1>13, TickType DEF Tick, TypeOK
  <1>14. CASE UNCHANGED vars
    BY <1>14 DEF vars, TypeOK
  <1> QED BY <1>1, <1>2, <1>3, <1>4, <1>5, <1>6, <1>7, <1>8, <1>9, <1>10, <1>11, <1>12, <1>13, <1>14
          DEF Next, Call, Serve
-----------------------------------------------------------------------------
(* Sequences with one element more or less.                                 *)
LEMMA ReleasesAppend ==
    ASSUME NEW q \in Seq(Commands), NEW m \in Commands
    PROVE  Releases(Append(q, m)) <=> Releases(q) \/ m.op = "release"
  <1>1. /\ DOMAIN q = 1..Len(q) /\ DOMAIN Append(q, m) = 1..(Len(q) + 1)
        /\ Len(q) \in Nat /\ Append(q, m)[Len(q) + 1] = m
        /\ \A i \in 1..Len(q) : Append(q, m)[i] = q[i]
    OBVIOUS
  <1>2. ASSUME Releases(Append(q, m)) PROVE Releases(q) \/ m.op = "release"
    <2>1. PICK i \in 1..(Len(q) + 1) : Append(q, m)[i].op = "release"
      BY <1>1, <1>2 DEF Releases
    <2>2. CASE i = Len(q) + 1
      BY <1>1, <2>1, <2>2
    <2>3. CASE i # Len(q) + 1
      BY <1>1, <2>1, <2>3 DEF Releases
    <2> QED BY <2>2, <2>3
  <1>3. ASSUME Releases(q) PROVE Releases(Append(q, m))
    BY <1>1, <1>3 DEF Releases
  <1>4. ASSUME m.op = "release" PROVE Releases(Append(q, m))
    <2>1. Len(q) + 1 \in DOMAIN Append(q, m)
      BY <1>1
    <2> QED BY <1>1, <1>4, <2>1 DEF Releases
  <1> QED BY <1>2, <1>3, <1>4

LEMMA ReleasesTail ==
    ASSUME NEW q \in Seq(Commands), q # <<>>
    PROVE  Releases(q) <=> Releases(Tail(q)) \/ Head(q).op = "release"
  <1>1. /\ DOMAIN q = 1..Len(q) /\ DOMAIN Tail(q) = 1..(Len(q) - 1)
        /\ Len(q) \in Nat \ {0} /\ Head(q) = q[1]
        /\ \A i \in 1..(Len(q) - 1) : Tail(q)[i] = q[i + 1]
    BY HeadTailProperties, LenProperties, EmptySeq
  <1>2. ASSUME Releases(q) PROVE Releases(Tail(q)) \/ Head(q).op = "release"
    <2>1. PICK i \in 1..Len(q) : q[i].op = "release"
      BY <1>1, <1>2 DEF Releases
    <2>2. CASE i = 1
      BY <1>1, <2>1, <2>2
    <2>3. CASE i # 1
      <3>1. i - 1 \in 1..(Len(q) - 1) /\ q[(i - 1) + 1] = q[i]
        BY <1>1, <2>1, <2>3
      <3>2. Tail(q)[i - 1].op = "release"
        BY <1>1, <2>1, <3>1
      <3> QED BY <1>1, <3>1, <3>2 DEF Releases
    <2> QED BY <2>2, <2>3
  <1>3. ASSUME Releases(Tail(q)) PROVE Releases(q)
    <2>1. PICK i \in 1..(Len(q) - 1) : Tail(q)[i].op = "release"
      BY <1>1, <1>3 DEF Releases
    <2>2. i + 1 \in 1..Len(q) /\ q[i + 1].op = "release"
      BY <1>1, <2>1
    <2> QED BY <1>1, <2>2 DEF Releases
  <1>4. ASSUME Head(q).op = "release" PROVE Releases(q)
    <2>1. 1 \in DOMAIN q
      BY <1>1
    <2> QED BY <1>1, <1>4, <2>1 DEF Releases
  <1> QED BY <1>2, <1>3, <1>4

LEMMA SendReleases ==
    ASSUME TypeOK, NEW c \in Caller, NEW op \in Script, NEW n \in Nat, Send(c, op, n),
           NEW d \in Caller, NEW k \in Client
    PROVE  Releases(queue'[d][k]) <=> Releases(queue[d][k]) \/ (d = c /\ op = "release")
  <1>1. Command(op, "sha", n) \in Commands /\ Command(op, "sha", n).op = op
    BY DEF Command, Commands
  <1>2. CASE d = c
    <2>1. queue'[d][k] = Append(queue[d][k], Command(op, "sha", n)) /\ queue[d][k] \in Seq(Commands)
      BY <1>2 DEF Send, TypeOK
    <2> QED BY <1>1, <1>2, <2>1, ReleasesAppend
  <1>3. CASE d # c
    <2>1. queue'[d][k] = queue[d][k]
      BY <1>3 DEF Send, TypeOK
    <2> QED BY <1>3, <2>1
  <1> QED BY <1>2, <1>3

(* The commands that a server takes from a queue.                           *)
Taken(c, k) == /\ Pending(c, k)
               /\ queue' = [queue EXCEPT ![c][k] = Tail(@)]

LEMMA TakenReleases ==
    ASSUME TypeOK, NEW c \in Caller, NEW k \in Client, Taken(c, k),
           NEW d \in Caller, NEW j \in Client
    PROVE  Releases(queue[d][j]) <=>
             Releases(queue'[d][j]) \/ (d = c /\ j = k /\ Head(queue[c][k]).op = "release")
  <1>1. CASE d = c /\ j = k
    <2>1. queue'[d][j] = Tail(queue[c][k]) /\ queue[c][k] \in Seq(Commands) /\ queue[c][k] # <<>>
      BY <1>1, HeadType DEF Taken, TypeOK
    <2> QED BY <1>1, <2>1, ReleasesTail
  <1>2. CASE ~(d = c /\ j = k)
    <2>1. queue'[d][j] = queue[d][j]
      BY <1>2 DEF Taken, TypeOK
    <2> QED BY <1>2, <2>1
  <1> QED BY <1>1, <1>2

LEMMA NoScriptReleases ==
    ASSUME TypeOK, NEW c \in Caller, NEW k \in Client, NoScript(c, k),
           NEW d \in Caller, NEW j \in Client
    PROVE  Releases(queue'[d][j]) <=> Releases(queue[d][j])
  <1>1. CASE d = c /\ j = k
    <2> DEFINE q == queue[c][k]
               m == [Head(q) EXCEPT !.how = "text"]
    <2>1. q \in Seq(Commands) /\ q # <<>> /\ Head(q) \in Commands /\ Tail(q) \in Seq(Commands)
      BY HeadType DEF NoScript
    <2>2. m \in Commands /\ m.op = Head(q).op
      BY <2>1 DEF Commands
    <2>3. queue'[d][j] = Append(Tail(q), m)
      BY <1>1 DEF NoScript, TypeOK
    <2> HIDE DEF m, q
    <2>4. Releases(queue'[d][j]) <=> Releases(Tail(q)) \/ m.op = "release"
      BY <2>1, <2>2, <2>3, ReleasesAppend
    <2>5. Releases(q) <=> Releases(Tail(q)) \/ Head(q).op = "release"
      BY <2>1, ReleasesTail
    <2>6. queue[d][j] = q
      BY <1>1 DEF q
    <2> QED BY <2>2, <2>4, <2>5, <2>6
  <1>2. CASE ~(d = c /\ j = k)
    <2>1. queue'[d][j] = queue[d][j]
      BY <1>2 DEF NoScript, TypeOK
    <2> QED BY <2>1
  <1> QED BY <1>1, <1>2
-----------------------------------------------------------------------------
(* What a caller does of itself, and what happens on a server.              *)
Decides(c) == acquire(c) \/ extend(c) \/ release(c) \/ Call(c)
Happens(c, k) == Serve(c, k) \/ Lose(c, k)

LEMMA NextCases ==
    [Next]_vars => \/ \E c \in Caller : Decides(c)
                   \/ \E c \in Caller, k \in Client : Happens(c, k)
                   \/ Tick \/ UNCHANGED vars
  BY DEF Next, Decides, Happens

LEMMA HappensKeepsCallers ==
    ASSUME NEW c \in Caller, NEW k \in Client, Happens(c, k)
    PROVE  UNCHANGED <<pc, attempt, since, left>>
  BY DEF Happens, Serve, Execute, NoScript, Lose

LEMMA HappensReleases ==
    ASSUME TypeOK, NEW c \in Caller, NEW k \in Client, Happens(c, k),
           NEW d \in Caller, NEW j \in Client
    PROVE  Releases(queue'[d][j]) => Releases(queue[d][j])
  <1>1. CASE NoScript(c, k)
    BY <1>1, NoScriptReleases
  <1>2. CASE ~NoScript(c, k)
    <2>1. Taken(c, k)
      BY <1>2 DEF Happens, Serve, Execute, Lose, Executed, Taken
    <2> QED BY <2>1, TakenReleases
  <1> QED BY <1>1, <1>2

LEMMA DecidesOthers ==
    ASSUME TypeOK, NEW c \in Caller, Decides(c)
    PROVE  /\ UNCHANGED <<key, cached, lost, reordered>>
           /\ \A d \in Caller \ {c} :
                /\ pc'[d] = pc[d] /\ votes'[d] = votes[d] /\ since'[d] = since[d]
                /\ left'[d] = left[d] /\ queue'[d] = queue[d]
  <1> SUFFICES ASSUME NEW d \in Caller \ {c}
               PROVE  /\ UNCHANGED <<key, cached, lost, reordered>>
                      /\ pc'[d] = pc[d] /\ votes'[d] = votes[d] /\ since'[d] = since[d]
                      /\ left'[d] = left[d] /\ queue'[d] = queue[d]
    BY DEF Decides, Call, acquire, extend, release, Retry, Won, GiveUp, Extended, ExtendThrows, Ended
  <1>1. UNCHANGED <<key, cached, lost, reordered>>
    BY DEF Decides, Call, acquire, extend, release, Retry, Won, GiveUp, Extended, ExtendThrows, Ended
  <1>2. pc'[d] = pc[d] /\ left'[d] = left[d]
    BY DEF Decides, Call, acquire, extend, release, Retry, Won, GiveUp, Extended, ExtendThrows,
           Ended, Settles, Goes, TypeOK
  <1>3. \/ \E op \in Script, n \in Int : Send(c, op, n)
        \/ UNCHANGED queue /\ \E place \in Place : Settles(c, place)
    BY RedlockAssumption
       DEF Decides, Call, acquire, extend, release, Retry, Won, GiveUp, Extended, ExtendThrows,
           Ended, TypeOK, Script, Place
  <1>4. CASE \E op \in Script, n \in Int : Send(c, op, n)
    BY <1>1, <1>2, <1>4 DEF Send, TypeOK
  <1>5. CASE UNCHANGED queue /\ \E place \in Place : Settles(c, place)
    BY <1>1, <1>2, <1>5 DEF Settles, TypeOK
  <1> QED BY <1>3, <1>4, <1>5

(* What a caller that goes on does to its own state: it sends a command, or *)
(* settles with what it has.                                                *)
LEMMA DecidesSelf ==
    ASSUME TypeOK, NEW c \in Caller, Decides(c)
    PROVE  \/ /\ pc'[c] \in Script
              /\ pc[c] \in Late => pc'[c] \in Late
              /\ \E n \in Nat : Send(c, pc'[c], n)
              /\ left'[c] = left[c] \/ pc'[c] = "release"
              /\ Holds(c)' => Holds(c)
           \/ /\ pc'[c] = "undoing"
              /\ \E n \in Nat : Send(c, "release", n)
           \/ /\ pc'[c] \in {"holding", "extended"} /\ pc[c] \notin Late
              /\ Settles(c, pc'[c]) /\ UNCHANGED queue
              /\ \/ For(c) /\ left'[c] = since[c]
                 \/ pc[c] = "extend" /\ left'[c] = left[c]
           \/ /\ pc'[c] = "ended" /\ pc[c] \in Late
              /\ Settles(c, "ended") /\ UNCHANGED queue
  <1>1. CASE acquire(c)
    <2>1. pc'[c] = "acquire" /\ Send(c, "acquire", 1) /\ left'[c] = left[c] /\ pc[c] = "idle"
      BY <1>1 DEF acquire, Goes, TypeOK
    <2> QED BY <2>1 DEF Script, Late, Holds
  <1>2. CASE extend(c)
    <2>1. pc'[c] = "extend" /\ Send(c, "extend", 1) /\ left'[c] = left[c] /\ pc[c] = "holding"
      BY <1>2 DEF extend, Goes, TypeOK
    <2> QED BY <2>1 DEF Script, Late, Holds
  <1>3. CASE release(c)
    <2>1. pc'[c] = "release" /\ Send(c, "release", 1)
      BY <1>3 DEF release, Goes, TypeOK
    <2> QED BY <2>1 DEF Script, Late, Holds
  <1>4. CASE Retry(c)
    <2>1. /\ pc'[c] = pc[c] /\ pc[c] \in Script /\ left'[c] = left[c]
          /\ Send(c, pc[c], attempt[c] + 1) /\ attempt[c] + 1 \in Nat
      BY <1>4 DEF Retry, TypeOK
    <2> QED BY <2>1 DEF Holds
  <1>5. CASE GiveUp(c)
    <2>1. pc'[c] = "undoing" /\ Send(c, "release", RetryCount[c] + 2)
      BY <1>5 DEF GiveUp, Goes, TypeOK
    <2>2. RetryCount[c] + 2 \in Nat
      BY RedlockAssumption
    <2> QED BY <2>1, <2>2
  <1>6. CASE Won(c)
    <2>1. /\ pc'[c] = "holding" /\ pc[c] = "acquire" /\ Settles(c, "holding")
          /\ UNCHANGED queue /\ For(c) /\ left'[c] = since[c]
      BY <1>6 DEF Won, Settles, Goes, TypeOK
    <2> QED BY <2>1 DEF Late
  <1>7. CASE Extended(c)
    <2>1. /\ pc'[c] = "extended" /\ pc[c] = "extend" /\ Settles(c, "extended")
          /\ UNCHANGED queue /\ For(c) /\ left'[c] = since[c]
      BY <1>7 DEF Extended, Settles, Goes, TypeOK
    <2> QED BY <2>1 DEF Late
  <1>8. CASE ExtendThrows(c)
    <2>1. /\ pc'[c] = "extended" /\ pc[c] = "extend" /\ Settles(c, "extended")
          /\ UNCHANGED queue /\ left'[c] = left[c]
      BY <1>8 DEF ExtendThrows, Settles, Goes, TypeOK
    <2> QED BY <2>1 DEF Late
  <1>9. CASE Ended(c)
    <2>1. pc'[c] = "ended" /\ pc[c] \in Late /\ Settles(c, "ended") /\ UNCHANGED queue
      BY <1>9 DEF Ended, Settles, Goes, TypeOK, Late
    <2> QED BY <2>1
  <1> QED BY <1>1, <1>2, <1>3, <1>4, <1>5, <1>6, <1>7, <1>8, <1>9 DEF Decides, Call

-----------------------------------------------------------------------------
(* No release is sent before its caller gives up.                           *)
LEMMA ReleasesStep ==
    ASSUME TypeOK, NoneReleasedYet, [Next]_vars
    PROVE  NoneReleasedYet'
  <1> SUFFICES ASSUME NEW d \in Caller, pc'[d] \notin Late, NEW j \in Client,
                      Releases(queue'[d][j])
               PROVE  FALSE
    BY DEF NoneReleasedYet
  <1>1. pc[d] \in Late \/ ~Releases(queue[d][j])
    BY DEF NoneReleasedYet
  <1>2. ASSUME NEW c \in Caller, Decides(c) PROVE FALSE
    <2>1. CASE c # d
      BY <1>1, <1>2, <2>1, DecidesOthers
    <2>2. CASE c = d
      <3>1. CASE /\ pc'[c] \in Script
                 /\ pc[c] \in Late => pc'[c] \in Late
                 /\ \E n \in Nat : Send(c, pc'[c], n)
        <4>1. pc[d] \notin Late /\ pc'[c] # "release"
          BY <2>2, <3>1 DEF Late
        <4> QED BY <1>1, <2>2, <3>1, <4>1, SendReleases
      <3>2. CASE pc'[c] \in {"undoing", "ended"}
        BY <2>2, <3>2 DEF Late
      <3>3. CASE UNCHANGED queue /\ pc[c] \notin Late
        BY <1>1, <2>2, <3>3
      <3> QED BY <1>2, <3>1, <3>2, <3>3, DecidesSelf
    <2> QED BY <2>1, <2>2
  <1>3. ASSUME NEW c \in Caller, NEW k \in Client, Happens(c, k) PROVE FALSE
    BY <1>1, <1>3, HappensReleases, HappensKeepsCallers
  <1>4. CASE Tick \/ UNCHANGED vars
    BY <1>1, <1>4 DEF Tick, vars
  <1> QED BY <1>2, <1>3, <1>4, NextCases

LEMMA LateStep ==
    ASSUME TypeOK, NothingLate, [Next]_vars
    PROVE  NothingLate'
  <1> SUFFICES ASSUME NEW d \in Caller, pc'[d] \in Late PROVE since'[d] = 0
    BY DEF NothingLate
  <1>1. pc[d] \in Late => since[d] = 0
    BY DEF NothingLate
  <1>2. ASSUME NEW c \in Caller, Decides(c) PROVE since'[d] = 0
    <2>1. CASE c # d
      BY <1>1, <1>2, <2>1, DecidesOthers
    <2>2. CASE c = d
      <3>1. CASE \E n \in Nat : Send(c, "release", n)
        BY <2>2, <3>1 DEF Send, TypeOK
      <3>2. CASE Settles(c, "ended")
        BY <2>2, <3>2 DEF Settles, TypeOK
      <3>3. CASE pc'[c] \in Script /\ \E n \in Nat : Send(c, pc'[c], n)
        <4>1. pc'[c] = "release"
          BY <2>2, <3>3 DEF Late, Script
        <4> QED BY <3>1, <3>3, <4>1
      <3>4. CASE pc'[c] \in {"holding", "extended"}
        BY <2>2, <3>4 DEF Late
      <3> QED BY <1>2, <3>1, <3>2, <3>3, <3>4, DecidesSelf
    <2> QED BY <2>1, <2>2
  <1>3. ASSUME NEW c \in Caller, NEW k \in Client, Happens(c, k) PROVE since'[d] = 0
    BY <1>1, <1>3, HappensKeepsCallers
  <1>4. CASE Tick \/ UNCHANGED vars
    BY <1>1, <1>4 DEF Tick, vars
  <1> QED BY <1>2, <1>3, <1>4, NextCases
-----------------------------------------------------------------------------
(* What runs on a server leaves the entries of every caller that does not   *)
(* release.                                                                 *)
LEMMA HappensCover ==
    ASSUME TypeOK, NoneReleasedYet, NEW c \in Caller, NEW k \in Client, Happens(c, k),
           NEW d \in Caller, NEW j \in Client, NEW m \in 0..Duration,
           pc[d] \in Late => m = 0, Cover(key[j], d, m)
    PROVE  Cover(key'[j], d, m)
  <1>1. CASE UNCHANGED key
    BY <1>1
  <1>2. CASE Pending(c, k) /\ Executed(c, k)
    <2> DEFINE op == Head(queue[c][k]).op
    <2>1. op \in Script /\ (op = "release" => Releases(queue[c][k]))
      BY <1>2, HeadType DEF Releases
    <2>2. c = d /\ op = "release" => m = 0
      BY <2>1 DEF NoneReleasedYet
    <2>3. key'[j] = IF j = k THEN Scripted(c, k, op) ELSE key[j]
      BY <1>2 DEF Executed, TypeOK
    <2> HIDE DEF op
    <2>4. CASE j = k
      <3>1. Cover(Scripted(c, k, op), d, m)
        BY <2>1, <2>2, <2>4, ScriptedKeeps
      <3> QED BY <2>3, <2>4, <3>1
    <2>5. CASE j # k
      BY <2>3, <2>5
    <2> QED BY <2>4, <2>5
  <1> QED BY <1>1, <1>2 DEF Happens, Serve, Execute, NoScript, Lose

(* One unit of an entry passes for one unit of what is left.                *)
LEMMA TickCover ==
    ASSUME TypeOK, Tick, NEW d \in Caller, NEW j \in Client, NEW m \in 0..Duration,
           Cover(key[j], d, m)
    PROVE  Cover(key'[j], d, IF m = 0 THEN 0 ELSE m - 1)
  <1> SUFFICES ASSUME m > 1, NEW r \in Resources[d]
               PROVE  key'[j][r] # Absent /\ key'[j][r].of = d /\ key'[j][r].left >= m - 1
    BY EntryFacts DEF Cover
  <1>1. r \in Resource
    BY ResourcesType
  <1>2. key[j][r] # Absent /\ key[j][r].of = d /\ key[j][r].left >= m
    BY DEF Cover
  <1>3. key[j][r] \in Entry
    BY <1>1, <1>2 DEF TypeOK
  <1>4. key[j][r].left # 1 /\ key[j][r].left \in 1..Duration
    BY <1>2, <1>3 DEF Entry
  <1>5. key'[j][r] = [key[j][r] EXCEPT !.left = @ - 1]
    BY <1>1, <1>2, <1>4 DEF Tick
  <1>6. /\ [key[j][r] EXCEPT !.left = @ - 1].of = d
        /\ [key[j][r] EXCEPT !.left = @ - 1].left = key[j][r].left - 1
    BY <1>2, <1>3 DEF Entry
  <1>7. [key[j][r] EXCEPT !.left = @ - 1] \in Entry
    BY <1>3, <1>4, EntryFacts DEF Entry
  <1>8. key[j][r].left - 1 >= m - 1
    BY <1>2, <1>4, EntryFacts
  <1> QED BY <1>5, <1>6, <1>7, <1>8, EntryFacts

(* The votes that happen: a vote for by a server that ran the script.       *)
LEMMA HappensVotes ==
    ASSUME TypeOK, NEW c \in Caller, NEW k \in Client, Happens(c, k),
           NEW d \in Caller, NEW j \in votes'[d].for
    PROVE  \/ j \in votes[d].for
           \/ /\ d = c /\ j = k /\ Pending(c, k) /\ Executed(c, k)
              /\ Applies(c, k, Head(queue[c][k]).op)
  <1>1. votes \in [Caller -> Ballots]
    BY DEF TypeOK
  <1>2. CASE Execute(c, k)
    <2> DEFINE m == Head(queue[c][k])
    <2>1. CASE Applies(c, k, m.op)
      <3>1. votes' = votes \/ votes' = [votes EXCEPT ![c].for = @ \cup {k}]
        BY <1>2, <2>1 DEF Execute, Vote
      <3>2. CASE votes' = votes
        BY <3>2
      <3>3. CASE votes' = [votes EXCEPT ![c].for = @ \cup {k}]
        BY <1>1, <1>2, <2>1, <3>3 DEF Execute, Ballots
      <3> QED BY <3>1, <3>2, <3>3
    <2>2. CASE ~Applies(c, k, m.op)
      <3>1. votes' = votes \/ votes' = [votes EXCEPT ![c].against = @ \cup {k}]
        BY <1>2, <2>2 DEF Execute, Vote
      <3> QED BY <1>1, <3>1 DEF Ballots
    <2> QED BY <2>1, <2>2
  <1>3. CASE NoScript(c, k)
    BY <1>3 DEF NoScript
  <1>4. CASE Lose(c, k)
    <2>1. votes' = votes \/ votes' = [votes EXCEPT ![c].against = @ \cup {k}]
      BY <1>4 DEF Lose, Vote
    <2> QED BY <1>1, <2>1 DEF Ballots
  <1> QED BY <1>2, <1>3, <1>4 DEF Happens, Serve

LEMMA VotesStep ==
    ASSUME LInv, [Next]_vars
    PROVE  VotesCover'
  <1> SUFFICES ASSUME NEW d \in Caller, NEW j \in votes'[d].for
               PROVE  Cover(key'[j], d, since'[d])
    BY DEF VotesCover
  <1> USE DEF LInv
  <1>1. votes[d].for \subseteq Client /\ since[d] \in 0..Duration /\ Duration \in Nat \ {0}
    BY EntryFacts DEF TypeOK, Ballots
  <1>2. j \in votes[d].for => j \in Client /\ Cover(key[j], d, since[d])
    BY <1>1 DEF VotesCover
  <1>3. ASSUME NEW c \in Caller, Decides(c) PROVE Cover(key'[j], d, since'[d])
    <2>1. CASE c # d
      BY <1>2, <1>3, <2>1, DecidesOthers
    <2>2. CASE c = d
      <3>1. votes'[d].for = {}
        <4>1. \/ \E op, n : Send(c, op, n)
              \/ \E place : Settles(c, place)
          BY <1>3, DecidesSelf
        <4> QED BY <2>2, <4>1 DEF Send, Settles, NoVotes, TypeOK
      <3> QED BY <3>1
    <2> QED BY <2>1, <2>2
  <1>4. ASSUME NEW c \in Caller, NEW k \in Client, Happens(c, k)
        PROVE  Cover(key'[j], d, since'[d])
    <2>1. since'[d] = since[d] /\ (pc[d] \in Late => since[d] = 0)
      BY <1>4, HappensKeepsCallers DEF NothingLate
    <2>2. CASE j \in votes[d].for
      BY <1>1, <1>2, <1>4, <2>1, <2>2, HappensCover
    <2>3. CASE /\ d = c /\ j = k /\ Pending(c, k) /\ Executed(c, k)
               /\ Applies(c, k, Head(queue[c][k]).op)
      <3> DEFINE op == Head(queue[c][k]).op
      <3>1. op \in Script /\ (op = "release" => Releases(queue[c][k]))
        BY <2>3, HeadType DEF Releases
      <3>2. key'[j] = Scripted(c, k, op)
        BY <2>3 DEF Executed, TypeOK
      <3>3. CASE op = "release"
        <4>1. since'[d] = 0
          BY <2>1, <2>3, <3>1, <3>3 DEF NoneReleasedYet
        <4> QED BY <4>1 DEF Cover
      <3>4. CASE op # "release"
        <4> HIDE DEF op
        <4>1. Applies(c, k, op)
          BY <2>3 DEF op
        <4>2. Cover(Scripted(c, k, op), c, since[d])
          BY <1>1, <3>1, <3>4, <4>1, AppliedCovers
        <4> QED BY <2>1, <2>3, <3>2, <4>2
      <3> QED BY <3>3, <3>4
    <2> QED BY <1>4, <2>2, <2>3, HappensVotes
  <1>5. CASE Tick
    <2>1. votes' = votes /\ since'[d] = IF since[d] = 0 THEN 0 ELSE since[d] - 1
      BY <1>5 DEF Tick
    <2>2. Cover(key'[j], d, IF since[d] = 0 THEN 0 ELSE since[d] - 1)
      BY <1>1, <1>2, <1>5, <2>1, TickCover
    <2> QED BY <2>1, <2>2
  <1>6. CASE UNCHANGED vars
    BY <1>2, <1>6 DEF vars
  <1> QED BY <1>3, <1>4, <1>5, <1>6, NextCases
-----------------------------------------------------------------------------
(* A lock is won, or extended, by the votes of a majority, and rests on it. *)
LEMMA WonRests ==
    ASSUME LInv, NEW d \in Caller, For(d)
    PROVE  \E Q \in SUBSET Client :
             Cardinality(Q) >= Quorum /\ \A j \in Q : Cover(key[j], d, since[d])
  <1>1. votes[d].for \in SUBSET Client /\ Cardinality(votes[d].for) >= Quorum
    BY DEF LInv, TypeOK, Ballots, For
  <1> QED BY <1>1 DEF LInv, VotesCover

LEMMA HoldersStep ==
    ASSUME LInv, [Next]_vars
    PROVE  HoldersRest'
  <1> SUFFICES ASSUME NEW d \in Caller, Holds(d)'
               PROVE  \E Q \in SUBSET Client :
                        Cardinality(Q) >= Quorum /\ \A j \in Q : Cover(key'[j], d, left'[d])
    BY DEF HoldersRest, Rests
  <1> USE DEF LInv
  <1>1. pc'[d] \in {"holding", "extend", "extended"} /\ left'[d] > 0
    BY DEF Holds
  <1>2. left[d] \in 0..Duration /\ Duration \in Nat \ {0}
    BY EntryFacts DEF TypeOK
  <1>3. ASSUME Holds(d)
        PROVE  \E Q \in SUBSET Client :
                 Cardinality(Q) >= Quorum /\ \A j \in Q : Cover(key[j], d, left[d])
    BY <1>3 DEF HoldersRest, Rests
  <1>4. ASSUME NEW c \in Caller, Decides(c)
        PROVE  \E Q \in SUBSET Client :
                 Cardinality(Q) >= Quorum /\ \A j \in Q : Cover(key'[j], d, left'[d])
    <2>1. key' = key
      BY <1>4, DecidesOthers
    <2>2. CASE c # d
      <3>1. Holds(d) /\ left'[d] = left[d]
        BY <1>1, <1>4, <2>2, DecidesOthers DEF Holds
      <3> QED BY <1>3, <2>1, <3>1
    <2>3. CASE c = d
      <3>1. CASE left'[d] = left[d] /\ Holds(d)
        BY <1>3, <2>1, <3>1
      <3>2. CASE For(d) /\ left'[d] = since[d]
        BY <2>1, <3>2, WonRests
      <3>3. pc[c] = "extend" /\ left'[c] = left[c] => Holds(d)
        BY <1>1, <2>3 DEF Holds
      <3>4. pc'[c] # "release" /\ pc'[c] # "undoing" /\ pc'[c] # "ended"
        BY <1>1, <2>3
      <3> QED BY <1>4, <2>3, <3>1, <3>2, <3>3, <3>4, DecidesSelf
    <2> QED BY <2>2, <2>3
  <1>5. ASSUME NEW c \in Caller, NEW k \in Client, Happens(c, k)
        PROVE  \E Q \in SUBSET Client :
                 Cardinality(Q) >= Quorum /\ \A j \in Q : Cover(key'[j], d, left'[d])
    <2>1. Holds(d) /\ left'[d] = left[d] /\ pc[d] \notin Late
      BY <1>1, <1>5, HappensKeepsCallers DEF Holds, Late
    <2>2. PICK Q \in SUBSET Client :
            Cardinality(Q) >= Quorum /\ \A j \in Q : Cover(key[j], d, left[d])
      BY <1>3, <2>1
    <2>3. \A j \in Q : Cover(key'[j], d, left[d])
      BY <1>2, <1>5, <2>1, <2>2, HappensCover
    <2> QED BY <2>1, <2>2, <2>3
  <1>6. CASE Tick
    <2>1. left'[d] = IF left[d] = 0 THEN 0 ELSE left[d] - 1
      BY <1>6 DEF Tick
    <2>2. Holds(d)
      BY <1>1, <1>2, <1>6, <2>1 DEF Holds, Tick
    <2>3. PICK Q \in SUBSET Client :
            Cardinality(Q) >= Quorum /\ \A j \in Q : Cover(key[j], d, left[d])
      BY <1>3, <2>2
    <2>4. \A j \in Q : Cover(key'[j], d, IF left[d] = 0 THEN 0 ELSE left[d] - 1)
      BY <1>2, <1>6, <2>3, TickCover
    <2> QED BY <2>1, <2>3, <2>4
  <1>7. CASE UNCHANGED vars
    <2>1. Holds(d) /\ key' = key /\ left' = left
      BY <1>1, <1>7 DEF vars, Holds
    <2> QED BY <1>3, <2>1
  <1> QED BY <1>4, <1>5, <1>6, <1>7, NextCases

LEMMA InitLInv == Init => LInv
  <1> SUFFICES ASSUME Init PROVE LInv
    OBVIOUS
  <1>1. NoneReleasedYet
    BY DEF Init, NoneReleasedYet, Releases
  <1>2. NothingLate /\ VotesCover /\ HoldersRest
    BY DEF Init, NothingLate, VotesCover, HoldersRest, Late, NoVotes, Holds
  <1> QED BY <1>1, <1>2, InitType DEF LInv

LEMMA LInvStep == LInv /\ [Next]_vars => LInv'
  BY TypeStep, ReleasesStep, LateStep, VotesStep, HoldersStep DEF LInv

(* A resource on a server has one entry, and any two locks have a server in *)
(* common.                                                                  *)
LEMMA LInvExclusive == LInv => AtMostOneHolder
  <1> SUFFICES ASSUME LInv, NEW c \in Caller, NEW d \in Caller, Holds(c), Holds(d), c # d,
                      NEW r \in Resources[c] \cap Resources[d]
               PROVE  FALSE
    BY DEF AtMostOneHolder
  <1>1. PICK P \in SUBSET Client :
          Cardinality(P) >= Quorum /\ \A j \in P : Cover(key[j], c, left[c])
    BY DEF LInv, HoldersRest, Rests
  <1>2. PICK Q \in SUBSET Client :
          Cardinality(Q) >= Quorum /\ \A j \in Q : Cover(key[j], d, left[d])
    BY DEF LInv, HoldersRest, Rests
  <1>3. PICK k : k \in P /\ k \in Q
    BY <1>1, <1>2, QuorumsMeet
  <1>4. key[k][r].of = c /\ key[k][r].of = d
    BY <1>1, <1>2, <1>3 DEF Cover, Holds
  <1> QED BY <1>4

(* AtMostOneHolder: what a majority granted a caller no majority grants     *)
(* another before the first's expiration or release, whatever is retried,   *)
(* lost or late (acquire, extend, release, _execute and _attemptOperation   *)
(* of redis.lock.ts).                                                       *)
THEOREM RedlockAtMostOneHolder == Spec => []AtMostOneHolder
  <1>1. Spec => []LInv
    BY InitLInv, LInvStep, PTL DEF Spec
  <1>2. LInv => AtMostOneHolder
    BY LInvExclusive
  <1> QED BY <1>1, <1>2, PTL

-----------------------------------------------------------------------------
(* Two halves of an odd number: one of them is a majority.                  *)
LEMMA OddDecides ==
    ASSUME NEW P \in SUBSET Client, NEW Q \in SUBSET Client, P \cup Q = Client,
           Cardinality(Client) % 2 = 1
    PROVE  Cardinality(P) >= Quorum \/ Cardinality(Q) >= Quorum
  <1>1. IsFiniteSet(P) /\ IsFiniteSet(Q)
    BY QuorumFacts, FS_Subset
  <1>2. /\ Cardinality(P) \in Nat /\ Cardinality(Q) \in Nat /\ Cardinality(P \cap Q) \in Nat
        /\ Cardinality(P \cup Q) = Cardinality(P) + Cardinality(Q) - Cardinality(P \cap Q)
    BY <1>1, FS_Union, FS_CardinalityType, FS_Intersection
  <1>3. Cardinality(Client) = Cardinality(P) + Cardinality(Q) - Cardinality(P \cap Q)
    BY <1>2
  <1>4. Cardinality(P) + Cardinality(Q) >= Cardinality(Client)
    BY <1>2, <1>3
  <1> QED BY <1>2, <1>4, QuorumFacts DEF Quorum

(* Decided: with an odd number of servers an attempt on which all of them   *)
(* have voted is won or lost, and the promise of _attemptOperation is       *)
(* resolved; with an even number the votes may be equal.                    *)
THEOREM RedlockDecided ==
    ASSUME Cardinality(Client) % 2 = 1
    PROVE  Spec => []Decided
  <1>1. Spec => []TypeOK
    BY InitType, TypeStep, PTL DEF Spec
  <1>2. TypeOK => Decided
    <2> SUFFICES ASSUME TypeOK, NEW c \in Caller,
                        votes[c].for \cup votes[c].against = Client
                 PROVE  For(c) \/ Against(c)
      BY DEF Decided
    <2>1. votes[c].for \in SUBSET Client /\ votes[c].against \in SUBSET Client
      BY DEF TypeOK, Ballots
    <2> QED BY <2>1, OddDecides DEF For, Against
  <1> QED BY <1>1, <1>2, PTL

-----------------------------------------------------------------------------
(* Entries of a caller that what runs on a server adds.                     *)
LEMMA ScriptedMine ==
    ASSUME TypeOK, NEW c \in Caller, NEW d \in Caller, NEW k \in Client, NEW op \in Script,
           NEW r \in Resources[d],
           Scripted(c, k, op)[r] # Absent, Scripted(c, k, op)[r].of = d
    PROVE  \/ r \in Mine(d, k) /\ ~(c = d /\ op = "release")
           \/ c = d /\ op = "acquire" /\ Applies(c, k, "acquire")
  <1>1. r \in Resource
    BY ResourcesType
  <1>2. CASE Scripted(c, k, op)[r] = key[k][r]
    <2>1. r \in Mine(d, k)
      BY <1>2 DEF Mine
    <2>2. c = d /\ op = "release" => Scripted(c, k, op)[r] = Absent
      BY <1>1, <2>1 DEF Scripted
    <2> QED BY <2>1, <2>2
  <1>3. CASE Scripted(c, k, op)[r] # key[k][r]
    <2>1. r \in Resources[c] /\ op # "release"
      BY <1>1, <1>3 DEF Scripted
    <2>2. Applies(c, k, op) /\ Scripted(c, k, op)[r] = [of |-> c, left |-> Duration]
      BY <1>1, <1>3, <2>1 DEF Scripted
    <2>3. c = d
      BY <2>2
    <2>4. CASE op = "acquire"
      BY <2>2, <2>3, <2>4
    <2>5. CASE op # "acquire"
      <3>1. r \in Mine(c, k)
        BY <2>1, <2>2, <2>5 DEF Applies
      <3> QED BY <2>1, <2>3, <3>1
    <2> QED BY <2>4, <2>5
  <1> QED BY <1>2, <1>3

LEMMA WayStep ==
    ASSUME TypeOK, ReleaseOnItsWay, [Next]_vars
    PROVE  ReleaseOnItsWay'
  <1> SUFFICES ASSUME NEW d \in Caller, NEW j \in Client, pc'[d] \in Late,
                      <<d, j>> \notin reordered', Mine(d, j)' # {}
               PROVE  Releases(queue'[d][j])
    BY DEF ReleaseOnItsWay
  <1>1. ASSUME pc[d] \in Late, <<d, j>> \notin reordered, Mine(d, j) # {}
        PROVE  Releases(queue[d][j])
    BY <1>1 DEF ReleaseOnItsWay
  <1>2. ASSUME NEW c \in Caller, Decides(c) PROVE Releases(queue'[d][j])
    <2>1. key' = key /\ reordered' = reordered
      BY <1>2, DecidesOthers
    <2>2. CASE c # d
      BY <1>1, <1>2, <2>1, <2>2, DecidesOthers DEF Mine
    <2>3. CASE c = d
      <3>1. CASE \E n \in Nat : Send(c, "release", n)
        BY <2>3, <3>1, SendReleases DEF Script
      <3>2. CASE pc'[c] \in Script /\ \E n \in Nat : Send(c, pc'[c], n)
        <4>1. pc'[c] = "release"
          BY <2>3, <3>2 DEF Late, Script
        <4> QED BY <3>1, <3>2, <4>1
      <3>3. CASE pc[c] \in Late /\ UNCHANGED queue
        BY <1>1, <2>1, <2>3, <3>3 DEF Mine
      <3>4. CASE pc'[c] \in {"holding", "extended"}
        BY <2>3, <3>4 DEF Late
      <3> QED BY <1>2, <3>1, <3>2, <3>3, <3>4, DecidesSelf
    <2> QED BY <2>2, <2>3
  <1>3. ASSUME NEW c \in Caller, NEW k \in Client, NoScript(c, k) PROVE Releases(queue'[d][j])
    BY <1>1, <1>3, NoScriptReleases DEF NoScript, Mine
  <1>4. ASSUME NEW c \in Caller, NEW k \in Client, Pending(c, k), Executed(c, k), pc' = pc
        PROVE  Releases(queue'[d][j])
    <2> DEFINE op == Head(queue[c][k]).op
    <2>1. Taken(c, k) /\ op \in Script
      BY <1>4, HeadType DEF Executed, Taken
    <2>2. <<d, j>> \notin reordered
      BY <1>4 DEF Executed
    <2>3. PICK r \in Resources[d] : key'[j][r] # Absent /\ key'[j][r].of = d
      BY DEF Mine
    <2>4. CASE j # k
      <3>1. r \in Mine(d, j)
        BY <1>4, <2>3, <2>4 DEF Executed, TypeOK, Mine
      <3> QED BY <1>1, <1>4, <2>1, <2>2, <2>4, <3>1, TakenReleases
    <2>5. CASE j = k
      <3>1. key'[k] = Scripted(c, k, op)
        BY <1>4 DEF Executed, TypeOK
      <3> HIDE DEF op
      <3>2. \/ r \in Mine(d, k) /\ ~(c = d /\ op = "release")
            \/ c = d /\ op = "acquire" /\ Applies(c, k, "acquire")
        BY <2>1, <2>3, <2>5, <3>1, ScriptedMine
      <3>3. CASE r \in Mine(d, k) /\ ~(c = d /\ op = "release")
        BY <1>1, <1>4, <2>1, <2>2, <2>5, <3>3, TakenReleases DEF op
      <3>4. CASE c = d /\ op = "acquire" /\ Applies(c, k, "acquire")
        <4>1. pc[c] \in {"undoing", "release", "ended"}
          BY <1>4, <3>4 DEF Late
        <4>2. PICK i \in 2..Len(queue[c][k]) : queue[c][k][i].op = "release"
          BY <1>4, <2>5, <3>4, <4>1 DEF Executed, op
        <4>3. Releases(queue[c][k])
          <5>1. queue[c][k] \in Seq(Commands)
            BY <1>4, HeadType
          <5>2. i \in DOMAIN queue[c][k]
            BY <4>2, <5>1
          <5> QED BY <4>2, <5>2 DEF Releases
        <4> QED BY <2>1, <2>5, <3>4, <4>3, TakenReleases DEF op
      <3> QED BY <3>2, <3>3, <3>4
    <2> QED BY <2>4, <2>5
  <1>5. ASSUME NEW c \in Caller, NEW k \in Client, Lose(c, k) PROVE Releases(queue'[d][j])
    <2>1. Pending(c, k) /\ pc' = pc
      BY <1>5 DEF Lose
    <2>2. CASE Executed(c, k)
      BY <1>4, <2>1, <2>2
    <2>3. CASE ~Executed(c, k)
      <3>1. /\ Taken(c, k) /\ key' = key
            /\ reordered' = IF Head(queue[c][k]).op = "release" /\ Mine(c, k) # {}
                              THEN reordered \cup {<<c, k>>} ELSE reordered
        BY <1>5, <2>3 DEF Lose, Taken
      <3>2. <<d, j>> \notin reordered /\ Mine(d, j) # {}
        BY <3>1 DEF Mine
      <3>3. ~(d = c /\ j = k /\ Head(queue[c][k]).op = "release")
        BY <3>1, <3>2
      <3> QED BY <1>1, <2>1, <3>1, <3>2, <3>3, TakenReleases
    <2> QED BY <2>2, <2>3
  <1>6. CASE Tick
    <2>1. /\ pc' = pc /\ reordered' = reordered /\ queue' = queue
      BY <1>6 DEF Tick
    <2>2. PICK r \in Resources[d] : key'[j][r] # Absent /\ key'[j][r].of = d
      BY DEF Mine
    <2>3. r \in Mine(d, j)
      <3>1. r \in Resource
        BY ResourcesType
      <3>2. key[j][r] # Absent /\ key'[j][r] = [key[j][r] EXCEPT !.left = @ - 1]
        BY <1>6, <2>2, <3>1 DEF Tick
      <3>3. key[j][r] \in Entry
        BY <3>1, <3>2 DEF TypeOK
      <3>4. [key[j][r] EXCEPT !.left = @ - 1].of = key[j][r].of
        BY <3>3 DEF Entry
      <3> QED BY <2>2, <3>2, <3>4 DEF Mine
    <2> QED BY <1>1, <2>1, <2>3
  <1>7. CASE UNCHANGED vars
    BY <1>1, <1>7 DEF vars, Mine
  <1>8. ASSUME NEW c \in Caller, NEW k \in Client, Execute(c, k) PROVE Releases(queue'[d][j])
    BY <1>4, <1>8 DEF Execute
  <1> QED BY <1>2, <1>3, <1>5, <1>6, <1>7, <1>8, NextCases DEF Happens, Serve

(* NoLeftovers: a call that has ended leaves nothing on a server that has   *)
(* run its commands, unless its release was lost or overtook its acquire    *)
(* (the catch of acquire and release of redis.lock.ts).                     *)
THEOREM RedlockNoLeftovers == Spec => []NoLeftovers
  <1> DEFINE WInv == TypeOK /\ ReleaseOnItsWay
  <1>1. Init => WInv
    BY InitType DEF Init, ReleaseOnItsWay, Late
  <1>2. WInv /\ [Next]_vars => WInv'
    BY TypeStep, WayStep
  <1>3. WInv => NoLeftovers
    BY DEF ReleaseOnItsWay, NoLeftovers, Late, Releases
  <1> QED BY <1>1, <1>2, <1>3, PTL DEF Spec
=============================================================================
