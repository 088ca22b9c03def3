------------------------- MODULE InternalTransport -------------------------
(***************************************************************************)
(* common/transport.ts: the in-process transport.  Subscriptions are kept  *)
(* in a trie over the hashes of the words of a topic, and what a topic was *)
(* found to reach is kept in a cache of two generations.  A word of a      *)
(* pattern is the sequence of its choices: one, or those of {a|b}.         *)
(***************************************************************************)
EXTENDS SequencesExt, Integers, FiniteSets

CONSTANTS Handler,
          Topic,         (* sequences of words                              *)
          Pattern,       (* what is listened to                             *)
          Hash,          (* of a word: a string that stands for 32 bits     *)
          Throwing,      (* handlers that throw before they return          *)
          maxCacheSize,
          MaxListens     (* bound on the calls of listen                    *)

ASSUME TransportAssumption == maxCacheSize \in Nat \ {0} /\ MaxListens \in Nat

(* A hash is told apart from the two wildcards.                             *)
ASSUME WordsAssumption ==
       /\ \A w \in DOMAIN Hash : Hash[w] \notin {"*", ">"}
       /\ Topic \subseteq Seq(DOMAIN Hash)
       /\ Pattern \subseteq Seq(Seq(DOMAIN Hash \cup {"*", ">"}))

VARIABLES root,        (* the handlers at the nodes of the trie, by path     *)
          cacheActive, cacheOld,
          listens,     (* the calls of listen, in order                     *)
          called       (* the topic emitted since then, the handlers called  *)

transportVars == <<root, cacheActive, cacheOld, listens, called>>

Empty == [t \in {} |-> <<>>]
EmptyWord == ""
Nothing == [topic |-> <<>>, handlers |-> <<>>]

TransportInit == /\ root = Empty
                 /\ cacheActive = Empty /\ cacheOld = Empty
                 /\ listens = <<>>
                 /\ called = Nothing
-----------------------------------------------------------------------------
(* The words of a path of the trie.                                         *)
Keys == {Hash[w] : w \in DOMAIN Hash} \cup {"*", ">"}

Key(word) == IF word \in {"*", ">"} THEN word ELSE Hash[word]

(* The paths of a pattern, one for every combination of its choices.        *)
precompute(pattern) ==
    LET Paths[i \in 0..Len(pattern)] ==
          IF i = 0 THEN <<<<>>>>
          ELSE FlattenSeq([c \in DOMAIN pattern[i] |->
                 [p \in DOMAIN Paths[i - 1] |-> Append(Paths[i - 1][p], pattern[i][c])]])
    IN  Paths[Len(pattern)]

HandlersAt(node, path) == IF path \in DOMAIN node THEN node[path] ELSE <<>>

addSubscription(node, segments, handler) ==
    LET path == [i \in DOMAIN segments |-> Key(segments[i])] IN
      [p \in DOMAIN node \cup {path} |->
         IF p = path THEN Append(HandlersAt(node, p), handler) ELSE HandlersAt(node, p)]

WithPaths(node, p, handler) ==
    LET With[i \in 0..Len(precompute(p))] ==
          IF i = 0 THEN node ELSE addSubscription(With[i - 1], precompute(p)[i], handler)
    IN  With[Len(precompute(p))]

(* Faulty: ">" is taken to cover an empty rest.                             *)
searchGreedily(node, topic) ==
    LET n == Len(topic)
        Rest[k \in 0..n] ==
          [path \in Seq(Keys) |->
             IF k = 0 THEN HandlersAt(node, path)
             ELSE HandlersAt(node, Append(path, ">"))
                  \o Rest[k - 1][Append(path, Hash[topic[n - k + 1]])]
                  \o Rest[k - 1][Append(path, "*")]]
    IN  Rest[n][<<>>]

(* From a node, when k words are left: first the handlers at its ">", if     *)
(* something of the topic is left (an empty last word is nothing), then     *)
(* those the next word leads to, and those "*" leads to.                    *)
recursiveSearch(node, topic) ==
    LET n == Len(topic)
        Rest[k \in 0..n] ==
          [path \in Seq(Keys) |->
             IF k = 0 THEN HandlersAt(node, path)
             ELSE (IF k > 1 \/ topic[n] # EmptyWord
                     THEN HandlersAt(node, Append(path, ">")) ELSE <<>>)
                  \o Rest[k - 1][Append(path, Hash[topic[n - k + 1]])]
                  \o Rest[k - 1][Append(path, "*")]]
    IN  Rest[n][<<>>]
-----------------------------------------------------------------------------
(* Faulty: a new subscription clears the young generation only.             *)
listenKeepsOld(p, handler) ==
    /\ Len(listens) < MaxListens
    /\ listens' = Append(listens, [pattern |-> p, handler |-> handler])
    /\ root' = WithPaths(root, p, handler)
    /\ cacheActive' = Empty
    /\ called' = Nothing
    /\ UNCHANGED cacheOld

(* listen: both generations of the cache are dropped.                       *)
listen(p, handler) ==
    /\ Len(listens) < MaxListens
    /\ listens' = Append(listens, [pattern |-> p, handler |-> handler])
    /\ root' = WithPaths(root, p, handler)
    /\ cacheActive' = Empty /\ cacheOld' = Empty
    /\ called' = Nothing

(* match: from the young generation, or the old one, or the trie.           *)
match(topic) == IF topic \in DOMAIN cacheActive THEN cacheActive[topic]
                ELSE IF topic \in DOMAIN cacheOld THEN cacheOld[topic]
                ELSE recursiveSearch(root, topic)

updateCache(topic, handlers) ==
    LET cache == [t \in DOMAIN cacheActive \cup {topic} |->
                    IF t = topic THEN handlers ELSE cacheActive[t]]
    IN  IF Cardinality(DOMAIN cache) >= maxCacheSize
          THEN cacheOld' = cache /\ cacheActive' = Empty
          ELSE cacheActive' = cache /\ UNCHANGED cacheOld

(* emit calls the handlers one after the other; one that throws ends it.    *)
UpToThrow(handlers) ==
    LET first == SelectInSeq(handlers, LAMBDA h : h \in Throwing) IN
      IF first = 0 THEN handlers ELSE SubSeq(handlers, 1, first)

emit(topic) ==
    LET handlers == match(topic) IN
        /\ called' = [topic |-> topic, handlers |-> UpToThrow(handlers)]
        /\ IF topic \in DOMAIN cacheActive THEN UNCHANGED <<cacheActive, cacheOld>>
           ELSE updateCache(topic, handlers)
        /\ UNCHANGED <<root, listens>>

(* close clears the cache; the subscriptions stay.                          *)
close ==
    /\ cacheActive' = Empty /\ cacheOld' = Empty
    /\ UNCHANGED <<root, listens, called>>

TransportNext ==
    \/ \E p \in Pattern, h \in Handler : listen(p, h)
    \/ \E t \in Topic : emit(t)
    \/ close

TransportSpec == TransportInit /\ [][TransportNext]_transportVars
-----------------------------------------------------------------------------
(* What a pattern means: "*" is one word, a ">" at the end is one or more,   *)
(* and words with the same hash are not told apart.                         *)
Covers(segments, topic) ==
    LET Same(i) == \/ segments[i] = "*"
                   \/ segments[i] \notin {"*", ">"} /\ Hash[segments[i]] = Hash[topic[i]]
        n == Len(segments)
    IN  \/ n = Len(topic) /\ \A i \in 1..n : Same(i)
        \/ /\ n > 0 /\ n <= Len(topic) /\ segments[n] = ">"
           /\ n = Len(topic) => topic[n] # EmptyWord
           /\ \A i \in 1..(n - 1) : Same(i)

Times(handlers, h) == Cardinality({i \in DOMAIN handlers : handlers[i] = h})

(* The paths of what was listened to, and how many of a handler's cover a   *)
(* topic.                                                                   *)
Subscriptions == UNION {{i} \X DOMAIN precompute(listens[i].pattern) : i \in DOMAIN listens}

Asked(topic, h) ==
    Cardinality({s \in Subscriptions :
                   /\ listens[s[1]].handler = h
                   /\ Covers(precompute(listens[s[1]].pattern)[s[2]], topic)})

(* An emit calls every handler as often as the subscriptions made so far ask *)
(* for its topic, or stops at a handler that throws and has then called none *)
(* more often than that.                                                    *)
Delivered ==
    \/ called = Nothing
    \/ LET Calls(h) == Times(called.handlers, h) IN
         IF called.handlers # <<>> /\ Last(called.handlers) \in Throwing
           THEN \A h \in Handler : Calls(h) <= Asked(called.topic, h)
           ELSE \A h \in Handler : Calls(h) = Asked(called.topic, h)

(* What the cache says of a topic is what the trie says of it now.          *)
CacheFresh ==
    /\ \A t \in DOMAIN cacheActive : cacheActive[t] = recursiveSearch(root, t)
    /\ \A t \in DOMAIN cacheOld : cacheOld[t] = recursiveSearch(root, t)

(* A generation is given up when it is full.                                *)
CacheBounded ==
    /\ Cardinality(DOMAIN cacheActive) < maxCacheSize
    /\ Cardinality(DOMAIN cacheOld) <= maxCacheSize

CacheSound == CacheFresh /\ CacheBounded
=============================================================================
