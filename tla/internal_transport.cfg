SPECIFICATION TransportSpec
CONSTANTS
  f = f
  g = g
  Handler = {f, g}
  Topic <- MCTopic
  Pattern <- MCPattern
  Hash <- MCHash
  Throwing = {g}
  maxCacheSize = 2
  MaxListens = 3
INVARIANTS Delivered CacheSound
