CONSTANTS
  r1 = r1
  r2 = r2
  k1 = k1
  k2 = k2
  o1 = o1
  o2 = o2
  a = a
  b = b
  src = src
  lib = lib
  Request = {r1}
  Key = {k1, k2}
  Orig = {o1, o2}
  Path = {a, b}
  Directory = {src, lib}
  DirOf <- MCDirOf
  Mentions <- MCMentions
  Compress <- MCCompress
  MaxSize = 2
  TTL = 1
  MaxDirs = 2
  PruneAge = 2
  MaxWrites = 2
  MaxReplacements = 1
  MaxArrivals = 2
SPECIFICATION FairInvalidationSpec
INVARIANTS
  WritesInvalidate
