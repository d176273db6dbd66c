SPECIFICATION Spec
CONSTANTS
  reddit = reddit
  rss = rss
  f1 = f1
  f2 = f2
  f3 = f3
  x = x
  none = none
  d = d
  Workers = {w1, w2}
  Posts <- mcPosts
  OldPosts <- mcOldPosts
  Papers <- mcPapers
  OldPapers <- mcOldPapers
  Window = 1
  OldSources = {rss}
  Enabled = {reddit, rss}
  Keyed = {rss}
  Place <- mcPlace
  Tolerant = {rss}
  MaxTime = 2
  MaxSweeps = 2
SYMMETRY WorkerSymmetry
INVARIANTS
  SeenPostsAreKept
  KnownPapersAreMentioned
  MentionedOnce
  NothingIsCountedTwice
CHECK_DEADLOCK FALSE
